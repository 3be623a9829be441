------------------------ MODULE RouteOperationProofs ------------------------
(***************************************************************************)
(* Proofs about RoutePlanning and RouteOperation, for all maps, requests   *)
(* and calls.                                                              *)
(*                                                                         *)
(* Of the searches: one stays on the map, knows how it came to every       *)
(* point, and each of its steps brings it nearer its end; what it finds is *)
(* one way, whose steps cost what it says, and a shortest one.             *)
(*                                                                         *)
(* Of the routes: what is made of the found points, and what every         *)
(* operation leaves of a route, is a list of rows of lanes whose links     *)
(* answer each other.                                                      *)
(***************************************************************************)
EXTENDS RouteOperation, SequenceTheorems, FiniteSetTheorems, WellFoundedInduction,
        TLAPS

-----------------------------------------------------------------------------
(* The neighbours of a point.                                              *)

\* A step from a point of the map leads to a point of the map.
LEMMA NeighborsAreOnTheMap ==
  ASSUME NEW m, NEW q, NEW p \in RoutingPoints(m), q.dest \in RoutingPoints(m),
         NEW n \in SameLaneNeighbors(m, q, p) \cup LongitudinalNeighbors(m, q, p)
                     \cup LateralNeighbors(m, q, p)
  PROVE  n.to \in RoutingPoints(m)
<1>1. CASE n \in SameLaneNeighbors(m, q, p)
  <2>1. CASE \E e \in LaneEndsAhead(m, q, p) : n = Neighbor(m, p, At(p, e))
    <3>1. PICK e \in {0, Scale} : n.to = [p EXCEPT !.offset = e]
      BY <2>1 DEF Neighbor, At, LaneEndsAhead
    <3>2. e \in Offsets
      BY ScaleAssumption DEF Offsets
    <3> QED
      BY <3>1, <3>2 DEF RoutingPoints
  <2>2. CASE n = Neighbor(m, p, q.dest)
    BY <2>2 DEF Neighbor
  <2> QED
    BY <1>1, <2>1, <2>2 DEF SameLaneNeighbors
<1>2. CASE n \in LongitudinalNeighbors(m, q, p)
  <2>1. PICK k \in m.lanes :
          \/ n.to = [lane |-> k, offset |-> Scale, dir |-> "NEGATIVE"]
          \/ n.to = [lane |-> k, offset |-> 0, dir |-> "POSITIVE"]
    BY <1>2 DEF LongitudinalNeighbors, LongitudinalNeighbor, LongitudinalContacts
  <2>2. 0 \in Offsets /\ Scale \in Offsets
    BY ScaleAssumption DEF Offsets
  <2> QED
    BY <2>1, <2>2 DEF RoutingPoints, RoutingDirections
<1>3. CASE n \in LateralNeighbors(m, q, p)
  <2>1. PICK k \in m.lanes : n.to = [p EXCEPT !.lane = k]
    BY <1>3 DEF LateralNeighbors, Neighbor
  <2> QED
    BY <2>1 DEF RoutingPoints
<1> QED
  BY <1>1, <1>2, <1>3

\* Every point a search improves is a neighbour of the expanded one, on the
\* map, and neither closed nor the expanded point itself.
LEMMA ImprovedPoints ==
  ASSUME NEW m, NEW q, NEW known, NEW done, NEW p \in RoutingPoints(m),
         q.dest \in RoutingPoints(m), NEW n \in Improved(m, q, known, done, p)
  PROVE  /\ n.to \in RoutingPoints(m)
         /\ n.to \notin done
         /\ n.to # p
         /\ IsNeighbor(m, q, p, n.to)
<1>1. n.to \notin done /\ n.to # p
  BY DEF Improved
<1>2. n \in SameLaneNeighbors(m, q, p) \cup LongitudinalNeighbors(m, q, p)
              \cup LateralNeighbors(m, q, p)
  BY DEF Improved, ExpandNeighbors
<1>3. n.to \in RoutingPoints(m)
  BY <1>2, NeighborsAreOnTheMap
<1>4. IsNeighbor(m, q, p, n.to)
  BY <1>2 DEF IsNeighbor
<1> QED
  BY <1>1, <1>3, <1>4

\* A search begins at its start, in one direction or in both.
LEMMA StartsAreOnTheMap ==
  ASSUME NEW m, NEW q, q.start \in RoutingPoints(m)
  PROVE  /\ StartPoints(q) \subseteq RoutingPoints(m)
         /\ DOMAIN StartOpen(m, q) = StartPoints(q)
<1>1. StartPoints(q) \subseteq RoutingPoints(m)
  BY DEF StartPoints, RoutingPoints, RoutingDirections
<1>2. DOMAIN StartOpen(m, q) = StartPoints(q)
  BY DEF StartOpen
<1> QED
  BY <1>1, <1>2

\* A map of finitely many lanes has finitely many points.
LEMMA FinitelyManyPoints ==
  ASSUME NEW m, IsFiniteSet(m.lanes)
  PROVE  IsFiniteSet(RoutingPoints(m))
<1> DEFINE Triples == (m.lanes \X Offsets) \X RoutingDirections
           Point(t) == [lane |-> t[1][1], offset |-> t[1][2], dir |-> t[2]]
<1>1. IsFiniteSet(Offsets)
  <2>1. 0 \in Int /\ Scale \in Int
    BY ScaleAssumption
  <2>2. IsFiniteSet(0 .. Scale)
    BY <2>1, FS_Interval
  <2> QED
    BY <2>2 DEF Offsets
<1>2. IsFiniteSet(RoutingDirections)
  <2>1. IsFiniteSet({"POSITIVE"})
    BY FS_Singleton
  <2>2. IsFiniteSet({"POSITIVE", "NEGATIVE"})
    BY <2>1, FS_AddElement, FS_Union, FS_Singleton
  <2>3. IsFiniteSet({"POSITIVE", "NEGATIVE"} \cup {"DONT_CARE"})
    BY <2>2, FS_AddElement
  <2> QED
    BY <2>3 DEF RoutingDirections
<1>3. IsFiniteSet(m.lanes \X Offsets)
  BY <1>1, FS_Product
<1>4. IsFiniteSet(Triples)
  BY <1>2, <1>3, FS_Product
<1>5. [t \in Triples |-> Point(t)] \in Surjection(Triples, RoutingPoints(m))
  <2>1. [t \in Triples |-> Point(t)] \in [Triples -> RoutingPoints(m)]
    BY DEF RoutingPoints
  <2>2. ASSUME NEW p \in RoutingPoints(m)
        PROVE  \E t \in Triples : [u \in Triples |-> Point(u)][t] = p
    <3>1. <<<<p.lane, p.offset>>, p.dir>> \in Triples
      BY DEF RoutingPoints
    <3>2. p = Point(<<<<p.lane, p.offset>>, p.dir>>)
      BY DEF RoutingPoints
    <3> QED
      BY <3>1, <3>2
  <2> QED
    BY <2>1, <2>2 DEF Surjection
<1> QED
  BY <1>4, <1>5, FS_Surjection

\* The query of one search of a request.
LEMMA QueriesAreOnTheMap ==
  ASSUME NEW m, NEW r, NEW start \in RoutingPoints(m), NEW n,
         \A i \in DOMAIN r.dests : r.dests[i] \in RoutingPoints(m)
  PROVE  /\ {"start", "dest", "ignoreDirection", "relevant"} \subseteq DOMAIN QueryOf(r, start, n)
         /\ QueryOf(r, start, n).start = start
         /\ QueryOf(r, start, n).dest \in RoutingPoints(m)
BY DEF QueryOf

-----------------------------------------------------------------------------
(* The invariant.                                                          *)

\* A search that has answered has cleared its tables.
Cleared ==
  outcome \in {"found", "notFound"} =>
    closed = {} /\ DOMAIN open = {} /\ DOMAIN cameFrom = {}

PlanningInv ==
  /\ TypeOK
  /\ EveryPointWasEntered
  /\ closed \cap DOMAIN open = {}
  /\ Cleared

\* No point is known before a search has begun.
LEMMA EmptyTable ==
  /\ DOMAIN << >> = {}
OBVIOUS

LEMMA InitInv ==
  Init => PlanningInv
<1> SUFFICES ASSUME Init
             PROVE  PlanningInv
  OBVIOUS
<1>1. PICK m \in Maps : \E a \in Requests(m) :
        /\ SearchInit(m, QueryOf(Resolved(m, a), Resolved(m, a).start, 1))
        /\ request = Resolved(m, a)
        /\ leg = 1
  BY DEF Init
<1>2. PICK a \in Requests(m) :
        /\ SearchInit(m, QueryOf(request, request.start, 1))
        /\ request = Resolved(m, a)
        /\ leg = 1
  BY <1>1
<1>3. /\ IsFiniteSet(m.lanes)
      /\ request.start \in RoutingPoints(m)
      /\ \A i \in DOMAIN request.dests : request.dests[i] \in RoutingPoints(m)
  BY <1>2, RequestAssumption
<1>4. /\ map = m
      /\ query = QueryOf(request, request.start, 1)
      /\ open = StartOpen(map, query)
      /\ closed = {}
      /\ cameFrom = << >>
      /\ outcome = "searching"
  BY <1>2 DEF SearchInit
<1>5. /\ {"start", "dest", "ignoreDirection", "relevant"} \subseteq DOMAIN query
      /\ query.start \in RoutingPoints(map)
      /\ query.dest \in RoutingPoints(map)
  <2>1. /\ {"start", "dest", "ignoreDirection", "relevant"} \subseteq DOMAIN QueryOf(request, request.start, 1)
        /\ QueryOf(request, request.start, 1).start = request.start
        /\ QueryOf(request, request.start, 1).dest \in RoutingPoints(m)
    BY <1>3, QueriesAreOnTheMap
  <2> QED
    BY <1>3, <1>4, <2>1
<1>6. StartPoints(query) \subseteq RoutingPoints(map) /\ DOMAIN open = StartPoints(query)
  BY <1>4, <1>5, StartsAreOnTheMap
<1>7. TypeOK
  BY <1>2, <1>3, <1>4, <1>5, <1>6 DEF TypeOK, Outcomes
<1>8. EveryPointWasEntered
  BY <1>4, <1>6, EmptyTable DEF EveryPointWasEntered
<1> QED
  BY <1>4, <1>7, <1>8 DEF PlanningInv, Cleared

-----------------------------------------------------------------------------
(* The steps of a search.                                                  *)

\* Expanding a point closes it, and opens points that can be entered from it.
LEMMA ExpandKeepsInv ==
  ASSUME PlanningInv, NEW p \in DOMAIN open, Expand(p), UNCHANGED planVars
  PROVE  PlanningInv'
<1> DEFINE Better == Improved(map, query, open, closed, p)
           New == {n.to : n \in Better}
<1>1. /\ p \in RoutingPoints(map)
      /\ query.dest \in RoutingPoints(map)
  BY DEF PlanningInv, TypeOK
<1>2. \A o \in New : /\ o \in RoutingPoints(map)
                     /\ o \notin closed /\ o # p
                     /\ IsNeighbor(map, query, p, o)
  BY <1>1, ImprovedPoints
<1>3. DOMAIN open' = (DOMAIN open \ {p}) \cup New
  <2>1. open' = AddNeighbors(map, query, open, closed, p)
    BY DEF Expand
  <2>2. \A o : o \in DOMAIN AddNeighbors(map, query, open, closed, p) <=>
                 \/ o \in DOMAIN open /\ o # p
                 \/ \E n \in Better : n.to = o
    BY DEF AddNeighbors
  <2> QED
    BY <2>1, <2>2
<1>4. /\ closed' = closed \cup {p}
      /\ UNCHANGED <<map, query, outcome, request, leg>>
      /\ outcome = "searching"
  BY DEF Expand, planVars
<1>5. /\ DOMAIN cameFrom' = DOMAIN cameFrom \cup New
      /\ \A o \in New : cameFrom'[o] = p
      /\ \A o \in DOMAIN cameFrom \ New : cameFrom'[o] = cameFrom[o]
  BY DEF Expand
<1>6. TypeOK'
  BY <1>1, <1>2, <1>3, <1>4 DEF PlanningInv, TypeOK
<1>7. EveryPointWasEntered'
  <2>1. ASSUME NEW o \in closed' \cup DOMAIN open'
        PROVE  o \in StartPoints(query') \cup DOMAIN cameFrom'
    BY <1>3, <1>4, <1>5, <2>1 DEF PlanningInv, EveryPointWasEntered
  <2>2. ASSUME NEW o \in DOMAIN cameFrom'
        PROVE  cameFrom'[o] \in closed' /\ IsNeighbor(map', query', cameFrom'[o], o)
    <3>1. CASE o \in New
      BY <1>2, <1>4, <1>5, <3>1
    <3>2. CASE o \notin New
      BY <1>4, <1>5, <3>2 DEF PlanningInv, EveryPointWasEntered
    <3> QED
      BY <3>1, <3>2
  <2> QED
    BY <2>1, <2>2 DEF EveryPointWasEntered
<1>8. (closed \cap DOMAIN open = {})'
  BY <1>2, <1>3, <1>4 DEF PlanningInv
<1>9. Cleared'
  BY <1>4 DEF Cleared
<1> QED
  BY <1>6, <1>7, <1>8, <1>9 DEF PlanningInv

\* The destination that was asked for is replaced by the point reached.
LEMMA ReachKeepsInv ==
  ASSUME PlanningInv, NEW p \in DOMAIN open, Reach(p), UNCHANGED planVars
  PROVE  PlanningInv'
<1>1. /\ query' = [query EXCEPT !.dest = p]
      /\ outcome' = "found"
      /\ open' = << >> /\ closed' = {} /\ cameFrom' = << >>
      /\ UNCHANGED <<map, request, leg>>
  BY DEF Reach, planVars
<1>2. DOMAIN open' = {} /\ DOMAIN cameFrom' = {}
  BY <1>1, EmptyTable
<1>3. /\ DOMAIN query' = DOMAIN query
      /\ query'.start = query.start
      /\ query'.dest = p
  BY <1>1 DEF PlanningInv, TypeOK
<1>4. p \in RoutingPoints(map)
  BY DEF PlanningInv, TypeOK
<1>5. TypeOK'
  BY <1>1, <1>2, <1>3, <1>4 DEF PlanningInv, TypeOK, Outcomes
<1> QED
  BY <1>1, <1>2, <1>5 DEF PlanningInv, EveryPointWasEntered, Cleared

LEMMA ThrowKeepsInv ==
  ASSUME PlanningInv, NEW p, Throw(p), UNCHANGED planVars
  PROVE  PlanningInv'
<1>1. UNCHANGED <<map, query, open, closed, cameFrom, request, leg>> /\ outcome' = "threw"
  BY DEF Throw, planVars
<1> QED
  BY <1>1 DEF PlanningInv, TypeOK, EveryPointWasEntered, Cleared, Outcomes

LEMMA GiveUpKeepsInv ==
  ASSUME PlanningInv, GiveUp, UNCHANGED planVars
  PROVE  PlanningInv'
<1>1. /\ UNCHANGED <<map, query, open, request, leg>>
      /\ open = << >> /\ closed' = {} /\ cameFrom' = << >>
      /\ outcome' = "notFound"
  BY DEF GiveUp, planVars
<1>2. DOMAIN open = {} /\ DOMAIN cameFrom' = {}
  BY <1>1, EmptyTable
<1> QED
  BY <1>1, <1>2 DEF PlanningInv, TypeOK, EveryPointWasEntered, Cleared, Outcomes

-----------------------------------------------------------------------------
(* From one search to the next.                                            *)

\* A new search begins with empty tables.
LEMMA NewSearchKeepsInv ==
  ASSUME PlanningInv, outcome \in {"found", "notFound"},
         NEW start \in RoutingPoints(map), NewSearch(QueryOf(request, start, leg + 1)),
         leg' = leg + 1, UNCHANGED request
  PROVE  PlanningInv'
<1>1. /\ query' = QueryOf(request, start, leg + 1)
      /\ open' = StartOpen(map, query')
      /\ outcome' = "searching"
      /\ UNCHANGED map
  BY DEF NewSearch
<1>2. closed' = {} /\ DOMAIN cameFrom' = {}
  BY DEF NewSearch
<1>3. /\ {"start", "dest", "ignoreDirection", "relevant"} \subseteq DOMAIN query'
      /\ query'.start \in RoutingPoints(map)
      /\ query'.dest \in RoutingPoints(map)
  <2>1. \A i \in DOMAIN request.dests : request.dests[i] \in RoutingPoints(map)
    BY DEF PlanningInv, TypeOK
  <2>2. /\ {"start", "dest", "ignoreDirection", "relevant"} \subseteq DOMAIN QueryOf(request, start, leg + 1)
        /\ QueryOf(request, start, leg + 1).start = start
        /\ QueryOf(request, start, leg + 1).dest \in RoutingPoints(map)
    BY <2>1, QueriesAreOnTheMap
  <2> QED
    BY <1>1, <2>2
<1>4. /\ StartPoints(query') \subseteq RoutingPoints(map)
      /\ DOMAIN open' = StartPoints(query')
  BY <1>1, <1>3, StartsAreOnTheMap
<1>5. TypeOK'
  BY <1>1, <1>2, <1>3, <1>4 DEF PlanningInv, TypeOK, Outcomes
<1>6. EveryPointWasEntered'
  BY <1>1, <1>2, <1>4 DEF EveryPointWasEntered
<1> QED
  BY <1>1, <1>2, <1>5, <1>6 DEF PlanningInv, Cleared

\* The last answer leaves the tables as they are.
LEMMA StopKeepsInv ==
  ASSUME PlanningInv, NEW answer, Stop(answer), leg' = leg + 1, UNCHANGED request
  PROVE  PlanningInv'
<1>1. UNCHANGED <<map, query, open, closed, cameFrom, outcome>>
  BY DEF Stop, searchVars
<1>2. leg' \in Nat
  BY DEF PlanningInv, TypeOK
<1> QED
  BY <1>1, <1>2 DEF PlanningInv, TypeOK, EveryPointWasEntered, Cleared

LEMMA NextDestinationKeepsInv ==
  ASSUME PlanningInv, NextDestination
  PROVE  PlanningInv'
<1>1. /\ outcome \in {"found", "notFound"}
      /\ leg' = leg + 1 /\ UNCHANGED request
  BY DEF NextDestination
<1>2. CASE leg < Len(request.dests)
  <2> DEFINE start == StartOfNextLeg
  <2>1. start \in RoutingPoints(map)
    BY DEF PlanningInv, TypeOK, StartOfNextLeg
  <2>2. NewSearch(QueryOf(request, start, leg + 1))
    BY <1>2 DEF NextDestination
  <2> HIDE DEF start
  <2> QED
    BY <1>1, <2>1, <2>2, NewSearchKeepsInv
<1>3. CASE ~ (leg < Len(request.dests))
  <2>1. Stop(PlannedRoute(map, request, MergedPoints(legs')))
    BY <1>3 DEF NextDestination
  <2> QED
    BY <1>1, <2>1, StopKeepsInv
<1> QED
  BY <1>2, <1>3

LEMMA NextCandidateKeepsInv ==
  ASSUME PlanningInv, NextCandidate
  PROVE  PlanningInv'
<1>1. /\ outcome \in {"found", "notFound"}
      /\ leg' = leg + 1 /\ UNCHANGED request
  BY DEF NextCandidate
<1>2. CASE leg < Len(request.dests)
  <2>1. request.start \in RoutingPoints(map)
    BY DEF PlanningInv, TypeOK
  <2>2. NewSearch(QueryOf(request, request.start, leg + 1))
    BY <1>2 DEF NextCandidate
  <2> QED
    BY <1>1, <2>1, <2>2, NewSearchKeepsInv
<1>3. CASE ~ (leg < Len(request.dests))
  <2>1. Stop(best')
    BY <1>3 DEF NextCandidate
  <2> QED
    BY <1>1, <2>1, StopKeepsInv
<1> QED
  BY <1>2, <1>3

LEMMA BreakOffKeepsInv ==
  ASSUME PlanningInv, BreakOff
  PROVE  PlanningInv'
<1>1. UNCHANGED <<map, query, open, closed, cameFrom, request, leg>> /\ outcome' = "threw"
  BY DEF BreakOff, planVars
<1> QED
  BY <1>1 DEF PlanningInv, TypeOK, EveryPointWasEntered, Cleared, Outcomes

LEMMA StutterKeepsInv ==
  ASSUME PlanningInv, UNCHANGED vars
  PROVE  PlanningInv'
<1>1. UNCHANGED <<map, query, open, closed, cameFrom, outcome, request, leg>>
  BY DEF vars, searchVars, planVars
<1> QED
  BY <1>1 DEF PlanningInv, TypeOK, EveryPointWasEntered, Cleared

LEMMA NextKeepsInv ==
  PlanningInv /\ [Next]_vars => PlanningInv'
<1> SUFFICES ASSUME PlanningInv, [Next]_vars
             PROVE  PlanningInv'
  OBVIOUS
<1>1. CASE Search
  <2>1. SearchNext /\ UNCHANGED planVars
    BY <1>1 DEF Search
  <2>2. ASSUME NEW p \in DOMAIN open, Expand(p)
        PROVE  PlanningInv'
    BY <2>1, <2>2, ExpandKeepsInv
  <2>3. ASSUME NEW p \in DOMAIN open, Reach(p)
        PROVE  PlanningInv'
    BY <2>1, <2>3, ReachKeepsInv
  <2>4. ASSUME NEW p \in DOMAIN open, Throw(p)
        PROVE  PlanningInv'
    BY <2>1, <2>4, ThrowKeepsInv
  <2>5. CASE GiveUp
    BY <2>1, <2>5, GiveUpKeepsInv
  <2> QED
    BY <2>1, <2>2, <2>3, <2>4, <2>5 DEF SearchNext
<1>2. CASE NextDestination
  BY <1>2, NextDestinationKeepsInv
<1>3. CASE NextCandidate
  BY <1>3, NextCandidateKeepsInv
<1>4. CASE BreakOff
  BY <1>4, BreakOffKeepsInv
<1>5. CASE Return
  <2>1. UNCHANGED vars
    BY <1>5 DEF Return
  <2> QED
    BY <2>1, StutterKeepsInv
<1>6. CASE UNCHANGED vars
  BY <1>6, StutterKeepsInv
<1> QED
  BY <1>1, <1>2, <1>3, <1>4, <1>5, <1>6 DEF Next

LEMMA InvHolds ==
  Spec => []PlanningInv
<1>1. Init => PlanningInv
  BY InitInv
<1>2. PlanningInv /\ [Next]_vars => PlanningInv'
  BY NextKeepsInv
<1> QED
  BY <1>1, <1>2, PTL DEF Spec

-----------------------------------------------------------------------------
(* What a search does.                                                     *)

\* Every point a search deals with is a point of the map.
THEOREM SearchesStayOnTheMap ==
  Spec => []TypeOK
<1>1. PlanningInv => TypeOK
  BY DEF PlanningInv
<1> QED
  BY <1>1, InvHolds, PTL

\* Following mCameFrom back from any known point meets a closed point, a
\* neighbour of the one before, at each step until a start is met.
THEOREM WaysLeadBack ==
  Spec => []EveryPointWasEntered
<1>1. PlanningInv => EveryPointWasEntered
  BY DEF PlanningInv
<1> QED
  BY <1>1, InvHolds, PTL

\* Closed points stay closed, and there are no more of them than points.
THEOREM PointsAreClosedForGood ==
  Spec => []ClosedForGood
<1>1. ASSUME PlanningInv
      PROVE  ClosedForGood
  <2>1. IsFiniteSet(RoutingPoints(map)) /\ closed \in SUBSET RoutingPoints(map)
    BY <1>1, FinitelyManyPoints DEF PlanningInv, TypeOK
  <2>2. Cardinality(closed) <= Cardinality(RoutingPoints(map))
    BY <2>1, FS_Subset
  <2> QED
    BY <1>1, <2>2 DEF PlanningInv, ClosedForGood
<1> QED
  BY <1>1, InvHolds, PTL

\* What makes every request end: each step closes one more point, or ends a
\* search or a leg.
THEOREM EveryStepAdvances ==
  Spec => SearchesAdvance
<1> DEFINE Advance == \/ Cardinality(closed') > Cardinality(closed)
                      \/ outcome = "searching" /\ outcome' # "searching"
                      \/ leg' > leg
                      \/ outcome' = "threw"
<1>1. ASSUME PlanningInv, [Next]_vars
      PROVE  [Advance]_vars
  <2> SUFFICES ASSUME ~ UNCHANGED vars
               PROVE  Advance
    OBVIOUS
  <2>1. ASSUME NEW p \in DOMAIN open, Expand(p)
        PROVE  Cardinality(closed') > Cardinality(closed)
    <3>1. closed' = closed \cup {p} /\ p \notin closed
      BY <1>1, <2>1 DEF Expand, PlanningInv
    <3>2. IsFiniteSet(RoutingPoints(map)) /\ closed \in SUBSET RoutingPoints(map)
      BY <1>1, FinitelyManyPoints DEF PlanningInv, TypeOK
    <3>3. IsFiniteSet(closed)
      BY <3>2, FS_Subset
    <3>4. Cardinality(closed) \in Nat
      BY <3>3, FS_CardinalityType
    <3>5. Cardinality(closed') = Cardinality(closed) + 1
      BY <3>1, <3>3, FS_AddElement
    <3> QED
      BY <3>4, <3>5
  <2>2. ASSUME NEW p, Reach(p) \/ Throw(p) \/ GiveUp
        PROVE  outcome = "searching" /\ outcome' # "searching"
    BY <2>2 DEF Reach, Throw, GiveUp
  <2>3. CASE NextDestination \/ NextCandidate
    <3>1. leg' = leg + 1 /\ leg \in Nat
      BY <1>1, <2>3 DEF NextDestination, NextCandidate, PlanningInv, TypeOK
    <3> QED
      BY <3>1
  <2>4. CASE BreakOff
    BY <2>4 DEF BreakOff
  <2> QED
    BY <1>1, <2>1, <2>2, <2>3, <2>4 DEF Next, Search, SearchNext, Return
<1> QED
  BY <1>1, InvHolds, PTL DEF Spec, SearchesAdvance

-----------------------------------------------------------------------------
(* The ways a search finds.                                                *)

NeighborsOf(m, q, p) ==
  SameLaneNeighbors(m, q, p) \cup LongitudinalNeighbors(m, q, p) \cup LateralNeighbors(m, q, p)

\* DistanceTables between points of a map are natural numbers.
LEMMA DistancesAreNatural ==
  ASSUME NEW m, m.at \in [m.lanes -> [Offsets -> Int \X Int]],
         NEW l \in m.lanes, NEW a \in Offsets, NEW k \in m.lanes, NEW b \in Offsets
  PROVE  /\ CentreDistance(m, l, a, k, b) \in Nat
         /\ CentreDistance(m, l, a, l, a) = 0
<1>1. /\ m.at[l][a] \in Int \X Int /\ m.at[k][b] \in Int \X Int
  OBVIOUS
<1>2. \A i, j \in Int : Gap(i, j) \in Nat /\ Gap(i, i) = 0
  BY DEF Gap
<1>3. /\ m.at[l][a][1] \in Int /\ m.at[l][a][2] \in Int
      /\ m.at[k][b][1] \in Int /\ m.at[k][b][2] \in Int
  BY <1>1
<1>4. /\ Gap(m.at[l][a][1], m.at[k][b][1]) \in Nat /\ Gap(m.at[l][a][2], m.at[k][b][2]) \in Nat
      /\ Gap(m.at[l][a][1], m.at[l][a][1]) = 0 /\ Gap(m.at[l][a][2], m.at[l][a][2]) = 0
  BY <1>2, <1>3
<1>5. \A i, j \in Nat : i + j \in Nat
  OBVIOUS
<1>6. CentreDistance(m, l, a, k, b) \in Nat
  BY <1>4, <1>5, Zenon DEF CentreDistance
<1>7. CentreDistance(m, l, a, l, a) = 0 + 0
  BY <1>4, Zenon DEF CentreDistance
<1> QED
  BY <1>6, <1>7

\* What a step on a lane, or to the one beside it, costs.
LEMMA StepsAsideCost ==
  ASSUME NEW m, NEW q, NEW p,
         NEW n \in SameLaneNeighbors(m, q, p) \cup LateralNeighbors(m, q, p)
  PROVE  n.distance = Larger(CentreDistance(m, p.lane, p.offset, n.to.lane, n.to.offset),
                             MinDistance)
<1>1. PICK t : n = Neighbor(m, p, t)
  BY DEF SameLaneNeighbors, LateralNeighbors
<1> DEFINE d == CentreDistance(m, p.lane, p.offset, t.lane, t.offset)
<1>2. n = [to |-> t, distance |-> Larger(d, MinDistance),
           duration |-> Larger(d * m.pace[p.lane], MinDuration)]
  BY <1>1, Zenon DEF Neighbor
<1>3. n.to = t /\ n.distance = Larger(d, MinDistance)
  <2> HIDE DEF d
  <2> QED
    BY <1>2
<1> QED
  BY <1>3, Zenon
\* Every step costs something.
LEMMA StepsCost ==
  ASSUME NEW m, m.at \in [m.lanes -> [Offsets -> Int \X Int]],
         NEW q, NEW p \in RoutingPoints(m), q.dest \in RoutingPoints(m),
         NEW n \in NeighborsOf(m, q, p)
  PROVE  n.distance \in Nat /\ n.distance >= 1
<1>1. MinDistance \in Nat /\ MinDistance >= 1
  BY MinimumAssumption
<1>2. \A d \in Nat : Larger(d, MinDistance) \in Nat /\ Larger(d, MinDistance) >= 1
  BY <1>1 DEF Larger
<1>3. CASE n \in LongitudinalNeighbors(m, q, p)
  BY <1>1, <1>3 DEF LongitudinalNeighbors, LongitudinalNeighbor
<1>4. CASE n \in SameLaneNeighbors(m, q, p) \cup LateralNeighbors(m, q, p)
  <2>1. n.to \in RoutingPoints(m)
    BY NeighborsAreOnTheMap DEF NeighborsOf
  <2>2. /\ p.lane \in m.lanes /\ p.offset \in Offsets
        /\ n.to.lane \in m.lanes /\ n.to.offset \in Offsets
    BY <2>1 DEF RoutingPoints
  <2>3. CentreDistance(m, p.lane, p.offset, n.to.lane, n.to.offset) \in Nat
    BY <2>2, DistancesAreNatural
  <2> QED
    BY <1>2, <1>4, <2>3, StepsAsideCost
<1> QED
  BY <1>3, <1>4 DEF NeighborsOf

\* A step to the next lane is one on the lane itself only where it leads to
\* the point it starts from.
LEMMA StepsAheadAndAside ==
  ASSUME NEW m, NEW q, NEW p \in RoutingPoints(m), q.dest \in RoutingPoints(m),
         NEW n \in LongitudinalNeighbors(m, q, p),
         NEW k \in SameLaneNeighbors(m, q, p) \cup LateralNeighbors(m, q, p), n.to = k.to
  PROVE  n.distance = MinDistance /\ n.to.lane = p.lane /\ n.to.offset = p.offset
<1>1. PICK l \in LongitudinalContacts(m, q, p) :
        n = LongitudinalNeighbor(
              IF GetContactLocation(m, l, p.lane) = "SUCCESSOR"
              THEN [lane |-> l, offset |-> Scale, dir |-> "NEGATIVE"]
              ELSE [lane |-> l, offset |-> 0, dir |-> "POSITIVE"])
  BY DEF LongitudinalNeighbors
<1>2. /\ n.distance = MinDistance
      /\ \/ n.to = [lane |-> l, offset |-> Scale, dir |-> "NEGATIVE"]
         \/ n.to = [lane |-> l, offset |-> 0, dir |-> "POSITIVE"]
  BY <1>1 DEF LongitudinalNeighbor
<1>3. \/ n.to.offset = Scale /\ n.to.dir = "NEGATIVE"
      \/ n.to.offset = 0 /\ n.to.dir = "POSITIVE"
  BY <1>2
<1>4. \/ p.offset = Scale /\ IsPositiveMovement(m, q, p)
      \/ p.offset = 0 /\ IsNegativeMovement(m, q, p)
  BY DEF LongitudinalContacts
<1>5. \/ p.offset = Scale /\ p.dir = "POSITIVE" /\ ~ IsNegativeMovement(m, q, p)
      \/ p.offset = 0 /\ p.dir = "NEGATIVE" /\ ~ IsPositiveMovement(m, q, p)
  BY <1>4 DEF IsPositiveMovement, IsNegativeMovement
<1>6. Scale # 0 /\ Scale \in Nat
  BY ScaleAssumption
<1>7. CASE k \in LateralNeighbors(m, q, p)
  <2>1. k.to.offset = p.offset /\ k.to.dir = p.dir
    <3>1. PICK j \in m.lanes : k.to = [p EXCEPT !.lane = j]
      BY <1>7 DEF LateralNeighbors, Neighbor
    <3> QED
      BY <3>1 DEF RoutingPoints
  <2> QED
    BY <1>3, <1>5, <1>6, <2>1
<1>8. CASE k \in SameLaneNeighbors(m, q, p)
  <2>1. CASE \E e \in LaneEndsAhead(m, q, p) : k = Neighbor(m, p, At(p, e))
    <3>1. PICK e \in LaneEndsAhead(m, q, p) : k.to = [p EXCEPT !.offset = e]
      BY <2>1 DEF Neighbor, At
    <3>2. k.to.offset = e /\ k.to.dir = p.dir
      BY <3>1 DEF RoutingPoints
    <3> QED
      BY <1>3, <1>5, <1>6, <3>2 DEF LaneEndsAhead
  <2>2. CASE k = Neighbor(m, p, q.dest) /\ ReachesDest(m, q, p)
    <3>1. k.to = q.dest /\ q.dest.lane = p.lane
      BY <2>2 DEF Neighbor, ReachesDest
    <3>2. q.dest.offset \in 0 .. Scale
      BY DEF RoutingPoints, Offsets
    <3>3. q.dest.offset = p.offset
      BY <1>5, <1>6, <2>2, <3>2 DEF ReachesDest
    <3> QED
      BY <1>2, <3>1, <3>3
  <2> QED
    BY <1>8, <2>1, <2>2 DEF SameLaneNeighbors
<1> QED
  BY <1>7, <1>8

\* Two steps between the same points cost the same.
LEMMA StepsCostTheSame ==
  ASSUME NEW m, m.at \in [m.lanes -> [Offsets -> Int \X Int]],
         NEW q, NEW p \in RoutingPoints(m), q.dest \in RoutingPoints(m),
         NEW n \in NeighborsOf(m, q, p), NEW k \in NeighborsOf(m, q, p), n.to = k.to
  PROVE  n.distance = k.distance
<1> DEFINE Long == LongitudinalNeighbors(m, q, p)
           Aside == SameLaneNeighbors(m, q, p) \cup LateralNeighbors(m, q, p)
<1>1. p.lane \in m.lanes /\ p.offset \in Offsets
  BY DEF RoutingPoints
<1>2. Larger(0, MinDistance) = MinDistance
  BY MinimumAssumption DEF Larger
<1>3. ASSUME NEW a \in Long, NEW b \in Aside, a.to = b.to
      PROVE  a.distance = b.distance
  <2>1. a.distance = MinDistance /\ b.to.lane = p.lane /\ b.to.offset = p.offset
    BY <1>3, StepsAheadAndAside
  <2>2. b.distance = Larger(CentreDistance(m, p.lane, p.offset, p.lane, p.offset), MinDistance)
    BY <2>1, StepsAsideCost
  <2>3. CentreDistance(m, p.lane, p.offset, p.lane, p.offset) = 0
    BY <1>1, DistancesAreNatural
  <2> QED
    BY <1>2, <2>1, <2>2, <2>3
<1>4. ASSUME NEW a \in Long PROVE a.distance = MinDistance
  BY DEF LongitudinalNeighbors, LongitudinalNeighbor
<1>5. ASSUME NEW a \in Aside, NEW b \in Aside, a.to = b.to PROVE a.distance = b.distance
  BY <1>5, StepsAsideCost
<1>6. n \in Long \cup Aside /\ k \in Long \cup Aside
  BY DEF NeighborsOf
<1> HIDE DEF Long, Aside
<1> QED
  BY <1>3, <1>4, <1>5, <1>6

-----------------------------------------------------------------------------
(* Repetition.                                                             *)

\* A set of natural numbers that is not empty has a least element.
LEMMA LeastNatural ==
  ASSUME NEW T, T \subseteq Nat, T # {}
  PROVE  \E x \in T : \A y \in T : x <= y
<1> DEFINE R == OpToRel(<, Nat)
<1>1. IsWellFoundedOn(R, Nat)
  BY NatLessThanWellFounded
<1>2. \A x, y \in Nat : x < y => <<x, y>> \in R
  BY DEF OpToRel
<1> HIDE DEF R
<1>3. PICK x \in T : \A y \in T : ~ (<<y, x>> \in R)
  BY <1>1, WFMin
<1>4. ASSUME NEW y \in T PROVE x <= y
  <2>1. x \in Nat /\ y \in Nat
    OBVIOUS
  <2>2. ~ (y < x)
    BY <1>2, <1>3, <2>1
  <2> QED
    BY <2>1, <2>2
<1> QED
  BY <1>4

\* Induction along 0 .. n.
LEMMA UpFromZero ==
  ASSUME NEW n \in Nat, NEW S, 0 \in S,
         \A k \in 0 .. n - 1 : k \in S => k + 1 \in S
  PROVE  \A k \in 0 .. n : k \in S
<1> DEFINE Bad == { k \in 0 .. n : k \notin S }
<1> SUFFICES ASSUME Bad # {} PROVE FALSE
  OBVIOUS
<1>1. PICK k \in Bad : \A j \in Bad : k <= j
  <2>1. Bad \subseteq Nat
    OBVIOUS
  <2> QED
    BY <2>1, LeastNatural
<1>2. k \in 1 .. n /\ k \notin S
  BY <1>1
<1>3. k - 1 \in 0 .. n - 1 /\ k - 1 \in S
  BY <1>1, <1>2
<1> QED
  BY <1>2, <1>3

\* P has what comes of a when F is applied, step by step.
Repeats(P, n, S, a, F) ==
  /\ P \in [0 .. n -> S]
  /\ P[0] = a
  /\ \A i \in 1 .. n : P[i] = F[i][P[i-1]]

\* What is repeated n times is a function of how often it was.
LEMMA Repeated ==
  ASSUME NEW n \in Nat, NEW S, NEW a \in S, NEW F \in [1 .. n -> [S -> S]]
  PROVE  \E P : Repeats(P, n, S, a, F)
<1> DEFINE Upto(P, k) == Repeats(P, k, S, a, F)
           Tabled == { k \in 0 .. n : \E P : Upto(P, k) }
<1>1. 0 \in Tabled
  <2> DEFINE none == [i \in 0 .. 0 |-> a]
  <2>1. none \in [0 .. 0 -> S] /\ none[0] = a
    OBVIOUS
  <2> HIDE DEF none
  <2>2. Upto(none, 0)
    BY <2>1 DEF Repeats
  <2>3. \E P : Upto(P, 0)
    BY <2>2, Zenon
  <2> HIDE DEF Upto
  <2> QED
    BY <2>3
<1>2. ASSUME NEW k \in 0 .. n - 1, k \in Tabled PROVE k + 1 \in Tabled
  <2>1. PICK P : Upto(P, k)
    BY <1>2
  <2>2. P[k] \in S /\ k + 1 \in 1 .. n
    BY <2>1 DEF Repeats
  <2>3. F[k + 1][P[k]] \in S
    BY <2>2
  <2> DEFINE longer == [i \in 0 .. k + 1 |-> IF i = k + 1 THEN F[k + 1][P[k]] ELSE P[i]]
  <2>4. longer \in [0 .. k + 1 -> S] /\ longer[0] = a
    BY <2>1, <2>3 DEF Repeats
  <2>5. ASSUME NEW i \in 1 .. k + 1 PROVE longer[i] = F[i][longer[i-1]]
    <3>1. CASE i = k + 1
      BY <3>1
    <3>2. CASE i # k + 1
      <4>1. i \in 1 .. k /\ longer[i] = P[i] /\ longer[i-1] = P[i-1]
        BY <3>2
      <4> QED
        BY <2>1, <4>1 DEF Repeats
    <3> QED
      BY <3>1, <3>2
  <2> HIDE DEF longer
  <2>6. Upto(longer, k + 1)
    BY <2>4, <2>5 DEF Repeats
  <2> QED
    BY <2>6
<1>3. n \in Tabled
  <2>1. \A k \in 0 .. n : k \in Tabled
    <3> HIDE DEF Tabled
    <3> QED
      BY <1>1, <1>2, UpFromZero
  <2> QED
    BY <2>1
<1> QED
  BY <1>3

\* The ways to p that WayTo tries, one longer than the other.
WaysTo(P, came, K, p, N) ==
  /\ P \in [0 .. N -> Seq(K) \ {<< >>}]
  /\ P[0] = <<p>>
  /\ \A n \in 1 .. N :
       P[n] = IF Head(P[n-1]) \in DOMAIN came
              THEN <<came[Head(P[n-1])]>> \o P[n-1] ELSE P[n-1]

LEMMA WayIsRepeated ==
  ASSUME NEW came, NEW K, NEW p \in K, NEW N \in Nat, N = Cardinality(DOMAIN came),
         \A o \in DOMAIN came : o \in K /\ came[o] \in K
  PROVE  \E P : WaysTo(P, came, K, p, N) /\ WayTo(came, p) = P[N]
<1> DEFINE S == Seq(K) \ {<< >>}
           Longer(way) == IF Head(way) \in DOMAIN came
                          THEN <<came[Head(way)]>> \o way ELSE way
           F == [i \in 1 .. N |-> [way \in S |-> Longer(way)]]
           Way(P) == P = [n \in 0 .. N |-> IF n = 0 THEN <<p>> ELSE Longer(P[n-1])]
<1>1. <<p>> \in S
  OBVIOUS
<1>2. ASSUME NEW way \in S PROVE Longer(way) \in S
  <2>1. CASE Head(way) \in DOMAIN came
    <3>1. came[Head(way)] \in K
      BY <2>1
    <3> DEFINE x == came[Head(way)]
    <3> HIDE DEF x
    <3>2. <<x>> \o way \in S
      BY <3>1 DEF x
    <3> QED
      BY <2>1, <3>2 DEF x
  <2>2. CASE Head(way) \notin DOMAIN came
    BY <2>2
  <2> QED
    BY <2>1, <2>2
<1> HIDE DEF S, Longer
<1>3. F \in [1 .. N -> [S -> S]]
  BY <1>2
<1>0. PICK P : Repeats(P, N, S, <<p>>, F)
  <2> HIDE DEF F
  <2> QED
    BY <1>1, <1>3, Repeated
<1>4. /\ P \in [0 .. N -> S]
      /\ P[0] = <<p>>
      /\ \A i \in 1 .. N : P[i] = F[i][P[i-1]]
  BY <1>0, Zenon DEF Repeats
<1>5. ASSUME NEW i \in 1 .. N PROVE P[i] = Longer(P[i-1])
  <2>1. P[i-1] \in S
    BY <1>4
  <2> DEFINE way == P[i-1]
  <2> HIDE DEF way
  <2>2. F[i][way] = Longer(way)
    BY <2>1 DEF way
  <2> QED
    BY <1>4, <2>2 DEF way
<1>6. Way(P)
  <2>1. ASSUME NEW i \in 0 .. N
        PROVE  P[i] = IF i = 0 THEN <<p>> ELSE Longer(P[i-1])
    <3>1. CASE i = 0
      BY <1>4, <3>1, Zenon
    <3>2. CASE i # 0
      <4>1. i \in 1 .. N
        BY <3>2
      <4> QED
        BY <1>5, <3>2, <4>1, Zenon
    <3> QED
      BY <3>1, <3>2
  <2>2. P = [i \in 0 .. N |-> P[i]]
    BY <1>4
  <2> QED
    BY <2>1, <2>2, Zenon
<1> DEFINE Q == CHOOSE R : Way(R)
<1>7. Way(Q)
  <2> HIDE DEF Way
  <2> QED
    BY <1>6
<1>8. WayTo(came, p) = Q[N]
  BY Zenon DEF WayTo, Longer
<1>9. Q = P
  <2> DEFINE Same == { i \in 0 .. N : Q[i] = P[i] }
  <2>0. Q = [n \in 0 .. N |-> IF n = 0 THEN <<p>> ELSE Longer(Q[n-1])]
    BY <1>7
  <2> HIDE DEF Q
  <2>1. 0 \in Same
    BY <1>4, <2>0
  <2>2. ASSUME NEW k \in 0 .. N - 1, k \in Same PROVE k + 1 \in Same
    <3>1. k + 1 \in 1 .. N /\ k + 1 \in 0 .. N /\ (k + 1) - 1 = k /\ k + 1 # 0
      OBVIOUS
    <3>2. Q[k + 1] = Longer(Q[k])
      BY <2>0, <3>1
    <3>3. P[k + 1] = Longer(P[k])
      BY <1>5, <3>1
    <3> QED
      BY <2>2, <3>1, <3>2, <3>3
  <2>3. \A i \in 0 .. N : Q[i] = P[i]
    <3>1. \A i \in 0 .. N : i \in Same
      <4> HIDE DEF Same
      <4> QED
        BY <2>1, <2>2, UpFromZero
    <3> QED
      BY <3>1
  <2>4. Q = [i \in 0 .. N |-> Q[i]] /\ P = [i \in 0 .. N |-> P[i]]
    BY <1>4, <2>0
  <2> QED
    BY <2>3, <2>4
<1>10. WayTo(came, p) = P[N]
  BY <1>8, <1>9
<1>11. WaysTo(P, came, K, p, N)
  BY <1>4, <1>5 DEF Longer, S, WaysTo
<1> QED
  BY <1>10, <1>11

\* A way by which a table of predecessors leads to a point.
LeadsTo(came, K, p, w) ==
  /\ w \in Seq(K) /\ Len(w) >= 1
  /\ w[Len(w)] = p
  /\ \A i \in 1 .. Len(w) - 1 : w[i+1] \in DOMAIN came /\ came[w[i+1]] = w[i]

LEMMA InFront ==
  ASSUME NEW K, NEW x \in K, NEW w \in Seq(K)
  PROVE  /\ <<x>> \o w \in Seq(K)
         /\ Len(<<x>> \o w) = Len(w) + 1
         /\ (<<x>> \o w)[1] = x
         /\ \A i \in 1 .. Len(w) : (<<x>> \o w)[i + 1] = w[i]
OBVIOUS

LEMMA LongerLeads ==
  ASSUME NEW came, NEW K, NEW p, NEW w, LeadsTo(came, K, p, w),
         w[1] \in DOMAIN came, came[w[1]] \in K
  PROVE  LeadsTo(came, K, p, <<came[w[1]]>> \o w)
<1> DEFINE x == came[w[1]]
           v == <<x>> \o w
<1>1. w \in Seq(K) /\ Len(w) \in Nat /\ Len(w) >= 1 /\ w[Len(w)] = p
  BY LenProperties DEF LeadsTo
<1>2. /\ v \in Seq(K) /\ Len(v) = Len(w) + 1 /\ v[1] = x
      /\ \A i \in 1 .. Len(w) : v[i + 1] = w[i]
  <2>1. x \in K
    OBVIOUS
  <2> HIDE DEF x
  <2> QED
    BY <1>1, <2>1, InFront
<1> HIDE DEF v
<1>3. v[Len(v)] = p /\ Len(v) >= 1
  BY <1>1, <1>2
<1>4. ASSUME NEW i \in 1 .. Len(v) - 1
      PROVE  v[i+1] \in DOMAIN came /\ came[v[i+1]] = v[i]
  <2>1. i \in 1 .. Len(w) /\ v[i+1] = w[i]
    BY <1>1, <1>2
  <2>2. CASE i = 1
    BY <1>2, <2>1, <2>2
  <2>3. CASE i # 1
    <3> DEFINE j == i - 1
    <3>1. j \in 1 .. Len(w) - 1 /\ j \in 1 .. Len(w) /\ j + 1 = i
      BY <1>1, <2>1, <2>3
    <3> HIDE DEF j
    <3>2. v[i] = w[j] /\ w[i] \in DOMAIN came /\ came[w[i]] = w[j]
      BY <1>2, <3>1 DEF LeadsTo
    <3> QED
      BY <2>1, <3>2
  <2> QED
    BY <2>2, <2>3
<1>5. LeadsTo(came, K, p, v)
  BY <1>2, <1>3, <1>4 DEF LeadsTo
<1> QED
  BY <1>5 DEF v

\* Where each point lies farther than the one it was entered from, a way does
\* not come back.
LEMMA WaysDoNotTurn ==
  ASSUME NEW came, NEW K, NEW p, NEW w, LeadsTo(came, K, p, w),
         NEW g \in [K -> Nat], \A o \in DOMAIN came : g[came[o]] < g[o],
         NEW i \in 1 .. Len(w), NEW j \in 1 .. Len(w), i < j
  PROVE  w[i] # w[j]
<1> DEFINE n == Len(w) - i
           S == { d \in 0 .. n : d >= 1 => g[w[i]] < g[w[i + d]] }
<1>1. w \in Seq(K) /\ Len(w) \in Nat
  BY LenProperties DEF LeadsTo
<1>2. n \in Nat /\ 0 \in S
  BY <1>1
<1>3. ASSUME NEW d \in 0 .. n - 1, d \in S PROVE d + 1 \in S
  <2> DEFINE k == i + d
  <2>1. k \in 1 .. Len(w) - 1 /\ k \in 1 .. Len(w) /\ k + 1 \in 1 .. Len(w) /\ i + (d + 1) = k + 1
        /\ d + 1 \in 0 .. n
    BY <1>1
  <2>2. w[i] \in K /\ w[k] \in K /\ w[k + 1] \in K
    BY <1>1, <2>1, ElementOfSeq
  <2>3. g[w[i]] \in Nat /\ g[w[k]] \in Nat /\ g[w[k + 1]] \in Nat
    BY <2>2
  <2>4. g[w[k]] < g[w[k + 1]]
    BY <2>1 DEF LeadsTo
  <2>5. g[w[i]] <= g[w[k]]
    <3>1. CASE d = 0
      BY <2>3, <3>1
    <3>2. d >= 1 => g[w[i]] < g[w[k]]
      BY <1>3, Zenon
    <3>3. CASE d >= 1
      <4> HIDE DEF k
      <4> QED
        BY <2>3, <3>2, <3>3
    <3>4. d = 0 \/ d >= 1
      BY <1>1
    <3> QED
      BY <3>1, <3>3, <3>4
  <2> HIDE DEF k
  <2>6. g[w[i]] < g[w[i + (d + 1)]]
    BY <2>1, <2>3, <2>4, <2>5
  <2> QED
    BY <2>1, <2>6
<1>4. \A d \in 0 .. n : d \in S
  <2> HIDE DEF S, n
  <2> QED
    BY <1>2, <1>3, UpFromZero
<1>5. j - i \in 0 .. n /\ j - i >= 1 /\ i + (j - i) = j
  BY <1>1
<1>6. g[w[i]] < g[w[j]]
  BY <1>4, <1>5
<1>7. w[i] \in K
  BY <1>1, ElementOfSeq
<1> QED
  BY <1>6, <1>7

\* reconstructPath comes to a point that was not entered from another.
LEMMA WayBack ==
  ASSUME NEW came, NEW K, NEW p \in K, IsFiniteSet(DOMAIN came), NEW g \in [K -> Nat],
         \A o \in DOMAIN came : o \in K /\ came[o] \in K /\ g[came[o]] < g[o]
  PROVE  LeadsTo(came, K, p, WayTo(came, p)) /\ WayTo(came, p)[1] \notin DOMAIN came
<1> DEFINE N == Cardinality(DOMAIN came)
<1>1. N \in Nat
  BY FS_CardinalityType
<1>0. PICK P : WaysTo(P, came, K, p, N) /\ WayTo(came, p) = P[N]
  BY <1>1, WayIsRepeated
<1>2. /\ P \in [0 .. N -> Seq(K) \ {<< >>}]
      /\ P[0] = <<p>>
      /\ \A n \in 1 .. N :
           P[n] = IF Head(P[n-1]) \in DOMAIN came
                  THEN <<came[Head(P[n-1])]>> \o P[n-1] ELSE P[n-1]
      /\ WayTo(came, p) = P[N]
  BY <1>0, Zenon DEF WaysTo
<1> DEFINE Fine(n) == /\ LeadsTo(came, K, p, P[n])
                      /\ P[n][1] \in DOMAIN came => Len(P[n]) = n + 1
           S == { n \in 0 .. N : Fine(n) }
<1> HIDE DEF N
<1>3. 0 \in S
  <2> DEFINE w == <<p>>
  <2>1. w \in Seq(K) /\ Len(w) = 1 /\ w[1] = p
    OBVIOUS
  <2> HIDE DEF w
  <2>2. LeadsTo(came, K, p, w)
    BY <2>1 DEF LeadsTo
  <2>3. P[0] = w
    BY <1>2 DEF w
  <2>4. Fine(0)
    BY <2>1, <2>2, <2>3
  <2> QED
    BY <1>1, <2>4
<1>4. ASSUME NEW n \in 0 .. N - 1, n \in S PROVE n + 1 \in S
  <2> DEFINE w == P[n]
  <2>1. n + 1 \in 1 .. N /\ n + 1 \in 0 .. N /\ (n + 1) - 1 = n /\ n \in 0 .. N
    BY <1>1
  <2>2. P[n + 1] = IF Head(w) \in DOMAIN came THEN <<came[Head(w)]>> \o w ELSE w
    <3>1. P[n + 1] = IF Head(P[(n + 1) - 1]) \in DOMAIN came
                     THEN <<came[Head(P[(n + 1) - 1])]>> \o P[(n + 1) - 1] ELSE P[(n + 1) - 1]
      BY <1>2, <2>1
    <3> QED
      BY <2>1, <3>1
  <2>3. LeadsTo(came, K, p, w) /\ (w[1] \in DOMAIN came => Len(w) = n + 1)
    BY <1>4
  <2>4. w \in Seq(K) /\ Len(w) \in Nat /\ Len(w) >= 1
    BY <2>3, LenProperties DEF LeadsTo
  <2>5. Head(w) = w[1]
    BY <2>4
  <2> HIDE DEF w
  <2>6. CASE w[1] \in DOMAIN came
    <3> DEFINE x == came[w[1]]
               v == <<x>> \o w
    <3>1. x \in K /\ P[n + 1] = v
      BY <2>2, <2>5, <2>6
    <3>2. LeadsTo(came, K, p, v)
      BY <2>3, <2>6, <3>1, LongerLeads
    <3>3. Len(v) = Len(w) + 1
      <4> HIDE DEF x
      <4> QED
        BY <2>4, <3>1, InFront
    <3> HIDE DEF v
    <3>4. Fine(n + 1)
      BY <2>3, <2>6, <3>1, <3>2, <3>3
    <3> QED
      BY <2>1, <3>4
  <2>7. CASE w[1] \notin DOMAIN came
    <3>1. P[n + 1] = w
      BY <2>2, <2>5, <2>7
    <3>2. Fine(n + 1)
      BY <2>3, <2>7, <3>1
    <3> QED
      BY <2>1, <3>2
  <2> QED
    BY <2>6, <2>7
<1>5. N \in S
  <2>1. \A n \in 0 .. N : n \in S
    <3> HIDE DEF S
    <3> QED
      BY <1>1, <1>3, <1>4, UpFromZero
  <2> QED
    BY <1>1, <2>1
<1> DEFINE w == WayTo(came, p)
<1>6. LeadsTo(came, K, p, w) /\ (w[1] \in DOMAIN came => Len(w) = N + 1)
  BY <1>2, <1>5
<1> HIDE DEF w
<1>7. ASSUME w[1] \in DOMAIN came PROVE FALSE
  <2> DEFINE f == [i \in 1 .. N + 1 |-> w[i]]
  <2>1. Len(w) = N + 1 /\ w \in Seq(K)
    BY <1>6, <1>7 DEF LeadsTo
  <2>2. ASSUME NEW i \in 1 .. N + 1 PROVE w[i] \in DOMAIN came
    <3>1. CASE i = 1
      BY <1>7, <3>1
    <3>2. CASE i # 1
      <4> DEFINE j == i - 1
      <4>1. j \in 1 .. Len(w) - 1 /\ j + 1 = i
        BY <1>1, <2>1, <3>2
      <4> HIDE DEF j
      <4> QED
        BY <1>6, <4>1 DEF LeadsTo
    <3> QED
      BY <3>1, <3>2
  <2>3. ASSUME NEW i \in 1 .. N + 1, NEW j \in 1 .. N + 1, w[i] = w[j] PROVE i = j
    <3>1. i \in 1 .. Len(w) /\ j \in 1 .. Len(w)
      BY <2>1
    <3>2. ~ (i < j)
      BY <1>6, <2>3, <3>1, WaysDoNotTurn
    <3>3. ~ (j < i)
      BY <1>6, <2>3, <3>1, WaysDoNotTurn
    <3> QED
      BY <1>1, <3>2, <3>3
  <2>4. f \in Injection(1 .. N + 1, DOMAIN came)
    <3>1. f \in [1 .. N + 1 -> DOMAIN came]
      BY <2>2
    <3> QED
      BY <2>3, <3>1 DEF Injection, IsInjective
  <2>5. Cardinality(1 .. N + 1) <= Cardinality(DOMAIN came)
    <3> HIDE DEF f
    <3> QED
      BY <2>4, FS_Injection
  <2>6. Cardinality(1 .. N + 1) = N + 1
    BY <1>1, FS_Interval
  <2> QED
    BY <1>1, <2>5, <2>6 DEF N
<1> QED
  BY <1>6, <1>7 DEF w

\* c grows along a way by what each step costs.
GrowsAlong(c, m, q, points) ==
  \A i \in 1 .. Len(points) - 1 :
    c[i+1] = c[i] + (CHOOSE n \in StepsTo(m, q, points[i], points[i+1]) : TRUE).distance

\* What grows so is the distance along the way.
LEMMA DistanceIsCost ==
  ASSUME NEW m, NEW q, NEW points, Len(points) \in Nat, Len(points) >= 1,
         NEW c, c[1] = 0, GrowsAlong(c, m, q, points)
  PROVE  DistanceAlong(m, q, points) = c[Len(points)]
<1> DEFINE n == Len(points) - 1
           Step(i) == (CHOOSE k \in StepsTo(m, q, points[i], points[i+1]) : TRUE).distance
           Sum(P) == P = [i \in 0 .. n |-> IF i = 0 THEN 0 ELSE P[i-1] + Step(i)]
           d == [i \in 0 .. n |-> c[i+1]]
<1>1. n \in Nat /\ n + 1 = Len(points)
  OBVIOUS
<1>2. \A i \in 1 .. n : c[i+1] = c[i] + Step(i)
  BY DEF GrowsAlong
<1>3. DistanceAlong(m, q, points) = (CHOOSE P : Sum(P))[n]
  BY Zenon DEF DistanceAlong
<1> HIDE DEF n, Step
<1>4. Sum(d)
  <2>1. ASSUME NEW i \in 0 .. n PROVE d[i] = IF i = 0 THEN 0 ELSE d[i-1] + Step(i)
    <3>1. CASE i = 0
      BY <3>1
    <3>2. CASE i # 0
      <4>1. i \in 1 .. n /\ i - 1 \in 0 .. n /\ (i - 1) + 1 = i
        BY <1>1, <3>2
      <4>2. d[i] = c[i+1] /\ d[i-1] = c[i]
        BY <4>1
      <4>3. c[i+1] = c[i] + Step(i)
        BY <1>2, <4>1
      <4> HIDE DEF d
      <4>4. d[i] = d[i-1] + Step(i)
        BY <4>2, <4>3, Zenon
      <4> QED
        BY <3>2, <4>4, Zenon
    <3> QED
      BY <3>1, <3>2
  <2>2. d = [i \in 0 .. n |-> d[i]]
    OBVIOUS
  <2> HIDE DEF d
  <2> QED
    BY <2>1, <2>2, Zenon
<1> DEFINE Q == CHOOSE P : Sum(P)
<1>5. Sum(Q)
  <2> HIDE DEF Sum
  <2> QED
    BY <1>4
<1> HIDE DEF Q
<1>6. Q[n] = d[n]
  <2> DEFINE Same == { i \in 0 .. n : Q[i] = d[i] }
  <2>1. 0 \in Same
    <3>1. 0 \in 0 .. n
      BY <1>1
    <3>2. Q[0] = 0
      BY <1>5, <3>1
    <3>3. d[0] = 0
      BY <3>1
    <3> QED
      BY <3>1, <3>2, <3>3
  <2> HIDE DEF d
  <2>2. ASSUME NEW k \in 0 .. n - 1, k \in Same PROVE k + 1 \in Same
    <3> DEFINE j == k + 1
    <3>1. j \in 0 .. n /\ j - 1 = k /\ j # 0
      BY <1>1
    <3> HIDE DEF j
    <3>2. Q[j] = Q[j-1] + Step(j)
      BY <1>5, <3>1
    <3>3. d[j] = d[j-1] + Step(j)
      BY <1>4, <3>1
    <3>4. Q[k] = d[k]
      BY <2>2
    <3>5. Q[j] = d[j]
      BY <3>1, <3>2, <3>3, <3>4, Zenon
    <3> QED
      BY <3>1, <3>5 DEF j
  <2>3. \A i \in 0 .. n : i \in Same
    <3> HIDE DEF Same
    <3> QED
      BY <1>1, <2>1, <2>2, UpFromZero
  <2> QED
    BY <1>1, <2>3
<1>7. d[n] = c[Len(points)]
  BY <1>1
<1> QED
  BY <1>3, <1>6, <1>7, Zenon DEF Q

-----------------------------------------------------------------------------
(* What the ways cost.                                                     *)

\* There is a cost for every known point: 0 where the search started, for an
\* open point the one it is kept with, and more by a step than at the point
\* it was entered from.
PricedBy(g) ==
  /\ g \in [closed \cup DOMAIN open -> Nat]
  /\ \A o \in DOMAIN open : g[o] = open[o].distance
  /\ \A s \in StartPoints(query) : s \in closed \cup DOMAIN open /\ g[s] = 0
  /\ \A o \in DOMAIN cameFrom :
       /\ o \in closed \cup DOMAIN open
       /\ o \notin StartPoints(query)
       /\ \E n \in StepsTo(map, query, cameFrom[o], o) : g[o] = g[cameFrom[o]] + n.distance

WaysInv ==
  /\ map.at \in [map.lanes -> [Offsets -> Int \X Int]]
  /\ outcome = "searching" =>
       /\ \E g : PricedBy(g)
       /\ \A p \in closed : ~ IsDest(query, p)

\* A step that has led to the destination asked for leads to the one reached.
LEMMA StepsToReached ==
  ASSUME NEW m, NEW q, NEW p, NEW o, NEW dest,
         {"start", "dest", "ignoreDirection", "relevant"} \subseteq DOMAIN q,
         o = q.dest => dest = q.dest
  PROVE  StepsTo(m, q, p, o) \subseteq StepsTo(m, [q EXCEPT !.dest = dest], p, o)
<1> DEFINE r == [q EXCEPT !.dest = dest]
<1>1. /\ r.start = q.start /\ r.ignoreDirection = q.ignoreDirection /\ r.relevant = q.relevant
      /\ r.dest = dest
  OBVIOUS
<1> HIDE DEF r
<1>2. /\ IsPositiveMovement(m, r, p) = IsPositiveMovement(m, q, p)
      /\ IsNegativeMovement(m, r, p) = IsNegativeMovement(m, q, p)
  BY <1>1 DEF IsPositiveMovement, IsNegativeMovement
<1>3. LongitudinalNeighbors(m, r, p) = LongitudinalNeighbors(m, q, p)
  BY <1>1, <1>2 DEF LongitudinalNeighbors, LongitudinalContacts
<1>4. LateralNeighbors(m, r, p) = LateralNeighbors(m, q, p)
  BY <1>1 DEF LateralNeighbors
<1>5. LaneEndsAhead(m, r, p) = LaneEndsAhead(m, q, p)
  BY <1>2 DEF LaneEndsAhead
<1>6. ASSUME NEW n \in SameLaneNeighbors(m, q, p), n.to = o
      PROVE  n \in SameLaneNeighbors(m, r, p)
  <2>1. CASE n \in {Neighbor(m, p, At(p, e)) : e \in LaneEndsAhead(m, q, p)}
    BY <1>5, <2>1 DEF SameLaneNeighbors
  <2>2. CASE n = Neighbor(m, p, q.dest) /\ ReachesDest(m, q, p)
    <3>1. dest = q.dest
      BY <1>6, <2>2 DEF Neighbor
    <3>2. ReachesDest(m, r, p) /\ r.dest = q.dest
      BY <1>1, <1>2, <2>2, <3>1 DEF ReachesDest
    <3> QED
      BY <2>2, <3>2 DEF SameLaneNeighbors
  <2> QED
    BY <1>6, <2>1, <2>2 DEF SameLaneNeighbors
<1>7. StepsTo(m, q, p, o) \subseteq StepsTo(m, r, p, o)
  BY <1>3, <1>4, <1>6 DEF StepsTo
<1> QED
  BY <1>7 DEF r

\* Finitely many points lead on to others.
LEMMA FewPredecessors ==
  ASSUME PlanningInv, NEW g, PricedBy(g)
  PROVE  /\ IsFiniteSet(DOMAIN cameFrom)
         /\ \A o \in DOMAIN cameFrom :
              /\ o \in closed \cup DOMAIN open
              /\ cameFrom[o] \in closed
<1>1. IsFiniteSet(RoutingPoints(map)) /\ DOMAIN cameFrom \subseteq RoutingPoints(map)
  BY FinitelyManyPoints DEF PlanningInv, TypeOK, PricedBy
<1>2. IsFiniteSet(DOMAIN cameFrom)
  BY <1>1, FS_Subset
<1> QED
  BY <1>2 DEF PlanningInv, EveryPointWasEntered, PricedBy

\* A way that costs g at each of its points, and leads to the point that takes
\* the place of the destination.
CostsAlong(g, p, w) ==
  /\ w \in Seq(closed \cup DOMAIN open) /\ Len(w) \in Nat /\ Len(w) >= 1 /\ w[Len(w)] = p
  /\ \A i \in 1 .. Len(w) : w[i] \in closed \cup DOMAIN open
  /\ w[1] \in StartPoints(query) /\ g[w[1]] = 0
  /\ \A i \in 1 .. Len(w) - 1 :
       /\ w[i+1] \in DOMAIN cameFrom /\ cameFrom[w[i+1]] = w[i] /\ w[i] \in closed
       /\ \E n \in StepsTo(map, [query EXCEPT !.dest = p], w[i], w[i+1]) :
            g[w[i+1]] = g[w[i]] + n.distance

LEMMA ReachedWay ==
  ASSUME PlanningInv, WaysInv, outcome = "searching", NEW p \in DOMAIN open, IsDest(query, p),
         NEW g, PricedBy(g)
  PROVE  /\ CostsAlong(g, p, WayTo(cameFrom, p))
         /\ \A i, j \in 1 .. Len(WayTo(cameFrom, p)) :
              i < j => WayTo(cameFrom, p)[i] # WayTo(cameFrom, p)[j]
<1> DEFINE K == closed \cup DOMAIN open
           w == WayTo(cameFrom, p)
           q == [query EXCEPT !.dest = p]
<1>2. /\ K \subseteq RoutingPoints(map) /\ query.dest \in RoutingPoints(map)
      /\ p \in RoutingPoints(map)
      /\ {"start", "dest", "ignoreDirection", "relevant"} \subseteq DOMAIN query
      /\ map.at \in [map.lanes -> [Offsets -> Int \X Int]]
  BY DEF PlanningInv, TypeOK, WaysInv
<1>3. q.dest = p /\ q.start = query.start
  BY <1>2
<1>4. PricedBy(g)
  OBVIOUS
<1>5. g \in [K -> Nat] /\ p \in K
  BY DEF PricedBy
<1>6. ASSUME NEW o \in DOMAIN cameFrom
      PROVE  /\ o \in K /\ cameFrom[o] \in K /\ cameFrom[o] \in closed
             /\ g[cameFrom[o]] < g[o]
  <2>1. /\ o \in K /\ cameFrom[o] \in closed /\ cameFrom[o] \in K
    BY <1>4, FewPredecessors
  <2>2. PICK n \in StepsTo(map, query, cameFrom[o], o) : g[o] = g[cameFrom[o]] + n.distance
    BY <1>4 DEF PricedBy
  <2>3. n.distance \in Nat /\ n.distance >= 1
    <3>1. n \in NeighborsOf(map, query, cameFrom[o])
      BY DEF NeighborsOf, StepsTo
    <3>2. cameFrom[o] \in RoutingPoints(map)
      BY <1>2, <2>1
    <3> QED
      BY <1>2, <3>1, <3>2, StepsCost
  <2>4. g[o] \in Nat /\ g[cameFrom[o]] \in Nat
    BY <1>5, <2>1
  <2>5. g[cameFrom[o]] < g[o]
    BY <2>2, <2>3, <2>4
  <2> QED
    BY <2>1, <2>5
<1>7. LeadsTo(cameFrom, K, p, w) /\ w[1] \notin DOMAIN cameFrom
  <2>1. IsFiniteSet(DOMAIN cameFrom)
    BY <1>4, FewPredecessors
  <2> HIDE DEF K
  <2> QED
    BY <1>5, <1>6, <2>1, WayBack
<1> HIDE DEF w
<1>8. /\ w \in Seq(K) /\ Len(w) \in Nat /\ Len(w) >= 1 /\ w[Len(w)] = p
      /\ \A i \in 1 .. Len(w) : w[i] \in K
  <2>1. w \in Seq(K) /\ Len(w) >= 1 /\ w[Len(w)] = p
    BY <1>7 DEF LeadsTo
  <2> HIDE DEF K
  <2> QED
    BY <2>1, LenProperties, ElementOfSeq
<1>9. w[1] \in StartPoints(query) /\ g[w[1]] = 0
  <2>1. w[1] \in K
    BY <1>8
  <2>2. w[1] \in StartPoints(query)
    BY <1>7, <2>1 DEF PlanningInv, EveryPointWasEntered
  <2>4. g[w[1]] = 0
    BY <1>4, <2>2 DEF PricedBy
  <2> QED
    BY <2>2, <2>4
<1>10. ASSUME NEW i \in 1 .. Len(w) - 1
       PROVE  \E n \in StepsTo(map, q, w[i], w[i+1]) : g[w[i+1]] = g[w[i]] + n.distance
  <2>1. w[i+1] \in DOMAIN cameFrom /\ cameFrom[w[i+1]] = w[i]
    BY <1>7 DEF LeadsTo
  <2>2. PICK n \in StepsTo(map, query, w[i], w[i+1]) : g[w[i+1]] = g[w[i]] + n.distance
    BY <1>4, <2>1 DEF PricedBy
  <2>3. w[i+1] = query.dest => p = query.dest
    <3>1. CASE i + 1 = Len(w)
      BY <1>8, <3>1
    <3>2. CASE i + 1 # Len(w)
      <4> DEFINE j == i + 1
      <4>1. j \in 1 .. Len(w) - 1 /\ j = i + 1
        BY <1>8, <3>2
      <4> HIDE DEF j
      <4>2. w[j+1] \in DOMAIN cameFrom /\ cameFrom[w[j+1]] = w[j]
        BY <1>7, <4>1 DEF LeadsTo
      <4>3. w[j] \in closed
        BY <1>6, <4>2
      <4>4. ~ IsDest(query, w[j])
        BY <4>3 DEF WaysInv
      <4>5. IsDest(query, query.dest)
        BY DEF IsDest
      <4> QED
        BY <4>1, <4>4, <4>5
    <3> QED
      BY <3>1, <3>2
  <2>4. n \in StepsTo(map, q, w[i], w[i+1])
    BY <1>2, <2>3, StepsToReached
  <2> QED
    BY <2>2, <2>4
<1>11. ASSUME NEW i \in 1 .. Len(w) - 1
       PROVE  w[i+1] \in DOMAIN cameFrom /\ cameFrom[w[i+1]] = w[i] /\ w[i] \in closed
  <2>1. w[i+1] \in DOMAIN cameFrom /\ cameFrom[w[i+1]] = w[i]
    BY <1>7 DEF LeadsTo
  <2> QED
    BY <1>6, <2>1
<1>12. CostsAlong(g, p, w)
  BY <1>8, <1>9, <1>10, <1>11 DEF CostsAlong
<1>13. \A i, j \in 1 .. Len(w) : i < j => w[i] # w[j]
  <2> HIDE DEF K
  <2> QED
    BY <1>5, <1>6, <1>7, WaysDoNotTurn
<1> QED
  BY <1>12, <1>13 DEF w

LEMMA ReachIsOneWay ==
  ASSUME PlanningInv, WaysInv, NEW p \in DOMAIN open, Reach(p), UNCHANGED planVars
  PROVE  RawRouteIsOneWay'
<1> DEFINE K == closed \cup DOMAIN open
           w == WayTo(cameFrom, p)
           q == [query EXCEPT !.dest = p]
<1>1. /\ outcome = "searching" /\ IsDest(query, p)
      /\ rawRoute'.points = w /\ rawRoute'.distance = open[p].distance
      /\ query' = q /\ map' = map
  BY DEF Reach
<1>2. /\ K \subseteq RoutingPoints(map) /\ p \in RoutingPoints(map)
      /\ {"start", "dest", "ignoreDirection", "relevant"} \subseteq DOMAIN query
      /\ map.at \in [map.lanes -> [Offsets -> Int \X Int]]
  BY DEF PlanningInv, TypeOK, WaysInv
<1>3. q.dest = p /\ q.start = query.start
  BY <1>2
<1>4. PICK g : PricedBy(g)
  BY <1>1 DEF WaysInv
<1>5. g[p] = open[p].distance
  BY <1>4 DEF PricedBy
<1>7. CostsAlong(g, p, w)
  BY <1>1, <1>4, ReachedWay
<1> HIDE DEF w
<1>8. /\ Len(w) \in Nat /\ Len(w) >= 1 /\ w[Len(w)] = p
      /\ \A i \in 1 .. Len(w) : w[i] \in K
  BY <1>7 DEF CostsAlong
<1>9. w[1] \in StartPoints(q) /\ g[w[1]] = 0
  <2>1. StartPoints(q) = StartPoints(query)
    <3> HIDE DEF q
    <3> QED
      BY <1>3 DEF StartPoints
  <2> QED
    BY <1>7, <2>1 DEF CostsAlong
<1>10. ASSUME NEW i \in 1 .. Len(w) - 1
       PROVE  \E n \in StepsTo(map, q, w[i], w[i+1]) : g[w[i+1]] = g[w[i]] + n.distance
  BY <1>7, Zenon DEF CostsAlong
<1>11. DistanceAlong(map, q, w) = g[w[Len(w)]]
  <2> DEFINE c == [i \in 1 .. Len(w) |-> g[w[i]]]
  <2>1. ASSUME NEW i \in 1 .. Len(w) - 1
        PROVE  c[i+1] = c[i] + (CHOOSE n \in StepsTo(map, q, w[i], w[i+1]) : TRUE).distance
    <3>1. PICK n \in StepsTo(map, q, w[i], w[i+1]) : g[w[i+1]] = g[w[i]] + n.distance
      BY <1>10
    <3> DEFINE k == CHOOSE k \in StepsTo(map, q, w[i], w[i+1]) : TRUE
    <3>2. k \in StepsTo(map, q, w[i], w[i+1])
      BY <3>1
    <3> HIDE DEF k
    <3>3. /\ n \in NeighborsOf(map, q, w[i]) /\ k \in NeighborsOf(map, q, w[i])
          /\ n.to = k.to
      BY <3>2 DEF StepsTo, NeighborsOf
    <3>4. w[i] \in RoutingPoints(map) /\ q.dest \in RoutingPoints(map)
      <4>1. i \in 1 .. Len(w)
        BY <1>8
      <4> QED
        BY <1>2, <1>3, <1>8, <4>1
    <3> HIDE DEF q
    <3>5. n.distance = k.distance
      BY <1>2, <3>3, <3>4, StepsCostTheSame
    <3>6. i \in 1 .. Len(w) /\ i + 1 \in 1 .. Len(w)
      BY <1>8
    <3>7. c[i+1] = g[w[i+1]] /\ c[i] = g[w[i]]
      BY <3>6
    <3> HIDE DEF c
    <3>8. c[i+1] = c[i] + k.distance
      BY <3>1, <3>5, <3>7, Zenon
    <3> QED
      BY <3>8 DEF k
  <2>2. c[1] = 0 /\ c[Len(w)] = g[w[Len(w)]]
    BY <1>8, <1>9
  <2> HIDE DEF c, q
  <2>3. GrowsAlong(c, map, q, w)
    BY <2>1 DEF GrowsAlong
  <2>4. DistanceAlong(map, q, w) = c[Len(w)]
    BY <1>8, <2>2, <2>3, DistanceIsCost
  <2> QED
    BY <2>2, <2>4
<1>12. \A i \in 1 .. Len(w) - 1 : StepsTo(map, q, w[i], w[i+1]) # {}
  BY <1>10
<1> HIDE DEF q
<1> QED
  BY <1>1, <1>5, <1>8, <1>9, <1>11, <1>12 DEF RawRouteIsOneWay

-----------------------------------------------------------------------------
(* Every step keeps the costs.                                             *)

LEMMA SearchStartsPriced ==
  ASSUME NEW m, NEW q, map' = m, query' = q, open' = StartOpen(m, q),
         closed' = {}, DOMAIN cameFrom' = {}
  PROVE  (\E g : PricedBy(g))'
<1> DEFINE g == [o \in StartPoints(q) |-> 0]
<1>1. /\ DOMAIN open' = StartPoints(q)
      /\ \A o \in StartPoints(q) : open'[o].distance = 0
  BY DEF StartOpen
<1>2. g \in [StartPoints(q) -> Nat] /\ \A o \in StartPoints(q) : g[o] = 0
  OBVIOUS
<1> HIDE DEF g
<1>3. PricedBy(g)'
  BY <1>1, <1>2 DEF PricedBy
<1> QED
  BY <1>3

\* The points whose costs an expansion renews.
Renewed(p) == {n.to : n \in Improved(map, query, open, closed, p)}

LEMMA ExpandRenewsCosts ==
  ASSUME PlanningInv, WaysInv, NEW g, PricedBy(g), NEW p \in DOMAIN open, Expand(p)
  PROVE  \E h : /\ PricedBy(h)'
               /\ \A o \in closed' \cup DOMAIN open' :
                    IF o \in Renewed(p)
                    THEN \E b \in Improved(map, query, open, closed, p) :
                           b.to = o /\ h[o] = g[p] + b.distance
                    ELSE h[o] = g[o]
<1> DEFINE Better == Improved(map, query, open, closed, p)
           New == {n.to : n \in Better}
           Best(o) == CHOOSE b \in Better : b.to = o
           K == closed \cup DOMAIN open
<1>1. /\ outcome = "searching" /\ outcome' = "searching"
      /\ closed' = closed \cup {p} /\ ~ IsDest(query, p)
      /\ UNCHANGED <<map, query>>
      /\ open' = AddNeighbors(map, query, open, closed, p)
  BY DEF Expand
<1>2. /\ DOMAIN cameFrom' = DOMAIN cameFrom \cup New
      /\ \A o \in New : cameFrom'[o] = p
      /\ \A o \in DOMAIN cameFrom \ New : cameFrom'[o] = cameFrom[o]
  BY DEF Expand
<1>3. /\ p \in RoutingPoints(map) /\ query.dest \in RoutingPoints(map)
      /\ K \subseteq RoutingPoints(map) /\ closed \cap DOMAIN open = {}
      /\ map.at \in [map.lanes -> [Offsets -> Int \X Int]]
  BY DEF PlanningInv, TypeOK, WaysInv
<1>5. g \in [K -> Nat] /\ p \in K /\ g[p] = open[p].distance
  BY DEF PricedBy
<1>6. ASSUME NEW n \in Better
      PROVE  /\ n.to \notin closed /\ n.to # p
             /\ n.distance \in Nat /\ n.distance >= 1
             /\ n \in StepsTo(map, query, p, n.to)
             /\ n.to \in DOMAIN open => g[p] + n.distance < g[n.to]
  <2>1. n.to \notin closed /\ n.to # p
    BY DEF Improved
  <2>2. n \in NeighborsOf(map, query, p)
    BY DEF Improved, ExpandNeighbors, NeighborsOf
  <2>3. n.distance \in Nat /\ n.distance >= 1
    BY <1>3, <2>2, StepsCost
  <2>4. n \in StepsTo(map, query, p, n.to)
    BY <2>2 DEF StepsTo, NeighborsOf
  <2>5. n.to \in DOMAIN open => g[p] + n.distance < g[n.to]
    <3>1. n.to \in DOMAIN open => open[p].distance + n.distance < open[n.to].distance
      BY DEF Improved
    <3> QED
      BY <1>5, <3>1 DEF PricedBy
  <2> QED
    BY <2>1, <2>3, <2>4, <2>5
<1>7. ASSUME NEW o \in New PROVE Best(o) \in Better /\ Best(o).to = o
  OBVIOUS
<1>8. DOMAIN open' = (DOMAIN open \ {p}) \cup New
  BY <1>1 DEF AddNeighbors
<1>9. ASSUME NEW o \in DOMAIN open'
      PROVE  open'[o].distance = IF o \in New THEN open[p].distance + Best(o).distance
                                 ELSE open[o].distance
  <2>1. open'[o] = IF o \notin New THEN open[o]
                   ELSE LET n == Best(o)
                            c == open[p].distance + n.distance
                        IN  [distance |-> c,
                             duration |-> IF o \in DOMAIN open THEN open[o].duration
                                          ELSE open[p].duration + n.duration,
                             estimate |-> c + CostEstimate(map, query, o)]
    BY <1>1, <1>8 DEF AddNeighbors
  <2> HIDE DEF New, Best
  <2> QED
    BY <2>1
<1> HIDE DEF Best, Better
<1>10. \A o \in New : /\ o \notin closed /\ o # p
                      /\ Best(o).distance \in Nat /\ Best(o).distance >= 1
                      /\ Best(o) \in StepsTo(map, query, p, o)
                      /\ o \in DOMAIN open => g[p] + Best(o).distance < g[o]
  BY <1>6, <1>7
<1> HIDE DEF New
<1>11. PICK h : /\ h \in [closed' \cup DOMAIN open' -> Nat]
                /\ \A o \in closed' \cup DOMAIN open' :
                     h[o] = IF o \in New THEN g[p] + Best(o).distance ELSE g[o]
  <2> DEFINE f == [o \in closed' \cup DOMAIN open' |->
                     IF o \in New THEN g[p] + Best(o).distance ELSE g[o]]
  <2>1. ASSUME NEW o \in closed' \cup DOMAIN open'
        PROVE  (IF o \in New THEN g[p] + Best(o).distance ELSE g[o]) \in Nat
    <3>1. o \in New \/ o \in K
      BY <1>1, <1>5, <1>8
    <3> QED
      BY <1>5, <1>10, <3>1
  <2>2. /\ f \in [closed' \cup DOMAIN open' -> Nat]
        /\ \A o \in closed' \cup DOMAIN open' :
             f[o] = IF o \in New THEN g[p] + Best(o).distance ELSE g[o]
    BY <2>1
  <2> QED
    BY <2>2
<1>12. \A o \in closed' \cup DOMAIN open' :
         h[o] = IF o \in New THEN g[p] + Best(o).distance ELSE g[o]
  BY <1>11
<1>13. \A o \in DOMAIN open' : h[o] = open'[o].distance
  BY <1>5, <1>8, <1>9, <1>12 DEF PricedBy
<1>14. ASSUME NEW s \in StartPoints(query)
       PROVE  s \in closed' \cup DOMAIN open' /\ h[s] = 0 /\ s \notin New
  <2>1. s \in K /\ g[s] = 0
    BY DEF PricedBy
  <2>2. s \notin New
    <3> SUFFICES ASSUME s \in New PROVE FALSE
      OBVIOUS
    <3>1. s \in DOMAIN open
      BY <1>10, <2>1
    <3>2. g[p] + Best(s).distance < 0 /\ g[p] \in Nat /\ Best(s).distance \in Nat
      BY <1>5, <1>10, <2>1, <3>1
    <3> QED
      BY <3>2
  <2> QED
    BY <1>1, <1>8, <1>12, <2>1, <2>2
<1>15. ASSUME NEW o \in DOMAIN cameFrom'
       PROVE  /\ o \in closed' \cup DOMAIN open'
              /\ o \notin StartPoints(query)
              /\ \E n \in StepsTo(map, query, cameFrom'[o], o) : h[o] = h[cameFrom'[o]] + n.distance
  <2>1. p \in closed' \cup DOMAIN open' /\ h[p] = g[p]
    BY <1>1, <1>10, <1>12
  <2>2. CASE o \in New
    <3>1. o \in closed' \cup DOMAIN open' /\ cameFrom'[o] = p
      BY <1>2, <1>8, <2>2
    <3>2. h[o] = h[p] + Best(o).distance
      BY <1>12, <2>1, <2>2, <3>1
    <3> QED
      BY <1>10, <1>14, <2>2, <3>1, <3>2
  <2>3. CASE o \notin New
    <3>1. /\ o \in DOMAIN cameFrom /\ cameFrom'[o] = cameFrom[o]
          /\ o \in K /\ o \notin StartPoints(query)
      BY <1>2, <2>3 DEF PricedBy
    <3>2. cameFrom[o] \in closed
      BY <3>1, FewPredecessors
    <3>3. o \in closed' \cup DOMAIN open' /\ cameFrom[o] \in closed' /\ cameFrom[o] \notin New
      BY <1>1, <1>8, <1>10, <3>1, <3>2
    <3>4. h[o] = g[o] /\ h[cameFrom[o]] = g[cameFrom[o]]
      BY <1>12, <2>3, <3>3
    <3>5. \E n \in StepsTo(map, query, cameFrom[o], o) : g[o] = g[cameFrom[o]] + n.distance
      BY <3>1 DEF PricedBy
    <3> QED
      BY <3>1, <3>3, <3>4, <3>5
  <2> QED
    BY <2>2, <2>3
<1>16. PricedBy(h)'
  <2>1. map' = map /\ query' = query
    BY <1>1
  <2>2. StartPoints(query') = StartPoints(query)
    BY <2>1
  <2>3. \A a, b : StepsTo(map', query', a, b) = StepsTo(map, query, a, b)
    BY <2>1
  <2> QED
    BY <1>11, <1>13, <1>14, <1>15, <2>2, <2>3 DEF PricedBy
<1>17. \A o \in closed' \cup DOMAIN open' :
         IF o \in New THEN \E b \in Better : b.to = o /\ h[o] = g[p] + b.distance
                      ELSE h[o] = g[o]
  <2>1. \A o \in New : Best(o) \in Better /\ Best(o).to = o
    BY <1>7
  <2> QED
    BY <1>12, <2>1
<1> QED
  BY <1>16, <1>17, Zenon DEF Renewed, New, Better

LEMMA ExpandKeepsWays ==
  ASSUME PlanningInv, WaysInv, NEW p \in DOMAIN open, Expand(p)
  PROVE  WaysInv'
<1>1. /\ outcome = "searching" /\ closed' = closed \cup {p} /\ ~ IsDest(query, p)
      /\ UNCHANGED <<map, query>>
  BY DEF Expand
<1>2. PICK g : PricedBy(g)
  BY <1>1 DEF WaysInv
<1>3. PICK h : PricedBy(h)'
  BY <1>2, ExpandRenewsCosts
<1> QED
  BY <1>1, <1>3 DEF WaysInv

LEMMA InitWays == Init => WaysInv
<1> SUFFICES ASSUME Init PROVE WaysInv
  OBVIOUS
<1>1. PICK m \in Maps : \E r : SearchInit(m, QueryOf(r, r.start, 1))
  BY DEF Init
<1>2. /\ map = m /\ open = StartOpen(map, query) /\ closed = {} /\ DOMAIN cameFrom = {}
  BY <1>1, EmptyTable DEF SearchInit
<1>3. m.at \in [m.lanes -> [Offsets -> Int \X Int]]
  BY RequestAssumption
<1> DEFINE g == [o \in StartPoints(query) |-> 0]
<1>4. /\ DOMAIN open = StartPoints(query)
      /\ \A o \in StartPoints(query) : open[o].distance = 0
  BY <1>2 DEF StartOpen
<1>5. g \in [StartPoints(query) -> Nat] /\ \A o \in StartPoints(query) : g[o] = 0
  OBVIOUS
<1> HIDE DEF g
<1>6. PricedBy(g)
  BY <1>2, <1>4, <1>5 DEF PricedBy
<1> QED
  BY <1>2, <1>3, <1>6 DEF WaysInv

LEMMA NewSearchKeepsWays ==
  ASSUME PlanningInv, WaysInv, outcome \in {"found", "notFound"}, NEW q, NewSearch(q)
  PROVE  WaysInv'
<1>1. /\ map' = map /\ query' = q /\ open' = StartOpen(map, q)
      /\ closed' = {} /\ DOMAIN cameFrom' = {}
  BY DEF NewSearch
<1>2. (\E g : PricedBy(g))'
  BY <1>1, SearchStartsPriced
<1> QED
  BY <1>1, <1>2 DEF WaysInv

LEMMA SameSearch ==
  ASSUME UNCHANGED searchVars, WaysInv, RawRouteIsOneWay,
         plan = None \/ plan' = plan
  PROVE  WaysInv' /\ RawRouteIsOneWay'
<1>1. UNCHANGED <<map, query, open, closed, cameFrom, outcome, rawRoute>>
  BY DEF searchVars
<1>2. ASSUME NEW g, PricedBy(g) PROVE PricedBy(g)'
  BY <1>1, <1>2 DEF PricedBy
<1>3. \A p : IsDest(query', p) = IsDest(query, p)
  BY <1>1
<1>4. WaysInv'
  BY <1>1, <1>2, <1>3 DEF WaysInv
<1>5. Searched' => Searched
  BY <1>1 DEF Searched
<1>6. RawRouteIsOneWay'
  BY <1>1, <1>5 DEF RawRouteIsOneWay
<1> QED
  BY <1>4, <1>6

LEMMA NextKeepsWays ==
  ASSUME PlanningInv, WaysInv, RawRouteIsOneWay, [Next]_vars
  PROVE  WaysInv' /\ RawRouteIsOneWay'
<1>1. ASSUME NEW p \in DOMAIN open, Expand(p), UNCHANGED planVars
      PROVE  WaysInv' /\ RawRouteIsOneWay'
  <2>1. outcome' = "searching"
    BY <1>1 DEF Expand
  <2>2. WaysInv'
    BY <1>1, ExpandKeepsWays
  <2> QED
    BY <2>1, <2>2 DEF RawRouteIsOneWay
<1>2. ASSUME NEW p \in DOMAIN open, Reach(p), UNCHANGED planVars
      PROVE  WaysInv' /\ RawRouteIsOneWay'
  <2>1. map' = map /\ outcome' = "found"
    BY <1>2 DEF Reach
  <2>2. WaysInv'
    BY <2>1 DEF WaysInv
  <2> QED
    BY <1>2, <2>2, ReachIsOneWay
<1>3. ASSUME NEW p, GiveUp \/ Throw(p) \/ BreakOff
      PROVE  WaysInv' /\ RawRouteIsOneWay'
  <2>1. map' = map /\ outcome' \in {"notFound", "threw"}
    BY <1>3 DEF GiveUp, Throw, BreakOff
  <2> QED
    BY <2>1 DEF WaysInv, RawRouteIsOneWay
<1>4. ASSUME NEW q, NewSearch(q), outcome \in {"found", "notFound"}
      PROVE  WaysInv' /\ RawRouteIsOneWay'
  <2>1. outcome' = "searching"
    BY <1>4 DEF NewSearch
  <2>2. WaysInv'
    BY <1>4, NewSearchKeepsWays
  <2> QED
    BY <2>1, <2>2 DEF RawRouteIsOneWay
<1>5. ASSUME NEW found, Stop(found), plan = None
      PROVE  WaysInv' /\ RawRouteIsOneWay'
  BY <1>5, SameSearch DEF Stop
<1>6. CASE UNCHANGED vars
  <2>1. UNCHANGED searchVars /\ UNCHANGED plan
    BY <1>6 DEF vars, planVars
  <2> QED
    BY <2>1, SameSearch
<1>7. CASE NextDestination
  <2>1. outcome \in {"found", "notFound"}
    BY <1>7 DEF NextDestination
  <2> QED
    BY <1>4, <1>5, <1>7, <2>1 DEF NextDestination
<1>8. CASE NextCandidate
  <2>1. outcome \in {"found", "notFound"}
    BY <1>8 DEF NextCandidate
  <2> QED
    BY <1>4, <1>5, <1>8, <2>1 DEF NextCandidate
<1> QED
  BY <1>1, <1>2, <1>3, <1>6, <1>7, <1>8 DEF Next, Search, SearchNext, Return

LEMMA WaysHold ==
  Spec => [](WaysInv /\ RawRouteIsOneWay)
<1>1. Init => RawRouteIsOneWay
  BY DEF Init, SearchInit, RawRouteIsOneWay, Searched
<1>2. PlanningInv /\ WaysInv /\ RawRouteIsOneWay /\ [Next]_vars
        => WaysInv' /\ RawRouteIsOneWay'
  BY NextKeepsWays
<1> QED
  BY <1>1, <1>2, InvHolds, InitWays, PTL DEF Spec

-----------------------------------------------------------------------------
(* Estimates.                                                              *)

\* A way round is not shorter than the straight line.
LEMMA StraightIsShortest ==
  ASSUME NEW m, m.at \in [m.lanes -> [Offsets -> Int \X Int]],
         NEW l \in m.lanes, NEW a \in Offsets, NEW k \in m.lanes, NEW b \in Offsets,
         NEW j \in m.lanes, NEW c \in Offsets
  PROVE  CentreDistance(m, l, a, j, c) <= CentreDistance(m, l, a, k, b) + CentreDistance(m, k, b, j, c)
<1>1. /\ m.at[l][a] \in Int \X Int /\ m.at[k][b] \in Int \X Int /\ m.at[j][c] \in Int \X Int
  OBVIOUS
<1>2. /\ m.at[l][a][1] \in Int /\ m.at[l][a][2] \in Int
      /\ m.at[k][b][1] \in Int /\ m.at[k][b][2] \in Int
      /\ m.at[j][c][1] \in Int /\ m.at[j][c][2] \in Int
  BY <1>1
<1>3. \A x, y, z \in Int : /\ Gap(x, y) \in Nat
                           /\ Gap(x, z) <= Gap(x, y) + Gap(y, z)
  BY DEF Gap
<1>4. \A x, y, z, u, v, w \in Int :
        Gap(x, z) + Gap(u, w) <= (Gap(x, y) + Gap(u, v)) + (Gap(y, z) + Gap(v, w))
  <2>1. \A d, e, f, g, h, i \in Nat : d <= e + f /\ g <= h + i => d + g <= (e + h) + (f + i)
    OBVIOUS
  <2> QED
    BY <1>3, <2>1
<1> QED
  BY <1>2, <1>4 DEF CentreDistance

\* The estimate promises no more than a step and the estimate from there.
LEMMA EstimatesAreConsistent ==
  ASSUME NEW m, m.at \in [m.lanes -> [Offsets -> Int \X Int]],
         NEW q, NEW p \in RoutingPoints(m), q.dest \in RoutingPoints(m),
         NEW n \in NeighborsOf(m, q, p),
         \A k \in LongitudinalNeighbors(m, q, p) :
           CentreDistance(m, p.lane, p.offset, k.to.lane, k.to.offset) <= MinDistance
  PROVE  /\ CostEstimate(m, q, p) \in Nat /\ CostEstimate(m, q, n.to) \in Nat
         /\ CostEstimate(m, q, p) <= n.distance + CostEstimate(m, q, n.to)
<1>1. n.to \in RoutingPoints(m)
  BY NeighborsAreOnTheMap DEF NeighborsOf
<1>2. /\ p.lane \in m.lanes /\ p.offset \in Offsets
      /\ n.to.lane \in m.lanes /\ n.to.offset \in Offsets
      /\ q.dest.lane \in m.lanes /\ q.dest.offset \in Offsets
  BY <1>1 DEF RoutingPoints
<1> DEFINE d == CentreDistance(m, p.lane, p.offset, n.to.lane, n.to.offset)
<1>3. d \in Nat
  BY <1>2, DistancesAreNatural
<1>4. CostEstimate(m, q, p) \in Nat /\ CostEstimate(m, q, n.to) \in Nat
  BY <1>2, DistancesAreNatural DEF CostEstimate
<1>5. CostEstimate(m, q, p) <= d + CostEstimate(m, q, n.to)
  BY <1>2, StraightIsShortest DEF CostEstimate
<1>6. MinDistance \in Nat
  BY MinimumAssumption
<1>7. n.distance \in Nat
  BY StepsCost
<1>8. d <= n.distance
  <2>1. CASE n \in LongitudinalNeighbors(m, q, p)
    <3>1. n.distance = MinDistance
      BY <2>1 DEF LongitudinalNeighbors, LongitudinalNeighbor
    <3> QED
      BY <2>1, <3>1
  <2>2. CASE n \in SameLaneNeighbors(m, q, p) \cup LateralNeighbors(m, q, p)
    <3>1. n.distance = Larger(d, MinDistance)
      BY <2>2, StepsAsideCost
    <3> HIDE DEF d
    <3> QED
      BY <1>3, <1>6, <3>1 DEF Larger
  <2> QED
    BY <2>1, <2>2 DEF NeighborsOf
<1> HIDE DEF d
<1> QED
  BY <1>3, <1>4, <1>5, <1>7, <1>8

-----------------------------------------------------------------------------
(* The shortest distances, step by step.                                   *)

\* What one step more does to the least distances.
StepFrom(m, q, before, t, d) ==
  \E p \in DOMAIN before :
    /\ ~ IsDest(q, p)
    /\ \E s \in ExpandNeighbors(m, q, p, [distance |-> before[p], duration |-> 0]) :
         s.to = t /\ d = before[p] + s.distance

Nearer(m, q, before, after) ==
  /\ \A p \in DOMAIN before : p \in DOMAIN after /\ after[p] <= before[p]
  /\ \A t, d : StepFrom(m, q, before, t, d) => t \in DOMAIN after /\ after[t] <= d
  /\ \A t \in DOMAIN after :
       \/ t \in DOMAIN before /\ after[t] = before[t]
       \/ StepFrom(m, q, before, t, after[t])

\* DistanceTables to some points of a map.
DistanceTables(m) == UNION { [D -> Nat] : D \in SUBSET RoutingPoints(m) }

LEMMA MinOfNaturals ==
  ASSUME NEW T, T \subseteq Nat, T # {}
  PROVE  Min(T) \in T /\ \A x \in T : Min(T) <= x
<1>1. \E x \in T : \A y \in T : x <= y
  BY LeastNatural
<1> QED
  BY <1>1 DEF Min

LEMMA OneStepMoreIsNearer ==
  ASSUME NEW m, m.at \in [m.lanes -> [Offsets -> Int \X Int]],
         NEW q, q.dest \in RoutingPoints(m), NEW before \in DistanceTables(m)
  PROVE  /\ OneStepMore(m, q, before) \in DistanceTables(m)
         /\ Nearer(m, q, before, OneStepMore(m, q, before))
<1> DEFINE Steps(p) == ExpandNeighbors(m, q, p, [distance |-> before[p], duration |-> 0])
           Way(t, d) == [to |-> t, length |-> d]
           stay == {Way(p, before[p]) : p \in DOMAIN before}
           go(p) == {Way(s.to, before[p] + s.distance) : s \in Steps(p)}
           ways == stay \cup UNION {go(p) : p \in {r \in DOMAIN before : ~ IsDest(q, r)}}
           Lengths(t) == {w.length : w \in {v \in ways : v.to = t}}
           after == OneStepMore(m, q, before)
<1>1. after = [t \in {w.to : w \in ways} |-> Min(Lengths(t))]
  BY Zenon DEF OneStepMore
<1>2. /\ DOMAIN before \subseteq RoutingPoints(m)
      /\ \A p \in DOMAIN before : before[p] \in Nat
  BY DEF DistanceTables
<1>3. ASSUME NEW p \in DOMAIN before, NEW s \in Steps(p)
      PROVE  s.to \in RoutingPoints(m) /\ before[p] + s.distance \in Nat
  <2>1. s \in NeighborsOf(m, q, p) /\ p \in RoutingPoints(m)
    BY <1>2 DEF ExpandNeighbors, NeighborsOf
  <2>2. s.to \in RoutingPoints(m)
    BY <2>1, NeighborsAreOnTheMap DEF NeighborsOf
  <2>3. s.distance \in Nat
    BY <2>1, StepsCost
  <2> QED
    BY <1>2, <2>2, <2>3
<1> HIDE DEF Steps
<1>4. ASSUME NEW t, NEW d
      PROVE  d \in Lengths(t) <=> \/ t \in DOMAIN before /\ d = before[t]
                                  \/ StepFrom(m, q, before, t, d)
  <2>1. d \in Lengths(t) <=> \E w \in ways : w.to = t /\ w.length = d
    <3> HIDE DEF ways
    <3> QED
      OBVIOUS
  <2>0. \A a, b : Way(a, b).to = a /\ Way(a, b).length = b
    OBVIOUS
  <2> HIDE DEF Way
  <2>2. (\E w \in stay : w.to = t /\ w.length = d) <=> t \in DOMAIN before /\ d = before[t]
    <3>1. ASSUME NEW w \in stay, w.to = t, w.length = d
          PROVE  t \in DOMAIN before /\ d = before[t]
      <4>1. PICK p \in DOMAIN before : w = Way(p, before[p])
        OBVIOUS
      <4> QED
        BY <2>0, <3>1, <4>1
    <3>2. ASSUME t \in DOMAIN before, d = before[t]
          PROVE  \E w \in stay : w.to = t /\ w.length = d
      <4>1. Way(t, before[t]) \in stay
        BY <3>2
      <4> HIDE DEF stay
      <4> QED
        BY <2>0, <3>2, <4>1
    <3> HIDE DEF stay
    <3> QED
      BY <3>1, <3>2
  <2>3. ASSUME NEW p
        PROVE  (\E w \in go(p) : w.to = t /\ w.length = d)
                 <=> \E s \in Steps(p) : s.to = t /\ d = before[p] + s.distance
    <3>1. ASSUME NEW w \in go(p), w.to = t, w.length = d
          PROVE  \E s \in Steps(p) : s.to = t /\ d = before[p] + s.distance
      <4>1. PICK s \in Steps(p) : w = Way(s.to, before[p] + s.distance)
        OBVIOUS
      <4> QED
        BY <2>0, <3>1, <4>1
    <3>2. ASSUME NEW s \in Steps(p), s.to = t, d = before[p] + s.distance
          PROVE  \E w \in go(p) : w.to = t /\ w.length = d
      <4>1. Way(s.to, before[p] + s.distance) \in go(p)
        OBVIOUS
      <4> HIDE DEF go
      <4> QED
        BY <2>0, <3>2, <4>1
    <3> HIDE DEF go
    <3> QED
      BY <3>1, <3>2
  <2> HIDE DEF stay, go
  <2>4. (\E w \in ways : w.to = t /\ w.length = d)
          <=> \/ \E w \in stay : w.to = t /\ w.length = d
              \/ \E p \in DOMAIN before : ~ IsDest(q, p) /\ \E w \in go(p) : w.to = t /\ w.length = d
    OBVIOUS
  <2>5. StepFrom(m, q, before, t, d)
          <=> \E p \in DOMAIN before : ~ IsDest(q, p) /\
                \E s \in Steps(p) : s.to = t /\ d = before[p] + s.distance
    BY Zenon DEF StepFrom, Steps
  <2> QED
    BY <2>1, <2>2, <2>3, <2>4, <2>5
<1>5. ASSUME NEW t
      PROVE  /\ Lengths(t) \subseteq Nat
             /\ t \in DOMAIN after <=> Lengths(t) # {}
             /\ Lengths(t) # {} => t \in RoutingPoints(m)
             /\ t \in DOMAIN after => after[t] = Min(Lengths(t))
  <2>1. ASSUME NEW d \in Lengths(t) PROVE d \in Nat /\ t \in RoutingPoints(m)
    <3>1. CASE t \in DOMAIN before /\ d = before[t]
      BY <1>2, <3>1
    <3>2. CASE StepFrom(m, q, before, t, d)
      BY <1>3, <3>2 DEF StepFrom, Steps
    <3> QED
      BY <1>4, <2>1, <3>1, <3>2
  <2>2. t \in {w.to : w \in ways} <=> Lengths(t) # {}
    <3> HIDE DEF ways
    <3> QED
      OBVIOUS
  <2> HIDE DEF after, Lengths, ways
  <2> QED
    BY <1>1, <2>1, <2>2
<1> HIDE DEF after, Lengths
<1>6. ASSUME NEW t \in DOMAIN after
      PROVE  after[t] \in Lengths(t) /\ \A d \in Lengths(t) : after[t] <= d
  BY <1>5, MinOfNaturals
<1>7. after \in DistanceTables(m)
  <2>1. /\ DOMAIN after \subseteq RoutingPoints(m)
        /\ \A t \in DOMAIN after : after[t] \in Nat
    BY <1>5, <1>6
  <2>2. after = [t \in DOMAIN after |-> after[t]]
    BY <1>1
  <2>3. after \in [DOMAIN after -> Nat]
    BY <2>1, <2>2
  <2> QED
    BY <2>1, <2>3 DEF DistanceTables
<1>8. Nearer(m, q, before, after)
  <2>1. ASSUME NEW t, NEW d, d \in Lengths(t) PROVE t \in DOMAIN after /\ after[t] <= d
    BY <1>5, <1>6, <2>1
  <2>2. ASSUME NEW t \in DOMAIN before PROVE t \in DOMAIN after /\ after[t] <= before[t]
    BY <1>4, <2>1
  <2>3. ASSUME NEW t, NEW d, StepFrom(m, q, before, t, d) PROVE t \in DOMAIN after /\ after[t] <= d
    BY <1>4, <2>1, <2>3
  <2>4. ASSUME NEW t \in DOMAIN after
        PROVE  \/ t \in DOMAIN before /\ after[t] = before[t]
               \/ StepFrom(m, q, before, t, after[t])
    BY <1>4, <1>6
  <2> QED
    BY <2>2, <2>3, <2>4 DEF Nearer
<1> QED
  BY <1>7, <1>8 DEF after

\* The tables of least distances, each over one step more than the last.
LeastTables(W, m, q, N) ==
  /\ W \in [0 .. N -> DistanceTables(m)]
  /\ W[0] = [p \in StartPoints(q) |-> 0]
  /\ \A n \in 1 .. N : Nearer(m, q, W[n-1], W[n])

LEMMA LeastDistancesAreRepeated ==
  ASSUME NEW m, m.at \in [m.lanes -> [Offsets -> Int \X Int]], IsFiniteSet(m.lanes),
         NEW q, q.dest \in RoutingPoints(m), StartPoints(q) \subseteq RoutingPoints(m),
         NEW N, N = Cardinality(RoutingPoints(m))
  PROVE  /\ N \in Nat
         /\ \E W : LeastTables(W, m, q, N) /\ LeastDistancesTo(m, q) = W[N]
<1> DEFINE S == DistanceTables(m)
           More(before) == OneStepMore(m, q, before)
           a == [p \in StartPoints(q) |-> 0]
           F == [i \in 1 .. N |-> [before \in S |-> More(before)]]
           Tables(W) == W = [n \in 0 .. N |-> IF n = 0 THEN a ELSE More(W[n-1])]
<1>0. N \in Nat
  BY FinitelyManyPoints, FS_CardinalityType
<1>1. a \in S
  <2>1. a \in [StartPoints(q) -> Nat]
    OBVIOUS
  <2> HIDE DEF a
  <2> QED
    BY <2>1 DEF DistanceTables
<1>2. ASSUME NEW before \in S
      PROVE  More(before) \in S /\ Nearer(m, q, before, More(before))
  BY OneStepMoreIsNearer
<1> HIDE DEF S, More, a
<1>3. F \in [1 .. N -> [S -> S]]
  BY <1>2
<1>4. PICK P : Repeats(P, N, S, a, F)
  <2> HIDE DEF F
  <2> QED
    BY <1>0, <1>1, <1>3, Repeated
<1>5. /\ P \in [0 .. N -> S]
      /\ P[0] = a
      /\ \A i \in 1 .. N : P[i] = F[i][P[i-1]]
  BY <1>4, Zenon DEF Repeats
<1>6. ASSUME NEW i \in 1 .. N PROVE P[i] = More(P[i-1]) /\ P[i-1] \in S
  <2>1. P[i-1] \in S
    BY <1>0, <1>5
  <2> DEFINE before == P[i-1]
  <2> HIDE DEF before
  <2>2. F[i][before] = More(before)
    BY <2>1 DEF before
  <2> QED
    BY <1>5, <2>1, <2>2 DEF before
<1>7. Tables(P)
  <2>1. ASSUME NEW i \in 0 .. N
        PROVE  P[i] = IF i = 0 THEN a ELSE More(P[i-1])
    <3>1. CASE i = 0
      BY <1>5, <3>1, Zenon
    <3>2. CASE i # 0
      <4>1. i \in 1 .. N
        BY <1>0, <3>2
      <4> QED
        BY <1>6, <3>2, <4>1, Zenon
    <3> QED
      BY <3>1, <3>2
  <2>2. P = [i \in 0 .. N |-> P[i]]
    BY <1>5
  <2> QED
    BY <2>1, <2>2, Zenon
<1> DEFINE Q == CHOOSE W : Tables(W)
<1>8. Tables(Q)
  <2> HIDE DEF Tables
  <2> QED
    BY <1>7
<1>9. LeastDistancesTo(m, q) = Q[N]
  BY Zenon DEF LeastDistancesTo, More, a
<1>10. Q = P
  <2> DEFINE Same == { i \in 0 .. N : Q[i] = P[i] }
  <2>0. Q = [n \in 0 .. N |-> IF n = 0 THEN a ELSE More(Q[n-1])]
    BY <1>8
  <2> HIDE DEF Q
  <2>1. 0 \in Same
    BY <1>0, <1>5, <2>0
  <2>2. ASSUME NEW k \in 0 .. N - 1, k \in Same PROVE k + 1 \in Same
    <3>1. k + 1 \in 1 .. N /\ k + 1 \in 0 .. N /\ (k + 1) - 1 = k /\ k + 1 # 0
      BY <1>0
    <3>2. Q[k + 1] = More(Q[k])
      BY <2>0, <3>1
    <3>3. P[k + 1] = More(P[k])
      BY <1>6, <3>1
    <3> QED
      BY <2>2, <3>1, <3>2, <3>3
  <2>3. \A i \in 0 .. N : Q[i] = P[i]
    <3>1. \A i \in 0 .. N : i \in Same
      <4> HIDE DEF Same
      <4> QED
        BY <1>0, <2>1, <2>2, UpFromZero
    <3> QED
      BY <3>1
  <2>4. Q = [i \in 0 .. N |-> Q[i]] /\ P = [i \in 0 .. N |-> P[i]]
    BY <1>5, <2>0
  <2> QED
    BY <2>3, <2>4
<1>11. LeastDistancesTo(m, q) = P[N]
  BY <1>9, <1>10
<1>12. LeastTables(P, m, q, N)
  <2>1. \A i \in 1 .. N : Nearer(m, q, P[i-1], P[i])
    BY <1>2, <1>6
  <2> QED
    BY <1>5, <2>1 DEF LeastTables, S, a
<1> QED
  BY <1>0, <1>11, <1>12

-----------------------------------------------------------------------------
(* The frontier of a search.                                               *)

CostTo(g, o) == [distance |-> g[o], duration |-> 0]

\* What is known about the points ahead of the search.
Ordered(g) ==
  \A c \in closed, o \in DOMAIN open :
     g[c] + CostEstimate(map, query, c) <= g[o] + CostEstimate(map, query, o)

Explored(g) ==
  \A c \in closed : MayExpand(map, query, c, CostTo(g, c)) =>
    \A n \in NeighborsOf(map, query, c) :
       n.to \in closed \cup DOMAIN open /\ g[n.to] <= g[c] + n.distance

FrontierAt(g) ==
  /\ \A o \in DOMAIN open : open[o].estimate = g[o] + CostEstimate(map, query, o)
  /\ Ordered(g)
  /\ Explored(g)
  /\ \A o \in DOMAIN cameFrom : MayExpand(map, query, cameFrom[o], CostTo(g, cameFrom[o]))

FrontierInv ==
  /\ {"maxDistance", "maxDuration"} \subseteq DOMAIN query
  /\ query.maxDistance \in Nat /\ request.maxDistance \in Nat
  /\ outcome = "searching" => \E g : PricedBy(g) /\ FrontierAt(g)

\* A point that may be expanded may be expanded over a shorter distance.
LEMMA CheaperMayExpand ==
  ASSUME NEW m, NEW q, q.maxDistance \in Nat, 0 < q.maxDuration, NEW p,
         NEW a, NEW b, a.distance \in Nat, b.distance \in Nat, b.distance <= a.distance,
         b.duration = 0 \/ b.duration < q.maxDuration,
         MayExpand(m, q, p, a)
  PROVE  MayExpand(m, q, p, b)
BY DEF MayExpand

LEMMA ExpandKeepsFrontier ==
  ASSUME PlanningInv, WaysInv, FrontierInv, EndsMeet, DurationsInLimit,
         NEW p \in DOMAIN open, Expand(p), UNCHANGED planVars
  PROVE  FrontierInv'
<1> DEFINE K == closed \cup DOMAIN open
           New == Renewed(p)
           H(o) == CostEstimate(map, query, o)
           Better == Improved(map, query, open, closed, p)
<1>1. /\ outcome = "searching" /\ outcome' = "searching"
      /\ closed' = closed \cup {p}
      /\ map' = map /\ query' = query
      /\ open' = AddNeighbors(map, query, open, closed, p)
      /\ request' = request
      /\ IsCheapest(open, p)
  BY DEF Expand, planVars
<1>2. /\ DOMAIN cameFrom' = DOMAIN cameFrom \cup New
      /\ \A o \in New : cameFrom'[o] = p
      /\ \A o \in DOMAIN cameFrom \ New : cameFrom'[o] = cameFrom[o]
  BY DEF Expand, Renewed
<1>3. /\ p \in RoutingPoints(map) /\ query.dest \in RoutingPoints(map)
      /\ K \subseteq RoutingPoints(map) /\ closed \cap DOMAIN open = {}
      /\ map.at \in [map.lanes -> [Offsets -> Int \X Int]]
  BY DEF PlanningInv, TypeOK, WaysInv
<1>4. PICK g : PricedBy(g) /\ FrontierAt(g)
  BY <1>1 DEF FrontierInv
<1>5. PICK h : /\ PricedBy(h)'
               /\ \A o \in closed' \cup DOMAIN open' :
                    IF o \in New THEN \E b \in Better : b.to = o /\ h[o] = g[p] + b.distance
                    ELSE h[o] = g[o]
  BY <1>4, ExpandRenewsCosts
<1>6. /\ g \in [K -> Nat] /\ p \in K
      /\ h \in [closed' \cup DOMAIN open' -> Nat]
      /\ \A o \in DOMAIN open : g[o] = open[o].distance
      /\ \A o \in DOMAIN open' : h[o] = open'[o].distance
  BY <1>4, <1>5 DEF PricedBy
<1>7. /\ DOMAIN open' = (DOMAIN open \ {p}) \cup New
      /\ \A o \in New : open'[o].estimate = open'[o].distance + H(o)
      /\ \A o \in DOMAIN open \ {p} : o \notin New => open'[o] = open[o]
  <2>1. DOMAIN open' = (DOMAIN open \ {p}) \cup New
    BY <1>1 DEF AddNeighbors, Renewed
  <2>2. ASSUME NEW o \in New PROVE open'[o].estimate = open'[o].distance + H(o)
    <3>1. PICK n : open'[o] = [distance |-> open[p].distance + n.distance,
                               duration |-> IF o \in DOMAIN open THEN open[o].duration
                                            ELSE open[p].duration + n.duration,
                               estimate |-> open[p].distance + n.distance + H(o)]
      BY <1>1 DEF AddNeighbors, Renewed
    <3> HIDE DEF H
    <3> QED
      BY <3>1
  <2>3. \A o \in DOMAIN open \ {p} : o \notin New => open'[o] = open[o]
    BY <1>1 DEF AddNeighbors, Renewed
  <2> QED
    BY <2>1, <2>2, <2>3
<1>8. ASSUME NEW n \in Better
      PROVE  /\ n \in NeighborsOf(map, query, p)
             /\ MayExpand(map, query, p, open[p])
             /\ n.to \notin closed /\ n.to # p
             /\ n.distance \in Nat
             /\ n.to \in DOMAIN open => g[p] + n.distance < g[n.to]
  <2>1. n \in ExpandNeighbors(map, query, p, open[p])
    BY DEF Improved
  <2>2. n \in NeighborsOf(map, query, p) /\ MayExpand(map, query, p, open[p])
    BY <2>1 DEF ExpandNeighbors, NeighborsOf
  <2>3. n.distance \in Nat
    BY <1>3, <2>2, StepsCost
  <2>4. n.to \notin closed /\ n.to # p
    BY DEF Improved
  <2>5. n.to \in DOMAIN open => g[p] + n.distance < g[n.to]
    <3>1. n.to \in DOMAIN open => open[p].distance + n.distance < open[n.to].distance
      BY DEF Improved
    <3> QED
      BY <1>6, <3>1
  <2> QED
    BY <2>2, <2>3, <2>4, <2>5
<1>9. \A o \in RoutingPoints(map) : H(o) \in Nat
  <2>1. ASSUME NEW o \in RoutingPoints(map) PROVE H(o) \in Nat
    <3>1. /\ o.lane \in map.lanes /\ o.offset \in Offsets
          /\ query.dest.lane \in map.lanes /\ query.dest.offset \in Offsets
      BY <1>3 DEF RoutingPoints
    <3> QED
      BY <1>3, <3>1, DistancesAreNatural DEF CostEstimate
  <2> QED
    BY <2>1
<1>10. ASSUME NEW n \in NeighborsOf(map, query, p)
       PROVE  H(p) <= n.distance + H(n.to) /\ n.distance \in Nat
  <2>1. \A k \in LongitudinalNeighbors(map, query, p) :
          CentreDistance(map, p.lane, p.offset, k.to.lane, k.to.offset) <= MinDistance
    BY <1>3 DEF EndsMeet, LanesMeet
  <2> QED
    BY <1>3, <2>1, EstimatesAreConsistent, StepsCost
<1>11. \A o \in New : \E b \in Better : b.to = o
  BY DEF Renewed
<1>12. \A o \in New : o \notin closed /\ o # p
  BY <1>8, <1>11
<1>13. /\ \A o \in closed : o \in closed' /\ h[o] = g[o]
       /\ p \in closed' /\ h[p] = g[p]
  BY <1>1, <1>5, <1>12
<1>14. \A o \in K : o \in closed' \cup DOMAIN open' /\ h[o] <= g[o]
  <2>1. ASSUME NEW o \in K PROVE o \in closed' \cup DOMAIN open' /\ h[o] <= g[o]
    <3>1. o \in closed' \cup DOMAIN open'
      BY <1>1, <1>7
    <3>2. CASE o \in New
      <4>1. PICK b \in Better : b.to = o /\ h[o] = g[p] + b.distance
        BY <1>5, <3>1, <3>2
      <4>2. o \in DOMAIN open
        BY <1>12, <3>2
      <4>3. g[p] + b.distance < g[o]
        BY <1>8, <4>1, <4>2
      <4>4. g[p] \in Nat /\ b.distance \in Nat /\ g[o] \in Nat
        BY <1>6, <1>8
      <4> QED
        BY <3>1, <4>1, <4>3, <4>4
    <3>3. CASE o \notin New
      BY <1>5, <1>6, <3>1, <3>3
    <3> QED
      BY <3>2, <3>3
  <2> QED
    BY <2>1
<1>15. ASSUME NEW o \in DOMAIN open' PROVE open'[o].estimate = h[o] + H(o)
  <2>1. CASE o \in New
    BY <1>6, <1>7, <2>1
  <2>2. CASE o \notin New
    <3>1. o \in DOMAIN open \ {p} /\ open'[o] = open[o] /\ h[o] = g[o]
      BY <1>5, <1>7, <2>2
    <3> QED
      BY <1>4, <3>1 DEF FrontierAt
  <2> QED
    BY <2>1, <2>2
<1> HIDE DEF H, Better, New
<1>16. ASSUME NEW o \in DOMAIN open' PROVE g[p] + H(p) <= h[o] + H(o)
  <2>1. g[p] \in Nat /\ H(p) \in Nat
    BY <1>3, <1>6, <1>9
  <2>2. CASE o \in New
    <3>1. PICK b \in Better : b.to = o /\ h[o] = g[p] + b.distance
      BY <1>5, <2>2
    <3>2. b \in NeighborsOf(map, query, p)
      BY <1>8
    <3>3. H(p) <= b.distance + H(o) /\ b.distance \in Nat
      BY <1>10, <3>1, <3>2
    <3>4. o \in RoutingPoints(map)
      BY <1>3, <3>1, <3>2, NeighborsAreOnTheMap DEF NeighborsOf
    <3>5. H(o) \in Nat
      BY <1>9, <3>4
    <3> QED
      BY <2>1, <3>1, <3>3, <3>5
  <2>3. CASE o \notin New
    <3>1. o \in DOMAIN open /\ h[o] = g[o]
      BY <1>5, <1>7, <2>3
    <3>2. open[p].estimate <= open[o].estimate
      BY <1>1, <3>1 DEF IsCheapest
    <3>3. /\ open[p].estimate = g[p] + H(p)
          /\ open[o].estimate = g[o] + H(o)
      BY <1>4, <3>1 DEF FrontierAt, H
    <3> QED
      BY <3>1, <3>2, <3>3
  <2> QED
    BY <2>2, <2>3
<1>17. ASSUME NEW c \in closed' PROVE h[c] = g[c] /\ g[c] \in Nat /\ H(c) \in Nat /\ g[c] + H(c) <= g[p] + H(p)
  <2>1. CASE c = p
    BY <1>3, <1>6, <1>9, <1>13, <2>1
  <2>2. CASE c \in closed
    <3>1. g[c] + H(c) <= g[p] + H(p)
      BY <1>4, <2>2 DEF FrontierAt, Ordered, H
    <3>2. c \in RoutingPoints(map)
      BY <1>3, <2>2
    <3> QED
      BY <1>6, <1>9, <1>13, <2>2, <3>1, <3>2
  <2> QED
    BY <1>1, <2>1, <2>2
<1>18. ASSUME NEW c \in closed', NEW o \in DOMAIN open' PROVE h[c] + H(c) <= h[o] + H(o)
  <2>1. g[c] + H(c) <= g[p] + H(p) /\ g[p] + H(p) <= h[o] + H(o)
    BY <1>16, <1>17
  <2>2. g[c] \in Nat /\ H(c) \in Nat /\ g[p] \in Nat /\ H(p) \in Nat /\ h[o] \in Nat /\ h[c] = g[c]
    BY <1>3, <1>6, <1>9, <1>17
  <2>3. H(o) \in Nat
    <3>1. o \in RoutingPoints(map)
      <4>1. CASE o \in New
        <5>1. PICK b \in Better : b.to = o
          BY <1>11, <4>1
        <5> QED
          BY <1>3, <1>8, <5>1, NeighborsAreOnTheMap DEF NeighborsOf
      <4>2. CASE o \notin New
        BY <1>3, <1>7, <4>2
      <4> QED
        BY <4>1, <4>2
    <3> QED
      BY <1>9, <3>1
  <2> QED
    BY <2>1, <2>2, <2>3
<1>19. ASSUME NEW n \in NeighborsOf(map, query, p), MayExpand(map, query, p, CostTo(h, p))
       PROVE  n.to \in closed' \cup DOMAIN open' /\ h[n.to] <= h[p] + n.distance
  <2>1. g[p] \in Nat /\ h[p] = g[p] /\ n.distance \in Nat /\ g[p] = open[p].distance
    BY <1>6, <1>10, <1>13
  <2>2. n \in ExpandNeighbors(map, query, p, open[p])
    <3>1. CostTo(h, p).distance = h[p]
      BY DEF CostTo
    <3>2. MayExpand(map, query, p, open[p])
      BY <1>19, <2>1, <3>1 DEF MayExpand, DurationsInLimit
    <3> QED
      BY <3>2 DEF ExpandNeighbors, NeighborsOf
  <2>3. CASE n.to \in closed \cup {p}
    <3>1. n.to \in closed' /\ h[n.to] = g[n.to] /\ g[n.to] \in Nat /\ H(n.to) \in Nat
          /\ g[n.to] + H(n.to) <= g[p] + H(p)
      BY <1>1, <1>17, <2>3
    <3>2. H(p) <= n.distance + H(n.to)
      BY <1>10
    <3>3. H(p) \in Nat
      BY <1>3, <1>9
    <3> QED
      BY <2>1, <3>1, <3>2, <3>3
  <2>4. CASE n.to \notin closed \cup {p} /\ n \notin Better
    <3>1. n.to \in DOMAIN open /\ ~ (open[p].distance + n.distance < open[n.to].distance)
      BY <2>2, <2>4 DEF Improved, Better
    <3>2. g[n.to] = open[n.to].distance /\ g[n.to] \in Nat
      BY <1>6, <3>1
    <3>3. g[n.to] <= g[p] + n.distance
      BY <2>1, <3>1, <3>2
    <3>4. n.to \in closed' \cup DOMAIN open' /\ h[n.to] <= g[n.to]
      BY <1>14, <3>1
    <3>5. h[n.to] \in Nat
      BY <1>6, <3>4
    <3> QED
      BY <2>1, <3>2, <3>3, <3>4, <3>5
  <2>5. CASE n \in Better
    <3>1. n.to \in New
      BY <2>5 DEF New, Better, Renewed
    <3>2. n.to \in DOMAIN open'
      BY <1>7, <3>1
    <3>3. PICK b \in Better : b.to = n.to /\ h[n.to] = g[p] + b.distance
      BY <1>5, <3>1, <3>2
    <3>4. b \in NeighborsOf(map, query, p)
      BY <1>8
    <3>5. b.distance = n.distance
      BY <1>3, <3>3, <3>4, StepsCostTheSame
    <3> QED
      BY <2>1, <3>2, <3>3, <3>5
  <2> QED
    BY <2>3, <2>4, <2>5
<1>20. ASSUME NEW c \in closed', MayExpand(map, query, c, CostTo(h, c)),
              NEW n \in NeighborsOf(map, query, c)
       PROVE  n.to \in closed' \cup DOMAIN open' /\ h[n.to] <= h[c] + n.distance
  <2>1. CASE c = p
    BY <1>19, <1>20, <2>1
  <2>2. CASE c \in closed
    <3>1. h[c] = g[c] /\ CostTo(h, c) = CostTo(g, c)
      BY <1>13, <2>2 DEF CostTo
    <3>2. n.to \in K /\ g[n.to] <= g[c] + n.distance
      BY <1>4, <1>20, <2>2, <3>1 DEF FrontierAt, Explored
    <3>3. n.to \in closed' \cup DOMAIN open' /\ h[n.to] <= g[n.to]
      BY <1>14, <3>2
    <3>4. n.distance \in Nat
      BY <1>3, <2>2, StepsCost
    <3>5. h[n.to] \in Nat /\ g[n.to] \in Nat /\ g[c] \in Nat
      BY <1>6, <2>2, <3>2, <3>3
    <3> QED
      BY <3>1, <3>2, <3>3, <3>4, <3>5
  <2> QED
    BY <1>1, <2>1, <2>2
<1>21. ASSUME NEW o \in DOMAIN cameFrom'
       PROVE  MayExpand(map, query, cameFrom'[o], CostTo(h, cameFrom'[o]))
  <2>1. CASE o \in New
    <3>1. cameFrom'[o] = p /\ MayExpand(map, query, p, open[p])
      BY <1>2, <1>8, <1>11, <2>1
    <3>2. CostTo(h, p).distance = open[p].distance /\ CostTo(h, p).duration = 0
      BY <1>6, <1>13 DEF CostTo
    <3>3. MayExpand(map, query, p, CostTo(h, p))
      BY <3>1, <3>2 DEF MayExpand, DurationsInLimit
    <3> QED
      BY <3>1, <3>3
  <2>2. CASE o \notin New
    <3>1. o \in DOMAIN cameFrom /\ cameFrom'[o] = cameFrom[o]
      BY <1>2, <2>2
    <3>2. cameFrom[o] \in closed
      BY <1>4, <3>1, FewPredecessors
    <3>3. CostTo(h, cameFrom[o]) = CostTo(g, cameFrom[o])
      BY <1>13, <3>2 DEF CostTo
    <3> QED
      BY <1>4, <3>1, <3>3 DEF FrontierAt
  <2> QED
    BY <2>1, <2>2
<1>22. FrontierAt(h)'
  <2>1. \A o : CostEstimate(map', query', o) = H(o)
    BY <1>1 DEF H
  <2>2. \A c : NeighborsOf(map', query', c) = NeighborsOf(map, query, c)
    BY <1>1
  <2>3. \A c, d : MayExpand(map', query', c, d) = MayExpand(map, query, c, d)
    BY <1>1
  <2>4. Ordered(h)'
    BY <1>18, <2>1 DEF Ordered
  <2>5. Explored(h)'
    BY <1>20, <2>2, <2>3, Zenon DEF Explored
  <2> QED
    BY <1>15, <1>21, <2>1, <2>3, <2>4, <2>5, Zenon DEF FrontierAt
<1> QED
  BY <1>1, <1>5, <1>22 DEF FrontierInv

-----------------------------------------------------------------------------
(* The destination that was reached.                                       *)

\* What changes when the point reached takes the place of the destination:
\* a step goes where one went before, or to the destination both times.
LEMMA StepsWithOtherDest ==
  ASSUME NEW m, NEW q, NEW p, NEW r, r.dest = q.dest \/ IsDest(q, r.dest),
         r.ignoreDirection = q.ignoreDirection, r.relevant = q.relevant,
         NEW s \in NeighborsOf(m, r, p)
  PROVE  \E n \in NeighborsOf(m, q, p) :
           /\ n.distance = s.distance
           /\ n.to.lane = s.to.lane /\ n.to.offset = s.to.offset
           /\ n.to = s.to \/ IsDest(q, n.to)
<1> DEFINE dest == r.dest
<1>1. r.ignoreDirection = q.ignoreDirection /\ r.relevant = q.relevant
  OBVIOUS
<1>2. /\ IsPositiveMovement(m, r, p) = IsPositiveMovement(m, q, p)
      /\ IsNegativeMovement(m, r, p) = IsNegativeMovement(m, q, p)
  BY <1>1 DEF IsPositiveMovement, IsNegativeMovement
<1>3. LongitudinalNeighbors(m, r, p) = LongitudinalNeighbors(m, q, p)
  BY <1>1, <1>2 DEF LongitudinalNeighbors, LongitudinalContacts
<1>4. LateralNeighbors(m, r, p) = LateralNeighbors(m, q, p)
  BY <1>1 DEF LateralNeighbors
<1>5. LaneEndsAhead(m, r, p) = LaneEndsAhead(m, q, p)
  BY <1>2 DEF LaneEndsAhead
<1>6. CASE s \in LongitudinalNeighbors(m, r, p) \cup LateralNeighbors(m, r, p)
  BY <1>3, <1>4, <1>6 DEF NeighborsOf
<1>7. CASE s \in {Neighbor(m, p, At(p, e)) : e \in LaneEndsAhead(m, r, p)}
  BY <1>5, <1>7 DEF NeighborsOf, SameLaneNeighbors
<1>8. CASE s = Neighbor(m, p, dest) /\ ReachesDest(m, r, p)
  <2> DEFINE n == Neighbor(m, p, q.dest)
  <2>1. dest.lane = q.dest.lane /\ dest.offset = q.dest.offset
    BY DEF IsDest, ParaPoint
  <2>2. ReachesDest(m, q, p)
    BY <1>1, <1>2, <1>8, <2>1 DEF ReachesDest
  <2>3. n \in NeighborsOf(m, q, p)
    BY <2>2 DEF NeighborsOf, SameLaneNeighbors
  <2>4. n.distance = s.distance
    BY <1>8, <2>1 DEF Neighbor
  <2>5. n.to = q.dest /\ s.to = dest
    BY <1>8 DEF Neighbor
  <2>6. IsDest(q, q.dest)
    BY DEF IsDest
  <2> HIDE DEF n
  <2> QED
    BY <2>1, <2>3, <2>4, <2>5, <2>6
<1> QED
  BY <1>6, <1>7, <1>8 DEF NeighborsOf, SameLaneNeighbors

\* A query that differs from the one of the search at most in the point that
\* has taken the place of the destination.
AsksTheSame(q) ==
  /\ q.start = query.start /\ q.ignoreDirection = query.ignoreDirection
  /\ q.relevant = query.relevant
  /\ q.maxDistance = query.maxDistance /\ q.maxDuration = query.maxDuration
  /\ q.dest = query.dest \/ IsDest(query, q.dest)

\* No open point promises a way for less than the bound.
NoWayBelow(g, bound) ==
  \A o \in DOMAIN open : bound <= g[o] + CostEstimate(map, query, o)

\* What lies ahead of every open point is out of a search's reach for less
\* than the bound.
LEMMA NothingIsNearer ==
  ASSUME PlanningInv, WaysInv, EndsMeet, DurationsInLimit, outcome = "searching",
         query.maxDistance \in Nat,
         NEW g, PricedBy(g), FrontierAt(g),
         NEW bound \in Nat, NoWayBelow(g, bound),
         NEW q, AsksTheSame(q), NEW N \in Nat, NEW W, LeastTables(W, map, q, N)
  PROVE  \A r \in DOMAIN W[N] :
           \/ r \in closed /\ g[r] <= W[N][r]
           \/ bound <= W[N][r] + CostEstimate(map, query, r)
<1> DEFINE H(o) == CostEstimate(map, query, o)
           K == closed \cup DOMAIN open
           Out(n) == \A r \in DOMAIN W[n] :
                       \/ r \in closed /\ g[r] <= W[n][r]
                       \/ bound <= W[n][r] + H(r)
           S == { n \in 0 .. N : Out(n) }
<1>1. /\ q.start = query.start /\ (q.dest = query.dest \/ IsDest(query, q.dest))
      /\ q.ignoreDirection = query.ignoreDirection /\ q.relevant = query.relevant
      /\ q.maxDistance = query.maxDistance /\ q.maxDuration = query.maxDuration
  BY DEF AsksTheSame
<1>2. /\ query.dest \in RoutingPoints(map) /\ K \subseteq RoutingPoints(map)
      /\ {"start", "dest", "ignoreDirection", "relevant"} \subseteq DOMAIN query
      /\ map.at \in [map.lanes -> [Offsets -> Int \X Int]]
  BY DEF PlanningInv, TypeOK, WaysInv
<1>3. g \in [K -> Nat]
  BY DEF PricedBy
<1>4. \A o \in RoutingPoints(map) : H(o) \in Nat
  <2>1. ASSUME NEW o \in RoutingPoints(map) PROVE H(o) \in Nat
    <3>1. /\ o.lane \in map.lanes /\ o.offset \in Offsets
          /\ query.dest.lane \in map.lanes /\ query.dest.offset \in Offsets
      BY <1>2 DEF RoutingPoints
    <3> QED
      BY <1>2, <3>1, DistancesAreNatural DEF CostEstimate
  <2> QED
    BY <2>1
<1>5. /\ W \in [0 .. N -> DistanceTables(map)]
      /\ W[0] = [p \in StartPoints(q) |-> 0]
      /\ \A n \in 1 .. N : Nearer(map, q, W[n-1], W[n])
  BY Zenon DEF LeastTables
<1>6. \A n \in 0 .. N : /\ DOMAIN W[n] \subseteq RoutingPoints(map)
                        /\ \A r \in DOMAIN W[n] : W[n][r] \in Nat
  BY <1>5 DEF DistanceTables
<1>7. 0 \in S
  <2>1. ASSUME NEW r \in DOMAIN W[0]
        PROVE  \/ r \in closed /\ g[r] <= W[0][r]
               \/ bound <= W[0][r] + H(r)
    <3>1. r \in StartPoints(q) /\ W[0][r] = 0
      BY <1>5, <2>1
    <3>2. r \in StartPoints(query)
      BY <1>1, <3>1, Zenon DEF StartPoints
    <3>3. r \in K /\ g[r] = 0
      BY <3>2 DEF PricedBy
    <3> QED
      BY <3>1, <3>3 DEF NoWayBelow
  <2> QED
    BY <2>1
<1> HIDE DEF H
<1>8. ASSUME NEW n \in 0 .. N - 1, n \in S PROVE n + 1 \in S
  <2> DEFINE before == W[n]
             after == W[n + 1]
  <2>1. n + 1 \in 0 .. N /\ n + 1 \in 1 .. N /\ (n + 1) - 1 = n /\ n \in 0 .. N
    OBVIOUS
  <2>2. Nearer(map, q, before, after)
    BY <1>5, <2>1, Zenon
  <2>3. Out(n)
    BY <1>8
  <2>4. ASSUME NEW r \in DOMAIN after
        PROVE  \/ r \in closed /\ g[r] <= after[r]
               \/ bound <= after[r] + H(r)
    <3>1. CASE r \in DOMAIN before /\ after[r] = before[r]
      BY <2>3, <3>1
    <3>2. CASE StepFrom(map, q, before, r, after[r])
      <4>1. PICK p \in DOMAIN before :
              \E s \in ExpandNeighbors(map, q, p, [distance |-> before[p], duration |-> 0]) :
                s.to = r /\ after[r] = before[p] + s.distance
        BY <3>2 DEF StepFrom
      <4>2. PICK s \in ExpandNeighbors(map, q, p, [distance |-> before[p], duration |-> 0]) :
              s.to = r /\ after[r] = before[p] + s.distance
        BY <4>1
      <4>3. /\ s \in NeighborsOf(map, q, p)
            /\ MayExpand(map, q, p, [distance |-> before[p], duration |-> 0])
        BY <4>2 DEF ExpandNeighbors, NeighborsOf
      <4>4. PICK k \in NeighborsOf(map, query, p) :
              /\ k.distance = s.distance
              /\ k.to.lane = s.to.lane /\ k.to.offset = s.to.offset
              /\ k.to = s.to \/ IsDest(query, k.to)
        BY <1>1, <4>3, StepsWithOtherDest
      <4>5. p \in RoutingPoints(map) /\ before[p] \in Nat
        BY <1>6, <2>1
      <4>6. k.to \in RoutingPoints(map)
        BY <1>2, <4>5, NeighborsAreOnTheMap DEF NeighborsOf
      <4>7. /\ k.distance \in Nat
            /\ H(p) <= k.distance + H(k.to)
            /\ H(p) \in Nat /\ H(k.to) \in Nat
        <5>1. \A j \in LongitudinalNeighbors(map, query, p) :
                CentreDistance(map, p.lane, p.offset, j.to.lane, j.to.offset) <= MinDistance
          BY <4>5 DEF EndsMeet, LanesMeet
        <5> QED
          BY <1>2, <4>5, <5>1, EstimatesAreConsistent, StepsCost DEF H
      <4>8. H(k.to) = H(r)
        BY <4>2, <4>4 DEF H, CostEstimate
      <4>9. CASE bound <= before[p] + H(p)
        BY <4>2, <4>4, <4>5, <4>7, <4>8, <4>9
      <4>10. CASE p \in closed /\ g[p] <= before[p]
        <5>1. g[p] \in Nat
          BY <1>3, <4>10
        <5>2. MayExpand(map, query, p, CostTo(g, p))
          <6> DEFINE a == [distance |-> before[p], duration |-> 0]
          <6>1. a.distance = before[p] /\ a.duration = 0
            OBVIOUS
          <6>2. CostTo(g, p).distance = g[p] /\ CostTo(g, p).duration = 0
            BY DEF CostTo
          <6>3. MayExpand(map, q, p, a)
            BY <4>3
          <6> HIDE DEF a
          <6>4. MayExpand(map, query, p, a)
            BY <1>1, <6>3 DEF MayExpand
          <6> QED
            BY <4>5, <4>10, <5>1, <6>1, <6>2, <6>4, CheaperMayExpand DEF DurationsInLimit
        <5>3. k.to \in K /\ g[k.to] <= g[p] + k.distance
          BY <4>10, <5>2 DEF FrontierAt, Explored
        <5>4. g[k.to] \in Nat
          BY <1>3, <5>3
        <5>5. g[k.to] <= after[r]
          BY <4>2, <4>4, <4>5, <4>7, <4>10, <5>1, <5>3, <5>4
        <5>6. CASE k.to \in DOMAIN open
          <6>1. bound <= g[k.to] + H(k.to)
            BY <5>6 DEF H, NoWayBelow
          <6>2. after[r] \in Nat
            BY <1>6, <2>1
          <6> QED
            BY <4>7, <4>8, <5>4, <5>5, <6>1, <6>2
        <5>7. CASE k.to \in closed
          <6>1. k.to = r
            BY <4>2, <4>4, <5>7 DEF WaysInv
          <6> QED
            BY <5>5, <5>7, <6>1
        <5> QED
          BY <5>3, <5>6, <5>7
      <4> QED
        BY <2>3, <4>9, <4>10
    <3> QED
      BY <2>2, <3>1, <3>2 DEF Nearer
  <2> QED
    BY <2>1, <2>4
<1>9. \A n \in 0 .. N : n \in S
  <2> HIDE DEF S
  <2> QED
    BY <1>7, <1>8, UpFromZero
<1>10. N \in S
  BY <1>9
<1> QED
  BY <1>10 DEF H

\* The point reached is the destination only to where the search ends.
LEMMA ReachedIsDest ==
  ASSUME NEW q, "dest" \in DOMAIN q, NEW p, IsDest(q, p),
         NEW r, IsDest([q EXCEPT !.dest = p], r)
  PROVE  IsDest(q, r)
BY DEF IsDest, ParaPoint

\* A way that was found is among the ways that are compared.
LEMMA WayIsCompared ==
  ASSUME PlanningInv, WaysInv, outcome = "searching", DurationsInLimit,
         query.maxDistance \in Nat, {"maxDistance", "maxDuration"} \subseteq DOMAIN query,
         NEW g, PricedBy(g), FrontierAt(g),
         NEW p \in DOMAIN open, IsDest(query, p),
         NEW N \in Nat, N = Cardinality(RoutingPoints(map)),
         NEW W, LeastTables(W, map, [query EXCEPT !.dest = p], N)
  PROVE  p \in DOMAIN W[N] /\ W[N][p] <= g[p]
<1> DEFINE q == [query EXCEPT !.dest = p]
           K == closed \cup DOMAIN open
           w == WayTo(cameFrom, p)
           L == Len(w)
<1>1. /\ q.start = query.start /\ q.dest = p
      /\ q.ignoreDirection = query.ignoreDirection /\ q.relevant = query.relevant
      /\ q.maxDistance = query.maxDistance /\ q.maxDuration = query.maxDuration
  BY DEF PlanningInv, TypeOK
<1>2. /\ p \in RoutingPoints(map) /\ K \subseteq RoutingPoints(map)
      /\ {"start", "dest", "ignoreDirection", "relevant"} \subseteq DOMAIN query
      /\ map.at \in [map.lanes -> [Offsets -> Int \X Int]]
      /\ IsFiniteSet(map.lanes)
  BY DEF PlanningInv, TypeOK, WaysInv
<1>3. g \in [K -> Nat] /\ p \in K
  BY DEF PricedBy
<1>4. CostsAlong(g, p, w) /\ \A i, j \in 1 .. L : i < j => w[i] # w[j]
  BY ReachedWay
<1>5. \A r : IsDest(q, r) => IsDest(query, r)
  BY <1>2, ReachedIsDest
<1>6. /\ W \in [0 .. N -> DistanceTables(map)]
      /\ W[0] = [r \in StartPoints(q) |-> 0]
      /\ \A n \in 1 .. N : Nearer(map, q, W[n-1], W[n])
  BY Zenon DEF LeastTables
<1>7. \A n \in 0 .. N : \A r \in DOMAIN W[n] : W[n][r] \in Nat
  BY <1>6 DEF DistanceTables
<1> HIDE DEF w
<1>8. /\ L \in Nat /\ L >= 1 /\ w[L] = p
      /\ \A i \in 1 .. L : w[i] \in K
      /\ w[1] \in StartPoints(query) /\ g[w[1]] = 0
  BY <1>4 DEF CostsAlong
<1>9. L <= N
  <2> DEFINE f == [i \in 1 .. L |-> w[i]]
  <2>1. f \in [1 .. L -> RoutingPoints(map)]
    BY <1>2, <1>8
  <2>2. ASSUME NEW i \in 1 .. L, NEW j \in 1 .. L, w[i] = w[j] PROVE i = j
    <3>1. ~ (i < j) /\ ~ (j < i)
      BY <1>4, <2>2
    <3> QED
      BY <1>8, <3>1
  <2>3. f \in Injection(1 .. L, RoutingPoints(map))
    BY <2>1, <2>2 DEF Injection, IsInjective
  <2>4. Cardinality(1 .. L) <= Cardinality(RoutingPoints(map))
    <3>1. IsFiniteSet(RoutingPoints(map))
      BY <1>2, FinitelyManyPoints
    <3> HIDE DEF f
    <3> QED
      BY <2>3, <3>1, FS_Injection
  <2>5. Cardinality(1 .. L) = L
    BY <1>8, FS_Interval
  <2> QED
    BY <2>4, <2>5
<1> HIDE DEF q, L
<1> DEFINE Near(n, r) == r \in DOMAIN W[n] /\ W[n][r] <= g[r]
           S == { i \in 0 .. L - 1 : Near(i, w[i+1]) }
           T == { k \in 0 .. N - (L - 1) : Near((L - 1) + k, p) }
<1>10. 0 \in S
  <2>1. w[1] \in StartPoints(q)
    BY <1>1, <1>8, Zenon DEF StartPoints
  <2>2. Near(0, w[1])
    BY <1>6, <1>8, <2>1
  <2> QED
    BY <1>8, <2>2
<1>11. ASSUME NEW i \in 0 .. L - 2, i \in S PROVE i + 1 \in S
  <2> DEFINE j == i + 1
             before == W[i]
             after == W[j]
  <2>1. /\ j \in 1 .. L - 1 /\ j \in 1 .. N /\ j - 1 = i /\ i \in 0 .. N /\ j \in 0 .. N
        /\ j \in 0 .. L - 1 /\ j \in 1 .. L
    BY <1>8, <1>9
  <2> HIDE DEF j
  <2>2. /\ w[j+1] \in DOMAIN cameFrom /\ cameFrom[w[j+1]] = w[j] /\ w[j] \in closed
        /\ \E n \in StepsTo(map, q, w[j], w[j+1]) : g[w[j+1]] = g[w[j]] + n.distance
    BY <1>4, <2>1, Zenon DEF CostsAlong, q, L
  <2>3. PICK n \in StepsTo(map, q, w[j], w[j+1]) : g[w[j+1]] = g[w[j]] + n.distance
    BY <2>2
  <2> DEFINE r == w[j]
             t == w[j+1]
  <2>4. r \in DOMAIN before /\ before[r] <= g[r] /\ before[r] \in Nat /\ g[r] \in Nat
    BY <1>3, <1>7, <1>8, <1>11, <2>1 DEF j
  <2>5. n \in NeighborsOf(map, q, r) /\ n.to = t
    BY DEF StepsTo, NeighborsOf
  <2>6. n.distance \in Nat
    <3>1. r \in RoutingPoints(map)
      BY <1>2, <2>2
    <3> QED
      BY <1>1, <1>2, <2>5, <3>1, StepsCost
  <2>7. ~ IsDest(q, r)
    BY <1>5, <2>2 DEF WaysInv
  <2> DEFINE cost == [distance |-> before[r], duration |-> 0]
  <2>8. MayExpand(map, q, r, cost)
    <3>1. MayExpand(map, query, r, CostTo(g, r))
      BY <2>2 DEF FrontierAt
    <3>2. cost.distance = before[r] /\ cost.duration = 0
      OBVIOUS
    <3>3. CostTo(g, r).distance = g[r]
      BY DEF CostTo
    <3> HIDE DEF cost
    <3>4. MayExpand(map, query, r, cost)
      BY <2>4, <3>1, <3>2, <3>3, CheaperMayExpand DEF DurationsInLimit
    <3> QED
      BY <1>1, <3>4 DEF MayExpand
  <2>9. n \in ExpandNeighbors(map, q, r, cost)
    BY <2>5, <2>8 DEF ExpandNeighbors, NeighborsOf
  <2>10. StepFrom(map, q, before, t, before[r] + n.distance)
    BY <2>4, <2>5, <2>7, <2>9, Zenon DEF StepFrom
  <2>11. Nearer(map, q, before, after)
    BY <1>6, <2>1, Zenon
  <2>12. t \in DOMAIN after /\ after[t] <= before[r] + n.distance
    BY <2>10, <2>11, Zenon DEF Nearer
  <2>13. after[t] \in Nat
    BY <1>7, <2>1, <2>12
  <2>14. Near(j, t)
    BY <2>3, <2>4, <2>6, <2>12, <2>13
  <2> HIDE DEF Near, t
  <2>15. j \in S
    BY <2>1, <2>14 DEF t
  <2> QED
    BY <2>15 DEF j
<1>12. L - 1 \in S
  <2>1. \A i \in 0 .. L - 1 : i \in S
    <3> HIDE DEF S
    <3>1. \A i \in 0 .. (L - 1) - 1 : i \in S => i + 1 \in S
      BY <1>8, <1>11
    <3> QED
      BY <1>8, <1>10, <3>1, UpFromZero
  <2> QED
    BY <1>8, <2>1
<1>13. Near(L - 1, p)
  <2>1. (L - 1) + 1 = L
    BY <1>8
  <2> HIDE DEF Near
  <2> QED
    BY <1>8, <1>12, <2>1
<1>14. 0 \in T
  <2>1. (L - 1) + 0 = L - 1 /\ N - (L - 1) \in Nat
    BY <1>8, <1>9
  <2> HIDE DEF Near
  <2> QED
    BY <1>13, <2>1
<1>15. ASSUME NEW k \in 0 .. (N - (L - 1)) - 1, k \in T PROVE k + 1 \in T
  <2> DEFINE i == (L - 1) + k
             before == W[i]
             after == W[i + 1]
  <2>1. /\ i \in 0 .. N /\ i + 1 \in 1 .. N /\ i + 1 \in 0 .. N /\ (i + 1) - 1 = i
        /\ (L - 1) + (k + 1) = i + 1 /\ k + 1 \in 0 .. N - (L - 1)
    BY <1>8, <1>9
  <2>2. p \in DOMAIN before /\ before[p] <= g[p]
    BY <1>15
  <2> HIDE DEF i
  <2>3. Nearer(map, q, before, after)
    BY <1>6, <2>1, Zenon
  <2>4. p \in DOMAIN after /\ after[p] <= before[p]
    BY <2>2, <2>3 DEF Nearer
  <2>5. before[p] \in Nat /\ after[p] \in Nat /\ g[p] \in Nat
    BY <1>3, <1>7, <2>1, <2>2, <2>4
  <2>6. Near(i + 1, p)
    BY <2>2, <2>4, <2>5
  <2> HIDE DEF Near
  <2> QED
    BY <2>1, <2>6
<1>16. N - (L - 1) \in T
  <2>1. N - (L - 1) \in Nat
    BY <1>8, <1>9
  <2>2. \A k \in 0 .. N - (L - 1) : k \in T
    <3> HIDE DEF T
    <3> QED
      BY <1>14, <1>15, <2>1, UpFromZero
  <2> QED
    BY <2>1, <2>2
<1>17. (L - 1) + (N - (L - 1)) = N
  BY <1>8
<1>18. Near(N, p)
  <2> HIDE DEF Near
  <2> QED
    BY <1>16, <1>17
<1> QED
  BY <1>18

\* Nothing is estimated where the search ends.
LEMMA NoEstimateAtDest ==
  ASSUME NEW m, m.at \in [m.lanes -> [Offsets -> Int \X Int]], NEW q,
         q.dest \in RoutingPoints(m), NEW r, IsDest(q, r)
  PROVE  CostEstimate(m, q, r) = 0
<1>1. r.lane = q.dest.lane /\ r.offset = q.dest.offset
  BY DEF IsDest, ParaPoint
<1>2. q.dest.lane \in m.lanes /\ q.dest.offset \in Offsets
  BY DEF RoutingPoints
<1> QED
  BY <1>1, <1>2, DistancesAreNatural DEF CostEstimate

\* The destination is where the search ends, also when a point has taken its
\* place.
LEMMA SameDest ==
  ASSUME NEW q, AsksTheSame(q), NEW r, IsDest(q, r)
  PROVE  IsDest(query, r)
BY DEF AsksTheSame, IsDest, ParaPoint

\* What a search compares itself with when it ends: the last of the tables,
\* where no way to the destination is shorter than the bound.
IsCompared(q, bound, N) ==
  \E W : /\ LeastTables(W, map, q, N)
         /\ LeastDistancesTo(map, q) = W[N]
         /\ \A r \in DOMAIN W[N] :
              W[N][r] \in Nat /\ (IsDest(q, r) => bound <= W[N][r])

LEMMA EndIsCompared ==
  ASSUME PlanningInv, WaysInv, EndsMeet, DurationsInLimit, outcome = "searching",
         query.maxDistance \in Nat, NEW g, PricedBy(g), FrontierAt(g),
         NEW q, AsksTheSame(q), q.dest \in RoutingPoints(map),
         NEW bound \in Nat, NoWayBelow(g, bound),
         NEW N, N = Cardinality(RoutingPoints(map))
  PROVE  N \in Nat /\ IsCompared(q, bound, N)
<1>1. /\ query.start \in RoutingPoints(map) /\ query.dest \in RoutingPoints(map)
      /\ map.at \in [map.lanes -> [Offsets -> Int \X Int]]
      /\ IsFiniteSet(map.lanes)
  BY DEF PlanningInv, TypeOK, WaysInv
<1>2. StartPoints(q) \subseteq RoutingPoints(map)
  <2>1. q.start \in RoutingPoints(map)
    BY <1>1 DEF AsksTheSame
  <2> QED
    BY <2>1, StartsAreOnTheMap
<1>3. N \in Nat /\ \E W : LeastTables(W, map, q, N) /\ LeastDistancesTo(map, q) = W[N]
  BY <1>1, <1>2, LeastDistancesAreRepeated
<1>4. PICK W : LeastTables(W, map, q, N) /\ LeastDistancesTo(map, q) = W[N]
  BY <1>3
<1>5. \A r \in DOMAIN W[N] :
        \/ r \in closed /\ g[r] <= W[N][r]
        \/ bound <= W[N][r] + CostEstimate(map, query, r)
  BY <1>3, <1>4, NothingIsNearer
<1>6. ASSUME NEW r \in DOMAIN W[N]
      PROVE  W[N][r] \in Nat /\ (IsDest(q, r) => bound <= W[N][r])
  <2>1. W[N][r] \in Nat
    <3>1. W \in [0 .. N -> DistanceTables(map)]
      BY <1>4, Zenon DEF LeastTables
    <3>2. W[N] \in DistanceTables(map)
      BY <1>3, <3>1
    <3> QED
      BY <3>2 DEF DistanceTables
  <2>2. ASSUME IsDest(q, r) PROVE bound <= W[N][r]
    <3>1. IsDest(query, r)
      BY <2>2, SameDest
    <3>2. r \notin closed
      BY <3>1 DEF WaysInv
    <3>3. CostEstimate(map, query, r) = 0
      BY <1>1, <3>1, NoEstimateAtDest
    <3> QED
      BY <1>5, <2>1, <3>2, <3>3
  <2> QED
    BY <2>1, <2>2
<1> QED
  BY <1>3, <1>4, <1>6, Zenon DEF IsCompared

LEMMA ReachIsShortest ==
  ASSUME PlanningInv, WaysInv, FrontierInv, EndsMeet, DurationsInLimit,
         NEW p \in DOMAIN open, Reach(p), UNCHANGED planVars
  PROVE  ShortestRouteIsFound'
<1> DEFINE q == [query EXCEPT !.dest = p]
           H(o) == CostEstimate(map, query, o)
<1>1. /\ outcome = "searching" /\ outcome' = "found" /\ IsDest(query, p) /\ IsCheapest(open, p)
      /\ rawRoute'.distance = open[p].distance
      /\ query' = q /\ map' = map
  BY DEF Reach
<1>2. /\ query.maxDistance \in Nat /\ {"maxDistance", "maxDuration"} \subseteq DOMAIN query
      /\ p \in RoutingPoints(map) /\ query.dest \in RoutingPoints(map)
      /\ map.at \in [map.lanes -> [Offsets -> Int \X Int]]
  BY DEF FrontierInv, PlanningInv, TypeOK, WaysInv
<1>3. PICK g : PricedBy(g) /\ FrontierAt(g)
  BY <1>1 DEF FrontierInv
<1>4. g[p] \in Nat /\ g[p] = open[p].distance
  BY <1>3 DEF PricedBy
<1>5. H(p) = 0
  BY <1>1, <1>2, NoEstimateAtDest
<1> DEFINE N == Cardinality(RoutingPoints(map))
<1>0. AsksTheSame(q) /\ q.dest = p
  BY <1>1, <1>2 DEF AsksTheSame, PlanningInv, TypeOK
<1> HIDE DEF q, H, N
<1>6. ASSUME NEW o \in DOMAIN open PROVE g[p] <= g[o] + H(o)
  <2>1. open[p].estimate <= open[o].estimate
    BY <1>1 DEF IsCheapest
  <2>2. open[p].estimate = g[p] + H(p) /\ open[o].estimate = g[o] + H(o)
    BY <1>3 DEF FrontierAt, H
  <2> QED
    BY <1>4, <1>5, <2>1, <2>2
<1>7. N \in Nat /\ IsCompared(q, g[p], N)
  <2>1. NoWayBelow(g, g[p])
    BY <1>6 DEF H, NoWayBelow
  <2>2. N = Cardinality(RoutingPoints(map)) /\ q.dest \in RoutingPoints(map)
    BY <1>0, <1>2 DEF N
  <2>3. outcome = "searching" /\ query.maxDistance \in Nat /\ g[p] \in Nat
    BY <1>1, <1>2, <1>4
  <2> QED
    BY <1>0, <1>3, <2>1, <2>2, <2>3, EndIsCompared
<1>13. PICK W : /\ LeastTables(W, map, q, N)
                /\ LeastDistancesTo(map, q) = W[N]
                /\ \A r \in DOMAIN W[N] :
                     W[N][r] \in Nat /\ (IsDest(q, r) => g[p] <= W[N][r])
  BY <1>7, Zenon DEF IsCompared
<1>8. p \in DOMAIN W[N] /\ W[N][p] <= g[p]
  BY <1>1, <1>2, <1>3, <1>7, <1>13, WayIsCompared DEF q, N
<1>9. IsDest(q, p)
  BY <1>0 DEF IsDest
<1> DEFINE D == {W[N][r] : r \in {o \in DOMAIN W[N] : IsDest(q, o)}}
<1>10. LeastDistances' = D
  <2>1. LeastDistancesTo(map', query') = W[N]
    BY <1>1, <1>13
  <2> QED
    BY <1>1, <2>1, Zenon DEF LeastDistances
<1>11. /\ D \subseteq Nat /\ g[p] \in D
       /\ \A x \in D : g[p] <= x
  <2>1. W[N][p] = g[p]
    BY <1>4, <1>8, <1>9, <1>13
  <2> QED
    BY <1>8, <1>9, <1>13, <2>1
<1> HIDE DEF D
<1>12. Min(D) = g[p]
  <2>1. Min(D) \in D /\ \A x \in D : Min(D) <= x
    BY <1>11, MinOfNaturals
  <2>2. Min(D) <= g[p] /\ g[p] <= Min(D) /\ Min(D) \in Nat
    BY <1>11, <2>1
  <2> DEFINE x == Min(D)
  <2> HIDE DEF x
  <2>3. x = g[p]
    BY <1>4, <2>2 DEF x
  <2> QED
    BY <2>3 DEF x
<1> QED
  BY <1>1, <1>4, <1>10, <1>11, <1>12 DEF ShortestRouteIsFound

LEMMA GivesUpRightly ==
  ASSUME PlanningInv, WaysInv, FrontierInv, EndsMeet, DurationsInLimit,
         GiveUp, UNCHANGED planVars
  PROVE  ShortestRouteIsFound'
<1>1. /\ outcome = "searching" /\ outcome' = "notFound" /\ DOMAIN open = {}
      /\ query' = query /\ map' = map
  BY EmptyTable DEF GiveUp
<1>2. /\ query.maxDistance \in Nat /\ {"maxDistance", "maxDuration"} \subseteq DOMAIN query
      /\ query.dest \in RoutingPoints(map)
  BY DEF FrontierInv, PlanningInv, TypeOK
<1>3. PICK g : PricedBy(g) /\ FrontierAt(g)
  BY <1>1 DEF FrontierInv
<1>4. AsksTheSame(query)
  BY DEF AsksTheSame
<1>5. ASSUME NEW bound \in Nat, NEW r \in DOMAIN LeastDistancesTo(map, query), IsDest(query, r)
      PROVE  LeastDistancesTo(map, query)[r] \in Nat /\ bound <= LeastDistancesTo(map, query)[r]
  <2> DEFINE N == Cardinality(RoutingPoints(map))
  <2>1. N = Cardinality(RoutingPoints(map))
    OBVIOUS
  <2> HIDE DEF N
  <2>2. PICK W : /\ LeastDistancesTo(map, query) = W[N]
                 /\ \A s \in DOMAIN W[N] :
                      W[N][s] \in Nat /\ (IsDest(query, s) => bound <= W[N][s])
    <3>1. NoWayBelow(g, bound)
      BY <1>1 DEF NoWayBelow
    <3>2. IsCompared(query, bound, N)
      BY <1>1, <1>2, <1>3, <1>4, <2>1, <3>1, EndIsCompared
    <3> QED
      BY <3>2, Zenon DEF IsCompared
  <2> QED
    BY <1>5, <2>2
<1>6. \A r \in DOMAIN LeastDistancesTo(map, query) : ~ IsDest(query, r)
  <2> SUFFICES ASSUME NEW r \in DOMAIN LeastDistancesTo(map, query), IsDest(query, r) PROVE FALSE
    OBVIOUS
  <2> DEFINE d == LeastDistancesTo(map, query)[r]
  <2>1. d \in Nat
    BY <1>5
  <2>2. d + 1 <= d
    BY <1>5, <2>1
  <2> QED
    BY <2>1, <2>2
<1>7. LeastDistances' = {}
  BY <1>1, <1>6 DEF LeastDistances
<1> QED
  BY <1>1, <1>7 DEF ShortestRouteIsFound

\* At its start a search has only its start points ahead.
LEMMA StartsAreAhead ==
  ASSUME NEW m, m.at \in [m.lanes -> [Offsets -> Int \X Int]], NEW q,
         q.start \in RoutingPoints(m), q.dest \in RoutingPoints(m),
         NEW o \in DOMAIN StartOpen(m, q)
  PROVE  /\ StartOpen(m, q)[o].distance = 0
         /\ StartOpen(m, q)[o].estimate = 0 + CostEstimate(m, q, o)
<1> DEFINE H == CostEstimate(m, q, o)
<1>1. o \in StartPoints(q) /\ o \in RoutingPoints(m)
  BY StartsAreOnTheMap
<1>2. /\ o.lane \in m.lanes /\ o.offset \in Offsets
      /\ q.dest.lane \in m.lanes /\ q.dest.offset \in Offsets
  BY <1>1 DEF RoutingPoints
<1>3. H \in Nat
  BY <1>2, DistancesAreNatural DEF CostEstimate
<1>4. StartOpen(m, q)[o] = [distance |-> 0, duration |-> 0, estimate |-> H]
  BY <1>1 DEF StartOpen
<1> HIDE DEF H
<1>5. StartOpen(m, q)[o].distance = 0 /\ StartOpen(m, q)[o].estimate = H
  BY <1>4
<1>6. 0 + H = H
  BY <1>3
<1> QED
  BY <1>5, <1>6 DEF H

LEMMA InitFrontier == Init => FrontierInv
<1> SUFFICES ASSUME Init PROVE FrontierInv
  OBVIOUS
<1>1. PICK m \in Maps :
        \E r \in {Resolved(m, a) : a \in Requests(m)} :
          SearchInit(m, QueryOf(r, r.start, 1)) /\ request = r
  BY DEF Init
<1>2. PICK a \in Requests(m) :
        /\ SearchInit(m, QueryOf(Resolved(m, a), Resolved(m, a).start, 1))
        /\ request = Resolved(m, a)
  BY <1>1
<1> DEFINE r == Resolved(m, a)
<1>3. /\ r.start \in RoutingPoints(m) /\ r.maxDistance \in Nat
      /\ \A i \in DOMAIN r.dests : r.dests[i] \in RoutingPoints(m)
      /\ m.at \in [m.lanes -> [Offsets -> Int \X Int]]
  BY RequestAssumption
<1> HIDE DEF r
<1>4. /\ map = m /\ query = QueryOf(r, r.start, 1) /\ request = r
      /\ open = StartOpen(m, query) /\ closed = {} /\ DOMAIN cameFrom = {}
  BY <1>2, EmptyTable DEF SearchInit, r
<1>5. query.start \in RoutingPoints(m) /\ query.dest \in RoutingPoints(m)
  <2>1. /\ {"start", "dest", "ignoreDirection", "relevant"} \subseteq DOMAIN QueryOf(r, r.start, 1)
        /\ QueryOf(r, r.start, 1).start = r.start
        /\ QueryOf(r, r.start, 1).dest \in RoutingPoints(m)
    BY <1>3, QueriesAreOnTheMap
  <2> QED
    BY <1>3, <1>4, <2>1
<1>6. {"maxDistance", "maxDuration"} \subseteq DOMAIN query /\ query.maxDistance = r.maxDistance
  BY <1>4 DEF QueryOf
<1> DEFINE g == [o \in StartPoints(query) |-> 0]
<1>7. /\ DOMAIN open = StartPoints(query)
      /\ \A o \in DOMAIN open :
           open[o].distance = 0 /\ open[o].estimate = 0 + CostEstimate(map, query, o)
  BY <1>3, <1>4, <1>5, StartsAreAhead, StartsAreOnTheMap
<1>8. g \in [StartPoints(query) -> Nat] /\ \A o \in StartPoints(query) : g[o] = 0
  OBVIOUS
<1> HIDE DEF g
<1>9. PricedBy(g)
  BY <1>4, <1>7, <1>8 DEF PricedBy
<1>10. FrontierAt(g)
  BY <1>4, <1>7, <1>8 DEF FrontierAt, Ordered, Explored
<1> QED
  BY <1>3, <1>4, <1>6, <1>9, <1>10 DEF FrontierInv

LEMMA NewSearchKeepsFrontier ==
  ASSUME PlanningInv, WaysInv, FrontierInv, outcome \in {"found", "notFound"},
         NEW start \in RoutingPoints(map), NEW n, NewSearch(QueryOf(request, start, n)),
         request' = request
  PROVE  FrontierInv'
<1> DEFINE q == QueryOf(request, start, n)
<1>1. /\ map' = map /\ query' = q /\ open' = StartOpen(map, q)
      /\ closed' = {} /\ DOMAIN cameFrom' = {}
  BY DEF NewSearch
<1>2. map.at \in [map.lanes -> [Offsets -> Int \X Int]] /\ request.maxDistance \in Nat
  BY DEF WaysInv, FrontierInv
<1>3. q.start \in RoutingPoints(map) /\ q.dest \in RoutingPoints(map)
  <2>1. \A i \in DOMAIN request.dests : request.dests[i] \in RoutingPoints(map)
    BY DEF PlanningInv, TypeOK
  <2>2. /\ {"start", "dest", "ignoreDirection", "relevant"} \subseteq DOMAIN QueryOf(request, start, n)
        /\ QueryOf(request, start, n).start = start
        /\ QueryOf(request, start, n).dest \in RoutingPoints(map)
    BY <2>1, QueriesAreOnTheMap
  <2> QED
    BY <2>2
<1>4. {"maxDistance", "maxDuration"} \subseteq DOMAIN q /\ q.maxDistance = request.maxDistance
  BY DEF QueryOf
<1> HIDE DEF q
<1>5. /\ DOMAIN open' = StartPoints(q)
      /\ \A o \in DOMAIN open' :
           open'[o].distance = 0 /\ open'[o].estimate = 0 + CostEstimate(map, q, o)
  BY <1>1, <1>2, <1>3, StartsAreAhead, StartsAreOnTheMap
<1>6. PICK g : g \in [StartPoints(q) -> Nat] /\ \A o \in StartPoints(q) : g[o] = 0
  <2> DEFINE zero == [o \in StartPoints(q) |-> 0]
  <2>1. zero \in [StartPoints(q) -> Nat] /\ \A o \in StartPoints(q) : zero[o] = 0
    OBVIOUS
  <2> QED
    BY <2>1
<1>7. PricedBy(g)'
  BY <1>1, <1>5, <1>6 DEF PricedBy
<1>8. FrontierAt(g)'
  BY <1>1, <1>5, <1>6 DEF FrontierAt, Ordered, Explored
<1> QED
  BY <1>1, <1>2, <1>4, <1>7, <1>8 DEF FrontierInv

LEMMA SameFrontier ==
  ASSUME UNCHANGED searchVars, request' = request, FrontierInv, ShortestRouteIsFound,
         plan = None \/ plan' = plan
  PROVE  FrontierInv' /\ ShortestRouteIsFound'
<1>1. UNCHANGED <<map, query, open, closed, cameFrom, outcome, rawRoute>>
  BY DEF searchVars
<1>2. ASSUME NEW g, PricedBy(g), FrontierAt(g) PROVE PricedBy(g)' /\ FrontierAt(g)'
  <2>1. PricedBy(g)'
    BY <1>1, <1>2 DEF PricedBy
  <2>2. Ordered(g)'
    BY <1>1, <1>2 DEF FrontierAt, Ordered
  <2>3. Explored(g)'
    BY <1>1, <1>2 DEF FrontierAt, Explored
  <2> QED
    BY <1>1, <1>2, <2>1, <2>2, <2>3 DEF FrontierAt
<1>3. FrontierInv'
  BY <1>1, <1>2 DEF FrontierInv
<1>4. Searched' => Searched
  BY <1>1 DEF Searched
<1>5. LeastDistances' = LeastDistances
  BY <1>1 DEF LeastDistances
<1>6. ShortestRouteIsFound'
  BY <1>1, <1>4, <1>5 DEF ShortestRouteIsFound
<1> QED
  BY <1>3, <1>6

LEMMA NextKeepsFrontier ==
  ASSUME PlanningInv, WaysInv, FrontierInv, ShortestRouteIsFound, EndsMeet, DurationsInLimit,
         [Next]_vars
  PROVE  FrontierInv' /\ ShortestRouteIsFound'
<1>1. ASSUME NEW p \in DOMAIN open, Expand(p), UNCHANGED planVars
      PROVE  FrontierInv' /\ ShortestRouteIsFound'
  <2>1. outcome' = "searching"
    BY <1>1 DEF Expand
  <2>2. FrontierInv'
    BY <1>1, ExpandKeepsFrontier
  <2> QED
    BY <2>1, <2>2 DEF ShortestRouteIsFound, Searched
<1>2. ASSUME NEW p \in DOMAIN open, Reach(p), UNCHANGED planVars
      PROVE  FrontierInv' /\ ShortestRouteIsFound'
  <2>1. /\ query' = [query EXCEPT !.dest = p] /\ outcome' = "found" /\ request' = request
    BY <1>2 DEF Reach, planVars
  <2>2. FrontierInv'
    BY <2>1 DEF FrontierInv
  <2> QED
    BY <1>2, <2>2, ReachIsShortest
<1>3. ASSUME GiveUp, UNCHANGED planVars
      PROVE  FrontierInv' /\ ShortestRouteIsFound'
  <2>1. query' = query /\ outcome' = "notFound" /\ request' = request
    BY <1>3 DEF GiveUp, planVars
  <2>2. FrontierInv'
    BY <2>1 DEF FrontierInv
  <2> QED
    BY <1>3, <2>2, GivesUpRightly
<1>4. ASSUME NEW p, Throw(p) \/ BreakOff, request' = request
      PROVE  FrontierInv' /\ ShortestRouteIsFound'
  <2>1. query' = query /\ outcome' = "threw"
    BY <1>4 DEF Throw, BreakOff
  <2> QED
    BY <1>4, <2>1 DEF FrontierInv, ShortestRouteIsFound, Searched
<1>5. ASSUME NEW start \in RoutingPoints(map), NEW n, NewSearch(QueryOf(request, start, n)),
             outcome \in {"found", "notFound"}, request' = request
      PROVE  FrontierInv' /\ ShortestRouteIsFound'
  <2>1. outcome' = "searching"
    BY <1>5 DEF NewSearch
  <2>2. FrontierInv'
    BY <1>5, NewSearchKeepsFrontier
  <2> QED
    BY <2>1, <2>2 DEF ShortestRouteIsFound, Searched
<1>6. ASSUME NEW found, Stop(found), plan = None, request' = request
      PROVE  FrontierInv' /\ ShortestRouteIsFound'
  BY <1>6, SameFrontier DEF Stop
<1>7. CASE UNCHANGED vars
  <2>1. UNCHANGED searchVars /\ UNCHANGED plan /\ request' = request
    BY <1>7 DEF vars, planVars
  <2> QED
    BY <2>1, SameFrontier
<1>8. /\ request.start \in RoutingPoints(map)
      /\ query.start \in RoutingPoints(map) /\ query.dest \in RoutingPoints(map)
  BY DEF PlanningInv, TypeOK
<1>9. CASE NextDestination
  <2>1. outcome \in {"found", "notFound"} /\ request' = request /\ plan = None
    BY <1>9 DEF NextDestination
  <2>2. CASE leg < Len(request.dests)
    <3> DEFINE start == StartOfNextLeg
    <3>1. NewSearch(QueryOf(request, start, leg + 1))
      BY <1>9, <2>2 DEF NextDestination
    <3>2. start \in RoutingPoints(map)
      BY <1>8 DEF StartOfNextLeg
    <3> HIDE DEF start
    <3> QED
      BY <1>5, <2>1, <3>1, <3>2
  <2>3. CASE ~ (leg < Len(request.dests))
    BY <1>6, <1>9, <2>1, <2>3 DEF NextDestination
  <2> QED
    BY <2>2, <2>3
<1>10. CASE NextCandidate
  <2>1. outcome \in {"found", "notFound"} /\ request' = request /\ plan = None
    BY <1>10 DEF NextCandidate
  <2>2. CASE leg < Len(request.dests)
    <3>1. NewSearch(QueryOf(request, request.start, leg + 1))
      BY <1>10, <2>2 DEF NextCandidate
    <3> QED
      BY <1>5, <1>8, <2>1, <3>1
  <2>3. CASE ~ (leg < Len(request.dests))
    BY <1>6, <1>10, <2>1, <2>3 DEF NextCandidate
  <2> QED
    BY <2>2, <2>3
<1>11. CASE Search
  <2>1. request' = request
    BY <1>11 DEF Search, planVars
  <2> QED
    BY <1>1, <1>2, <1>3, <1>4, <1>11, <2>1 DEF Search, SearchNext
<1>12. CASE BreakOff
  <2>1. request' = request
    BY <1>12 DEF BreakOff, planVars
  <2> QED
    BY <1>4, <1>12, <2>1
<1> QED
  BY <1>7, <1>9, <1>10, <1>11, <1>12 DEF Next, Return

\* On every map whose lanes begin where the lanes before them end, and as long
\* as no way takes longer than is asked for: a route that was found is a
\* shortest one within the limit of distance, and none was found only where
\* there is none (RouteAstar::calculate).
THEOREM FoundRouteIsShortest ==
  Spec /\ [](EndsMeet /\ DurationsInLimit) => []ShortestRouteIsFound
<1>1. Init => ShortestRouteIsFound
  BY DEF Init, SearchInit, ShortestRouteIsFound, Searched
<1>2. PlanningInv /\ WaysInv /\ FrontierInv /\ ShortestRouteIsFound
        /\ (EndsMeet /\ DurationsInLimit) /\ [Next]_vars
        => FrontierInv' /\ ShortestRouteIsFound'
  BY NextKeepsFrontier
<1> QED
  BY <1>1, <1>2, InvHolds, WaysHold, InitFrontier, PTL DEF Spec

-----------------------------------------------------------------------------
(* Lists.                                                                    *)

\* A sequence, of whatever it holds.
IsList(s) == s \in Seq(ToSet(s))

\* A list is a function on 1 .. Len, and empty when its length is 0.
LEMMA ListProperties ==
  ASSUME NEW s, IsList(s)
  PROVE  /\ Len(s) \in Nat
         /\ DOMAIN s = 1 .. Len(s)
         /\ s = [i \in 1 .. Len(s) |-> s[i]]
         /\ s = << >> <=> Len(s) = 0
<1>1. Len(s) \in Nat /\ DOMAIN s = 1 .. Len(s) /\ s \in [1 .. Len(s) -> ToSet(s)]
  BY LenProperties DEF IsList
<1>2. s = << >> <=> Len(s) = 0
  BY <1>1, EmptySeq DEF IsList
<1> QED
  BY <1>1, <1>2

\* A sequence of a set is a list.
LEMMA SequencesAreLists ==
  ASSUME NEW S, NEW s \in Seq(S)
  PROVE  IsList(s)
<1>1. Len(s) \in Nat /\ DOMAIN s = 1 .. Len(s) /\ s \in [1 .. Len(s) -> S]
  BY LenProperties
<1>2. s \in [1 .. Len(s) -> ToSet(s)]
  BY <1>1 DEF ToSet
<1> QED
  BY <1>1, <1>2 DEF IsList

\* A function on 1 .. n is a list of length n.
LEMMA ListsAreFunctions ==
  ASSUME NEW n \in Nat, NEW f, f = [i \in 1 .. n |-> f[i]]
  PROVE  IsList(f) /\ Len(f) = n /\ DOMAIN f = 1 .. n
<1> DEFINE S == {f[i] : i \in 1 .. n}
<1>1. f \in [1 .. n -> S]
  OBVIOUS
<1>2. f \in Seq(S)
  BY <1>1
<1>3. IsList(f)
  BY <1>2, SequencesAreLists
<1>4. DOMAIN f = 1 .. n /\ Len(f) \in Nat /\ DOMAIN f = 1 .. Len(f)
  BY <1>1, <1>3, ListProperties
<1>5. Len(f) = n
  <2>1. CASE n = 0
    BY <1>4, <2>1
  <2>2. CASE n # 0
    BY <1>4, <2>2
  <2> QED
    BY <2>1, <2>2
<1> QED
  BY <1>3, <1>4, <1>5

\* What Append, \o, Tail, SubSeq and Reverse make of lists is a list.
LEMMA ListAppended ==
  ASSUME NEW s, IsList(s), NEW x
  PROVE  /\ IsList(Append(s, x))
         /\ Len(Append(s, x)) = Len(s) + 1
         /\ \A i \in 1 .. Len(s) : Append(s, x)[i] = s[i]
         /\ Append(s, x)[Len(s) + 1] = x
<1> DEFINE S == ToSet(s) \cup {x}
<1>1. s \in Seq(S) /\ x \in S
  BY SeqMonotonic DEF IsList
<1> HIDE DEF S
<1>2. /\ Append(s, x) \in Seq(S)
      /\ Len(Append(s, x)) = Len(s) + 1
      /\ \A i \in 1 .. Len(s) : Append(s, x)[i] = s[i]
      /\ Append(s, x)[Len(s) + 1] = x
  BY <1>1, AppendProperties
<1>3. IsList(Append(s, x))
  BY <1>2, SequencesAreLists
<1> QED
  BY <1>2, <1>3

LEMMA ListsJoined ==
  ASSUME NEW s, NEW t, IsList(s), IsList(t)
  PROVE  /\ IsList(s \o t)
         /\ Len(s \o t) = Len(s) + Len(t)
         /\ \A i \in 1 .. Len(s) + Len(t) :
              (s \o t)[i] = IF i <= Len(s) THEN s[i] ELSE t[i - Len(s)]
<1> DEFINE S == ToSet(s) \cup ToSet(t)
<1>1. s \in Seq(S) /\ t \in Seq(S)
  BY SeqMonotonic DEF IsList
<1> HIDE DEF S
<1>2. s \o t \in Seq(S)
  BY <1>1, ConcatProperties
<1> QED
  BY <1>1, <1>2, ConcatProperties, SequencesAreLists

LEMMA ListTail ==
  ASSUME NEW s, IsList(s), Len(s) > 0
  PROVE  /\ IsList(Tail(s))
         /\ Len(Tail(s)) = Len(s) - 1
         /\ \A i \in 1 .. Len(s) - 1 : Tail(s)[i] = s[i + 1]
         /\ Head(s) = s[1]
<1> DEFINE S == ToSet(s)
<1>1. s \in Seq(S) /\ s # << >>
  BY ListProperties DEF IsList
<1> HIDE DEF S
<1>2. /\ Tail(s) \in Seq(S)
      /\ Len(Tail(s)) = Len(s) - 1
      /\ \A i \in 1 .. Len(Tail(s)) : Tail(s)[i] = s[i + 1]
  BY <1>1, HeadTailProperties
<1>3. IsList(Tail(s))
  BY <1>2, SequencesAreLists
<1>4. Head(s) = s[1]
  BY <1>1
<1> QED
  BY <1>2, <1>3, <1>4

LEMMA ListPart ==
  ASSUME NEW s, IsList(s), NEW a \in 1 .. Len(s) + 1, NEW b \in a - 1 .. Len(s)
  PROVE  /\ IsList(SubSeq(s, a, b))
         /\ Len(SubSeq(s, a, b)) = b - a + 1
         /\ \A i \in 1 .. b - a + 1 : SubSeq(s, a, b)[i] = s[a + i - 1]
<1> DEFINE S == ToSet(s)
<1>1. Len(s) \in Nat /\ DOMAIN s = 1 .. Len(s)
  BY ListProperties
<1>2. \A i \in a .. b : s[i] \in S
  BY <1>1 DEF ToSet
<1>3. a \in Int /\ b \in Int
  BY <1>1
<1> HIDE DEF S
<1>4. SubSeq(s, a, b) \in Seq(S)
  BY <1>2, <1>3, SubSeqProperties
<1>5. Len(SubSeq(s, a, b)) = IF a <= b THEN b - a + 1 ELSE 0
  BY <1>2, <1>3, SubSeqProperties
<1>6. \A i \in 1 .. b - a + 1 : SubSeq(s, a, b)[i] = s[a + i - 1]
  BY <1>2, <1>3, SubSeqProperties
<1>7. IsList(SubSeq(s, a, b))
  BY <1>4, SequencesAreLists
<1> QED
  BY <1>1, <1>3, <1>5, <1>6, <1>7

LEMMA ListReversed ==
  ASSUME NEW s, IsList(s)
  PROVE  IsList(Reverse(s)) /\ Len(Reverse(s)) = Len(s)
<1>1. Len(s) \in Nat
  BY ListProperties
<1>2. Reverse(s) = [i \in 1 .. Len(s) |-> Reverse(s)[i]]
  BY DEF Reverse
<1> QED
  BY <1>1, <1>2, ListsAreFunctions

-----------------------------------------------------------------------------
(* Routes whose lanes name each other.                                       *)

\* A stretch of a lane.
IsStretch(v) == {"lane", "start", "end"} \subseteq DOMAIN v

IsLane(ls) ==
  /\ {"interval", "left", "right", "preds", "succs"} \subseteq DOMAIN ls
  /\ IsStretch(ls.interval)

IsRow(row) == IsList(row) /\ Len(row) > 0 /\ \A j \in 1 .. Len(row) : IsLane(row[j])

IsRoad(segments) ==
  /\ IsList(segments)
  /\ \A i \in 1 .. Len(segments) : "lanes" \in DOMAIN segments[i] /\ IsRow(segments[i].lanes)

LaneAt(row, j) == IF j \in DOMAIN row THEN LaneOf(row[j]) ELSE NoLane
IdsOf(row) == {LaneOf(row[j]) : j \in DOMAIN row}

\* Each lane of a row names the lanes beside it.
SideBySide(row) ==
  \A j \in 1 .. Len(row) :
    row[j].right = LaneAt(row, j - 1) /\ row[j].left = LaneAt(row, j + 1)

\* Of two rows the lanes of the one name those of the other both ways.
Joined(a, b) ==
  /\ \A j \in 1 .. Len(a) : a[j].succs \subseteq IdsOf(b)
  /\ \A k \in 1 .. Len(b) : b[k].preds \subseteq IdsOf(a)
  /\ \A j \in 1 .. Len(a), k \in 1 .. Len(b) :
       LaneOf(b[k]) \in a[j].succs <=> LaneOf(a[j]) \in b[k].preds

Linked(segments) ==
  /\ IsRoad(segments)
  /\ \A i \in 1 .. Len(segments) : SideBySide(segments[i].lanes)
  /\ \A i \in 1 .. Len(segments) - 1 : Joined(segments[i].lanes, segments[i + 1].lanes)

\* Nothing is named before the first row and after the last.
Begins(segments) ==
  Len(segments) > 0 =>
    \A j \in 1 .. Len(segments[1].lanes) : segments[1].lanes[j].preds = {}

Ends(segments) ==
  Len(segments) > 0 =>
    \A j \in 1 .. Len(segments[Len(segments)].lanes) :
      segments[Len(segments)].lanes[j].succs = {}

Tied(segments) == Linked(segments) /\ Begins(segments) /\ Ends(segments)

TiedRoute(r) == "segments" \in DOMAIN r /\ Tied(r.segments)

-----------------------------------------------------------------------------
(* Changes that leave alone what the lanes name.                             *)

SameLane(a, b) ==
  /\ IsLane(b)
  /\ LaneOf(b) = LaneOf(a)
  /\ b.left = a.left /\ b.right = a.right
  /\ b.preds = a.preds /\ b.succs = a.succs

SameRow(a, b) ==
  IsList(b) /\ Len(b) = Len(a) /\ \A j \in 1 .. Len(a) : SameLane(a[j], b[j])

SameRoad(s, t) ==
  /\ IsList(t) /\ Len(t) = Len(s)
  /\ \A i \in 1 .. Len(s) : "lanes" \in DOMAIN t[i] /\ SameRow(s[i].lanes, t[i].lanes)

\* A row has a first lane.
LEMMA RowBasics ==
  ASSUME NEW row, IsRow(row)
  PROVE  Len(row) \in Nat \ {0} /\ DOMAIN row = 1 .. Len(row)
BY ListProperties DEF IsRow

\* What names the same lanes is again a row, beside itself and joined alike.
LEMMA SameRowFacts ==
  ASSUME NEW a, NEW b, IsRow(a), SameRow(a, b)
  PROVE  /\ IsRow(b)
         /\ IdsOf(b) = IdsOf(a)
         /\ SideBySide(a) => SideBySide(b)
<1>1. /\ Len(a) \in Nat \ {0} /\ DOMAIN a = 1 .. Len(a) /\ Len(b) = Len(a)
      /\ DOMAIN b = 1 .. Len(a)
      /\ \A j \in 1 .. Len(a) : SameLane(a[j], b[j])
  BY RowBasics, ListProperties DEF SameRow
<1>2. IsRow(b)
  BY <1>1 DEF IsRow, SameRow, SameLane
<1>3. \A j \in 1 .. Len(a) : LaneOf(b[j]) = LaneOf(a[j])
  BY <1>1 DEF SameLane
<1>4. IdsOf(b) = IdsOf(a)
  BY <1>1, <1>3 DEF IdsOf
<1>5. \A j : LaneAt(b, j) = LaneAt(a, j)
  BY <1>1, <1>3 DEF LaneAt
<1>6. ASSUME SideBySide(a) PROVE SideBySide(b)
  BY <1>1, <1>5, <1>6 DEF SideBySide, SameLane
<1> QED
  BY <1>2, <1>4, <1>6

LEMMA SameRowsAreJoined ==
  ASSUME NEW a, NEW b, NEW c, NEW d, IsRow(a), IsRow(b), SameRow(a, c), SameRow(b, d),
         Joined(a, b)
  PROVE  Joined(c, d)
<1>1. IdsOf(c) = IdsOf(a) /\ IdsOf(d) = IdsOf(b)
  BY SameRowFacts
<1>2. /\ Len(c) = Len(a) /\ Len(d) = Len(b)
      /\ \A j \in 1 .. Len(a) : LaneOf(c[j]) = LaneOf(a[j]) /\ c[j].succs = a[j].succs
      /\ \A j \in 1 .. Len(b) : LaneOf(d[j]) = LaneOf(b[j]) /\ d[j].preds = b[j].preds
  BY DEF SameRow, SameLane
<1> QED
  BY <1>1, <1>2 DEF Joined

\* The segments of a road hold rows.
LEMMA RowsOfRoad ==
  ASSUME NEW s, IsRoad(s)
  PROVE  /\ Len(s) \in Nat /\ DOMAIN s = 1 .. Len(s) /\ s = << >> <=> Len(s) = 0
         /\ \A i \in 1 .. Len(s) : "lanes" \in DOMAIN s[i] /\ IsRow(s[i].lanes)
BY ListProperties DEF IsRoad

\* A road whose lanes name the same ones is linked, begins and ends alike.
LEMMA SameRoadIsLinked ==
  ASSUME NEW s, NEW t, SameRoad(s, t)
  PROVE  /\ IsRoad(s) => IsRoad(t)
         /\ Linked(s) => Linked(t)
         /\ IsRoad(s) /\ Begins(s) => Begins(t)
         /\ IsRoad(s) /\ Ends(s) => Ends(t)
         /\ Tied(s) => Tied(t)
<1>1. ASSUME IsRoad(s) PROVE IsRoad(t)
  BY <1>1, SameRowFacts DEF IsRoad, SameRoad
<1>2. ASSUME Linked(s) PROVE Linked(t)
  <2>1. IsRoad(s) /\ IsRoad(t)
    BY <1>1, <1>2 DEF Linked
  <2>2. /\ Len(t) = Len(s) /\ Len(s) \in Nat
        /\ \A i \in 1 .. Len(s) : IsRow(s[i].lanes) /\ SameRow(s[i].lanes, t[i].lanes)
    BY <2>1, RowsOfRoad DEF SameRoad
  <2>3. \A i \in 1 .. Len(t) : SideBySide(t[i].lanes)
    BY <1>2, <2>2, SameRowFacts DEF Linked
  <2>4. ASSUME NEW i \in 1 .. Len(t) - 1
        PROVE  Joined(t[i].lanes, t[i + 1].lanes)
    <3>1. i \in 1 .. Len(s) /\ i + 1 \in 1 .. Len(s)
      BY <2>2
    <3>2. Joined(s[i].lanes, s[i + 1].lanes)
      BY <1>2, <2>2 DEF Linked
    <3> QED
      BY <2>2, <3>1, <3>2, SameRowsAreJoined
  <2> QED
    BY <2>1, <2>3, <2>4 DEF Linked
<1>3. ASSUME IsRoad(s), Begins(s) PROVE Begins(t)
  <2>1. Len(s) \in Nat
    BY <1>3, RowsOfRoad
  <2>2. CASE Len(s) > 0
    <3>1. SameRow(s[1].lanes, t[1].lanes) /\ Len(t) = Len(s)
      BY <2>1, <2>2 DEF SameRoad
    <3> QED
      BY <1>3, <2>2, <3>1 DEF Begins, SameRow, SameLane
  <2> QED
    BY <2>1, <2>2 DEF Begins, SameRoad
<1>4. ASSUME IsRoad(s), Ends(s) PROVE Ends(t)
  <2>1. Len(s) \in Nat
    BY <1>4, RowsOfRoad
  <2>2. CASE Len(s) > 0
    <3>1. SameRow(s[Len(s)].lanes, t[Len(s)].lanes) /\ Len(t) = Len(s)
      BY <2>1, <2>2 DEF SameRoad
    <3> QED
      BY <1>4, <2>2, <3>1 DEF Ends, SameRow, SameLane
  <2> QED
    BY <2>1, <2>2 DEF Ends, SameRoad
<1> QED
  BY <1>1, <1>2, <1>3, <1>4 DEF Tied, Linked

\* Nothing changes nothing, and two changes that do not are none.
LEMMA SameIsSame ==
  /\ \A ls : IsLane(ls) => SameLane(ls, ls)
  /\ \A row : IsRow(row) => SameRow(row, row)
  /\ \A s : IsRoad(s) => SameRoad(s, s)
BY DEF SameLane, SameRow, SameRoad, IsRow, IsRoad

LEMMA SameTwice ==
  ASSUME NEW s, NEW t, NEW u, IsRoad(s), SameRoad(s, t), SameRoad(t, u)
  PROVE  SameRoad(s, u)
<1>1. \A i \in 1 .. Len(s) : SameRow(s[i].lanes, t[i].lanes) /\ SameRow(t[i].lanes, u[i].lanes)
  BY DEF SameRoad
<1>2. ASSUME NEW a, NEW b, NEW c, SameRow(a, b), SameRow(b, c) PROVE SameRow(a, c)
  <2>1. IsList(c) /\ Len(c) = Len(a) /\ Len(b) = Len(a)
    BY <1>2 DEF SameRow
  <2>2. ASSUME NEW j \in 1 .. Len(a) PROVE SameLane(a[j], c[j])
    <3>1. SameLane(a[j], b[j]) /\ SameLane(b[j], c[j])
      BY <1>2, <2>1 DEF SameRow
    <3> QED
      BY <3>1 DEF SameLane
  <2> QED
    BY <2>1, <2>2 DEF SameRow
<1>3. \A i \in 1 .. Len(s) : SameRow(s[i].lanes, u[i].lanes)
  BY <1>1, <1>2
<1> QED
  BY <1>3 DEF SameRoad

\* A bound of the interval is moved.
LEMMA MovedBound ==
  ASSUME NEW ls, IsLane(ls), NEW o
  PROVE  /\ SameLane(ls, [ls EXCEPT !.interval.start = o])
         /\ SameLane(ls, [ls EXCEPT !.interval.end = o])
<1>1. \A x : /\ [ls.interval EXCEPT !.start = x].lane = ls.interval.lane
             /\ [ls.interval EXCEPT !.end = x].lane = ls.interval.lane
             /\ IsStretch([ls.interval EXCEPT !.start = x])
             /\ IsStretch([ls.interval EXCEPT !.end = x])
  BY DEF IsLane, IsStretch
<1> QED
  BY <1>1 DEF IsLane, SameLane, LaneOf

\* The lanes of one segment are replaced.
LEMMA ReplacedRow ==
  ASSUME NEW s, IsRoad(s), NEW n \in 1 .. Len(s), NEW row, SameRow(s[n].lanes, row)
  PROVE  SameRoad(s, [s EXCEPT ![n].lanes = row])
<1> DEFINE t == [s EXCEPT ![n].lanes = row]
<1>1. Len(s) \in Nat /\ DOMAIN s = 1 .. Len(s)
      /\ \A i \in 1 .. Len(s) : "lanes" \in DOMAIN s[i] /\ IsRow(s[i].lanes)
  BY RowsOfRoad
<1>2. DOMAIN t = 1 .. Len(s) /\ t = [i \in 1 .. Len(s) |-> t[i]]
  BY <1>1
<1>3. t[n].lanes = row /\ "lanes" \in DOMAIN t[n]
  BY <1>1
<1>4. \A i \in 1 .. Len(s) : i # n => t[i] = s[i]
  BY <1>1
<1> HIDE DEF t
<1>5. IsList(t) /\ Len(t) = Len(s)
  BY <1>1, <1>2, ListsAreFunctions
<1>6. SameRoad(s, t)
  BY <1>1, <1>3, <1>4, <1>5, SameIsSame DEF SameRoad
<1> QED
  BY <1>6 DEF t

\* What replacing the lanes of one segment leaves alone.
LEMMA RowReplaced ==
  ASSUME NEW s, IsRoad(s), NEW n \in 1 .. Len(s), NEW row,
         NEW t, t = [s EXCEPT ![n].lanes = row]
  PROVE  /\ IsList(t) /\ Len(t) = Len(s) /\ DOMAIN t = 1 .. Len(s)
         /\ t[n].lanes = row /\ "lanes" \in DOMAIN t[n]
         /\ \A i \in 1 .. Len(s) : i # n => t[i] = s[i]
<1> DEFINE u == [s EXCEPT ![n].lanes = row]
<1>1. Len(s) \in Nat /\ DOMAIN s = 1 .. Len(s)
      /\ \A i \in 1 .. Len(s) : "lanes" \in DOMAIN s[i] /\ IsRow(s[i].lanes)
  BY RowsOfRoad
<1>2. DOMAIN u = 1 .. Len(s) /\ u = [i \in 1 .. Len(s) |-> u[i]]
  BY <1>1
<1>3. u[n].lanes = row /\ "lanes" \in DOMAIN u[n]
  BY <1>1
<1>4. \A i \in 1 .. Len(s) : i # n => u[i] = s[i]
  BY <1>1
<1> HIDE DEF u
<1>5. IsList(u) /\ Len(u) = Len(s)
  BY <1>1, <1>2, ListsAreFunctions
<1>6. t = u
  BY DEF u
<1> QED
  BY <1>2, <1>3, <1>4, <1>5, <1>6

-----------------------------------------------------------------------------
(* Parts of routes.                                                          *)

\* A part of a linked road is linked; its end part ends, its front part begins.
LEMMA PartIsLinked ==
  ASSUME NEW s, Linked(s), NEW a \in 1 .. Len(s) + 1, NEW b \in a - 1 .. Len(s),
         NEW t, t = SubSeq(s, a, b)
  PROVE  Linked(t) /\ Len(t) = b - a + 1
<1>1. /\ Len(s) \in Nat /\ IsList(s)
      /\ \A i \in 1 .. Len(s) : "lanes" \in DOMAIN s[i] /\ IsRow(s[i].lanes)
  BY RowsOfRoad DEF Linked, IsRoad
<1>2. /\ IsList(t) /\ Len(t) = b - a + 1
      /\ \A i \in 1 .. b - a + 1 : t[i] = s[a + i - 1]
  BY <1>1, ListPart
<1>3. \A i \in 1 .. Len(t) : a + i - 1 \in 1 .. Len(s)
  BY <1>1, <1>2
<1>4. IsRoad(t)
  BY <1>1, <1>2, <1>3 DEF IsRoad
<1>5. \A i \in 1 .. Len(t) : SideBySide(t[i].lanes)
  BY <1>2, <1>3 DEF Linked
<1>6. ASSUME NEW i \in 1 .. Len(t) - 1 PROVE Joined(t[i].lanes, t[i + 1].lanes)
  <2>1. /\ a + i - 1 \in 1 .. Len(s) - 1 /\ (a + i - 1) + 1 = a + (i + 1) - 1
        /\ t[i] = s[a + i - 1] /\ t[i + 1] = s[a + (i + 1) - 1]
    BY <1>1, <1>2
  <2> QED
    BY <2>1 DEF Linked
<1> QED
  BY <1>2, <1>4, <1>5, <1>6 DEF Linked

LEMMA BackPart ==
  ASSUME NEW s, Linked(s), Ends(s), NEW a \in 1 .. Len(s), NEW t, t = SubSeq(s, a, Len(s))
  PROVE  Linked(t) /\ Ends(t) /\ Len(t) = Len(s) - a + 1 /\ Len(t) > 0
<1>1. Len(s) \in Nat /\ IsList(s)
  BY RowsOfRoad DEF Linked, IsRoad
<1>2. Linked(t) /\ Len(t) = Len(s) - a + 1
  <2>1. a \in 1 .. Len(s) + 1 /\ Len(s) \in a - 1 .. Len(s)
    BY <1>1
  <2> QED
    BY <2>1, PartIsLinked
<1>3. t[Len(t)] = s[Len(s)]
  <2>1. \A i \in 1 .. Len(s) - a + 1 : t[i] = s[a + i - 1]
    BY <1>1, ListPart
  <2> QED
    BY <1>1, <1>2, <2>1
<1> QED
  BY <1>1, <1>2, <1>3 DEF Ends

LEMMA FrontPart ==
  ASSUME NEW s, Linked(s), Begins(s), NEW n \in 0 .. Len(s), NEW t, t = SubSeq(s, 1, n)
  PROVE  Linked(t) /\ Begins(t) /\ Len(t) = n
<1>1. Len(s) \in Nat /\ IsList(s)
  BY RowsOfRoad DEF Linked, IsRoad
<1>2. Linked(t) /\ Len(t) = n
  <2>1. 1 \in 1 .. Len(s) + 1 /\ n \in 1 - 1 .. Len(s) /\ n - 1 + 1 = n
    BY <1>1
  <2>2. Linked(t) /\ Len(t) = n - 1 + 1
    BY <2>1, PartIsLinked
  <2> QED
    BY <2>1, <2>2
<1>3. n > 0 => t[1] = s[1]
  <2>1. \A i \in 1 .. n - 1 + 1 : t[i] = s[1 + i - 1]
    BY <1>1, ListPart
  <2> QED
    BY <1>1, <1>2, <2>1
<1> QED
  BY <1>1, <1>2, <1>3 DEF Begins

\* With the predecessors of the first row cleared the road begins, with the
\* successors of the last row cleared it ends.
LEMMA ClearPredecessorsTies ==
  ASSUME NEW s, Linked(s), Ends(s), Len(s) > 0
  PROVE  Tied(ClearPredecessors(s))
<1> DEFINE row == s[1].lanes
           new == [j \in DOMAIN row |-> [row[j] EXCEPT !.preds = {}]]
           t == [s EXCEPT ![1].lanes = new]
<1>1. /\ Len(s) \in Nat /\ IsRoad(s) /\ 1 \in 1 .. Len(s) /\ DOMAIN s = 1 .. Len(s)
      /\ \A i \in 1 .. Len(s) : "lanes" \in DOMAIN s[i] /\ IsRow(s[i].lanes)
  BY RowsOfRoad DEF Linked
<1>2. ClearPredecessors(s) = t
  BY <1>1 DEF ClearPredecessors
<1>3. /\ Len(row) \in Nat \ {0} /\ DOMAIN row = 1 .. Len(row)
      /\ \A j \in 1 .. Len(row) : IsLane(row[j])
  BY <1>1, RowBasics DEF IsRow
<1>4. new = [j \in 1 .. Len(row) |-> new[j]]
  BY <1>3
<1>5. ASSUME NEW j \in 1 .. Len(row)
      PROVE  /\ IsLane(new[j]) /\ LaneOf(new[j]) = LaneOf(row[j]) /\ new[j].preds = {}
             /\ new[j].succs = row[j].succs
             /\ new[j].left = row[j].left /\ new[j].right = row[j].right
  BY <1>3 DEF IsLane, LaneOf
<1>6. IsList(new) /\ Len(new) = Len(row) /\ DOMAIN new = 1 .. Len(row)
  BY <1>3, <1>4, ListsAreFunctions
<1> HIDE DEF new
<1>7. IsRow(new)
  BY <1>3, <1>5, <1>6 DEF IsRow
<1>8. \A j : LaneAt(new, j) = LaneAt(row, j)
  BY <1>3, <1>5, <1>6 DEF LaneAt
<1>9. SideBySide(new)
  <2>1. SideBySide(row)
    BY <1>1 DEF Linked
  <2> QED
    BY <1>5, <1>6, <1>8, <2>1 DEF SideBySide
<1>10. IdsOf(new) = IdsOf(row)
  BY <1>3, <1>5, <1>6 DEF IdsOf
<1>11. /\ IsList(t) /\ Len(t) = Len(s) /\ DOMAIN t = 1 .. Len(s)
       /\ t[1].lanes = new /\ "lanes" \in DOMAIN t[1]
       /\ \A i \in 1 .. Len(s) : i # 1 => t[i] = s[i]
  BY <1>1, RowReplaced
<1> HIDE DEF t
<1>12. IsRoad(t)
  BY <1>1, <1>7, <1>11 DEF IsRoad
<1>13. \A i \in 1 .. Len(t) : SideBySide(t[i].lanes)
  BY <1>9, <1>11 DEF Linked
<1>14. ASSUME NEW i \in 1 .. Len(t) - 1 PROVE Joined(t[i].lanes, t[i + 1].lanes)
  <2>0. i \in 1 .. Len(s) /\ i + 1 \in 1 .. Len(s) /\ i + 1 # 1
    BY <1>1, <1>11
  <2>1. Joined(s[i].lanes, s[i + 1].lanes)
    BY <1>1, <1>11 DEF Linked
  <2>2. t[i + 1] = s[i + 1]
    BY <1>11, <2>0
  <2>3. CASE i = 1
    <3> DEFINE next == s[i + 1].lanes
    <3>1. Joined(row, next)
      BY <2>1, <2>3
    <3> HIDE DEF next
    <3>2. Joined(new, next)
      BY <1>5, <1>6, <1>10, <3>1 DEF Joined
    <3> QED
      BY <1>11, <2>2, <2>3, <3>2 DEF next
  <2>4. CASE i # 1
    BY <1>11, <2>0, <2>1, <2>2, <2>4
  <2> QED
    BY <2>3, <2>4
<1>15. Begins(t)
  BY <1>5, <1>6, <1>11 DEF Begins
<1>16. Ends(t)
  <2>1. CASE Len(s) = 1
    BY <1>5, <1>6, <1>11, <2>1 DEF Ends
  <2>2. CASE Len(s) # 1
    BY <1>1, <1>11, <2>2 DEF Ends
  <2> QED
    BY <2>1, <2>2
<1> QED
  BY <1>2, <1>12, <1>13, <1>14, <1>15, <1>16 DEF Tied, Linked

LEMMA ClearSuccessorsTies ==
  ASSUME NEW s, Linked(s), Begins(s), Len(s) > 0
  PROVE  Tied(ClearSuccessors(s))
<1> DEFINE N == Len(s)
           row == s[N].lanes
           new == [j \in DOMAIN row |-> [row[j] EXCEPT !.succs = {}]]
           t == [s EXCEPT ![N].lanes = new]
<1>1. /\ N \in Nat /\ IsRoad(s) /\ N \in 1 .. N /\ DOMAIN s = 1 .. N
      /\ \A i \in 1 .. N : "lanes" \in DOMAIN s[i] /\ IsRow(s[i].lanes)
  BY RowsOfRoad DEF Linked
<1>2. ClearSuccessors(s) = t
  BY <1>1 DEF ClearSuccessors
<1>3. /\ Len(row) \in Nat \ {0} /\ DOMAIN row = 1 .. Len(row)
      /\ \A j \in 1 .. Len(row) : IsLane(row[j])
  BY <1>1, RowBasics DEF IsRow
<1>4. new = [j \in 1 .. Len(row) |-> new[j]]
  BY <1>3
<1>5. ASSUME NEW j \in 1 .. Len(row)
      PROVE  /\ IsLane(new[j]) /\ LaneOf(new[j]) = LaneOf(row[j]) /\ new[j].succs = {}
             /\ new[j].preds = row[j].preds
             /\ new[j].left = row[j].left /\ new[j].right = row[j].right
  BY <1>3 DEF IsLane, LaneOf
<1>6. IsList(new) /\ Len(new) = Len(row) /\ DOMAIN new = 1 .. Len(row)
  BY <1>3, <1>4, ListsAreFunctions
<1> HIDE DEF new
<1>7. IsRow(new)
  BY <1>3, <1>5, <1>6 DEF IsRow
<1>8. \A j : LaneAt(new, j) = LaneAt(row, j)
  BY <1>3, <1>5, <1>6 DEF LaneAt
<1>9. SideBySide(new)
  <2>1. SideBySide(row)
    BY <1>1 DEF Linked
  <2> QED
    BY <1>5, <1>6, <1>8, <2>1 DEF SideBySide
<1>10. IdsOf(new) = IdsOf(row)
  BY <1>3, <1>5, <1>6 DEF IdsOf
<1>11. /\ IsList(t) /\ Len(t) = N /\ DOMAIN t = 1 .. N
       /\ t[N].lanes = new /\ "lanes" \in DOMAIN t[N]
       /\ \A i \in 1 .. N : i # N => t[i] = s[i]
  BY <1>1, RowReplaced
<1> HIDE DEF t
<1>12. IsRoad(t)
  BY <1>1, <1>7, <1>11 DEF IsRoad
<1>13. \A i \in 1 .. Len(t) : SideBySide(t[i].lanes)
  BY <1>9, <1>11 DEF Linked
<1>14. ASSUME NEW i \in 1 .. Len(t) - 1 PROVE Joined(t[i].lanes, t[i + 1].lanes)
  <2>0. i \in 1 .. N /\ i + 1 \in 1 .. N /\ i # N
    <3>1. i \in 1 .. N - 1 /\ N \in Nat
      BY <1>1, <1>11
    <3> HIDE DEF N
    <3> QED
      BY <3>1
  <2>1. Joined(s[i].lanes, s[i + 1].lanes)
    BY <1>1, <1>11 DEF Linked
  <2>2. t[i] = s[i]
    BY <1>11, <2>0
  <2>3. CASE i + 1 = N
    <3> DEFINE before == s[i].lanes
    <3>1. Joined(before, row)
      BY <2>1, <2>3
    <3> HIDE DEF before
    <3>2. Joined(before, new)
      BY <1>5, <1>6, <1>10, <3>1 DEF Joined
    <3> QED
      BY <1>11, <2>2, <2>3, <3>2 DEF before
  <2>4. CASE i + 1 # N
    BY <1>11, <2>0, <2>1, <2>2, <2>4
  <2> QED
    BY <2>3, <2>4
<1>15. Ends(t)
  BY <1>5, <1>6, <1>11 DEF Ends
<1>16. Begins(t)
  <2>1. CASE N = 1
    BY <1>5, <1>6, <1>11, <2>1 DEF Begins
  <2>2. CASE N # 1
    <3>1. 1 \in 1 .. N /\ 1 # N
      BY <1>1, <2>2
    <3>2. t[1] = s[1]
      BY <1>11, <3>1
    <3> QED
      BY <1>11, <3>2 DEF Begins
  <2> QED
    BY <2>1, <2>2
<1> QED
  BY <1>2, <1>12, <1>13, <1>14, <1>15, <1>16 DEF Tied, Linked

-----------------------------------------------------------------------------
(* Operations that only move bounds.                                         *)

\* Lanes of a row replaced one by one by such that name the same.
LEMMA RowOfSameLanes ==
  ASSUME NEW row, IsRow(row), NEW new, new = [j \in DOMAIN row |-> new[j]],
         \A j \in 1 .. Len(row) : SameLane(row[j], new[j])
  PROVE  SameRow(row, new)
<1>1. Len(row) \in Nat /\ DOMAIN row = 1 .. Len(row)
  BY RowBasics
<1>2. new = [j \in 1 .. Len(row) |-> new[j]]
  BY <1>1
<1>3. IsList(new) /\ Len(new) = Len(row)
  BY <1>1, <1>2, ListsAreFunctions
<1> QED
  BY <1>3 DEF SameRow

\* The lanes of one segment are replaced by such as name the same lanes.
LEMMA RowOfSegment ==
  ASSUME NEW s, IsRoad(s), NEW n \in 1 .. Len(s), NEW new,
         new = [j \in DOMAIN s[n].lanes |-> new[j]],
         \A j \in 1 .. Len(s[n].lanes) : SameLane(s[n].lanes[j], new[j])
  PROVE  SameRoad(s, [s EXCEPT ![n].lanes = new])
<1>1. IsRow(s[n].lanes)
  BY RowsOfRoad
<1>2. SameRow(s[n].lanes, new)
  BY <1>1, RowOfSameLanes
<1> QED
  BY <1>2, ReplacedRow

\* The lanes of a road, one by one.
LEMMA LanesOfRow ==
  ASSUME NEW s, IsRoad(s), NEW n \in 1 .. Len(s)
  PROVE  /\ n \in DOMAIN s /\ "lanes" \in DOMAIN s[n]
         /\ \A j \in 1 .. Len(s[n].lanes) : IsLane(s[n].lanes[j])
         /\ DOMAIN s[n].lanes = 1 .. Len(s[n].lanes)
         /\ Len(s[n].lanes) \in Nat \ {0}
BY RowsOfRoad, RowBasics DEF IsRow

\* alignRouteStartingPoints and alignRouteEndingPoints move bounds only.
LEMMA AlignedLaneIsSame ==
  ASSUME NEW m, NEW ls, IsLane(ls), NEW p, NEW atStart
  PROVE  SameLane(ls, AlignedLane(m, ls, p, atStart))
<1> DEFINE o == Aligned(m, p.lane, p.offset, ls.interval.lane)
<1> HIDE DEF o
<1>1. \/ AlignedLane(m, ls, p, atStart) = ls
      \/ AlignedLane(m, ls, p, atStart) = [ls EXCEPT !.interval.start = o]
      \/ AlignedLane(m, ls, p, atStart) = [ls EXCEPT !.interval.end = o]
  BY Zenon DEF AlignedLane, o
<1>2. /\ SameLane(ls, [ls EXCEPT !.interval.start = o])
      /\ SameLane(ls, [ls EXCEPT !.interval.end = o])
  BY MovedBound
<1>3. SameLane(ls, ls)
  BY SameIsSame
<1> QED
  BY Zenon, <1>1, <1>2, <1>3

LEMMA AlignSegmentIsSame ==
  ASSUME NEW m, NEW s, IsRoad(s), NEW n \in 1 .. Len(s), NEW p, NEW atStart
  PROVE  SameRoad(s, AlignSegment(m, s, n, p, atStart))
<1> DEFINE new == [j \in DOMAIN s[n].lanes |-> AlignedLane(m, s[n].lanes[j], p, atStart)]
<1>1. AlignSegment(m, s, n, p, atStart) = [s EXCEPT ![n].lanes = new]
  BY LanesOfRow DEF AlignSegment
<1>2. \A j \in 1 .. Len(s[n].lanes) : SameLane(s[n].lanes[j], new[j])
  BY LanesOfRow, AlignedLaneIsSame
<1>3. new = [j \in DOMAIN s[n].lanes |-> new[j]]
  OBVIOUS
<1> HIDE DEF new
<1>4. SameRoad(s, [s EXCEPT ![n].lanes = new])
  BY <1>2, <1>3, RowOfSegment
<1> QED
  BY <1>1, <1>4

LEMMA AlignedRoad ==
  ASSUME NEW m, NEW s, IsRoad(s), NEW p, NEW q
  PROVE  /\ SameRoad(s, AlignRouteStartingPoints(m, s, p))
         /\ SameRoad(s, AlignRouteEndingPoints(m, s, p))
         /\ SameRoad(s, AlignRouteEndingPoints(m, AlignRouteStartingPoints(m, s, p), q))
<1>1. ASSUME NEW t, IsRoad(t), NEW o
      PROVE  /\ SameRoad(t, AlignRouteStartingPoints(m, t, o))
             /\ SameRoad(t, AlignRouteEndingPoints(m, t, o))
  <2>1. CASE t = << >>
    BY <1>1, <2>1, SameIsSame DEF AlignRouteStartingPoints, AlignRouteEndingPoints
  <2>2. CASE t # << >>
    <3>1. Len(t) \in Nat /\ Len(t) # 0
      BY <1>1, <2>2, RowsOfRoad
    <3>2. 1 \in 1 .. Len(t) /\ Len(t) \in 1 .. Len(t)
      BY <3>1
    <3>3. \A n \in 1 .. Len(t), start \in BOOLEAN : SameRoad(t, AlignSegment(m, t, n, o, start))
      BY <1>1, AlignSegmentIsSame
    <3> QED
      BY <2>2, <3>2, <3>3 DEF AlignRouteStartingPoints, AlignRouteEndingPoints
  <2> QED
    BY <2>1, <2>2
<1>2. SameRoad(s, AlignRouteStartingPoints(m, s, p))
  BY <1>1
<1>3. IsRoad(AlignRouteStartingPoints(m, s, p))
  BY <1>2, SameRoadIsLinked
<1>4. SameRoad(AlignRouteStartingPoints(m, s, p),
               AlignRouteEndingPoints(m, AlignRouteStartingPoints(m, s, p), q))
  BY <1>1, <1>3
<1> QED
  BY <1>1, <1>2, <1>4, SameTwice

LEMMA AlignEndsIsSame ==
  ASSUME NEW m, NEW s, IsRoad(s), NEW points
  PROVE  SameRoad(s, AlignEnds(m, s, points))
<1>1. CASE points = << >>
  BY <1>1, SameIsSame DEF AlignEnds
<1>2. CASE points # << >>
  BY <1>2, AlignedRoad DEF AlignEnds
<1> QED
  BY <1>1, <1>2

\* The counters of the segments are set anew.
LEMMA CountersAreSame ==
  ASSUME NEW r, "segments" \in DOMAIN r, IsRoad(r.segments)
  PROVE  /\ "segments" \in DOMAIN WithCounters(r)
         /\ SameRoad(r.segments, WithCounters(r).segments)
<1> DEFINE s == r.segments
           n == Len(s)
           t == [i \in 1 .. n |-> [s[i] EXCEPT !.fromDest = n + 1 - i]]
<1>1. "segments" \in DOMAIN WithCounters(r) /\ WithCounters(r).segments = t
  BY DEF WithCounters
<1>2. n \in Nat /\ \A i \in 1 .. n : "lanes" \in DOMAIN s[i] /\ IsRow(s[i].lanes)
  BY RowsOfRoad
<1>3. \A i \in 1 .. n : "lanes" \in DOMAIN t[i] /\ t[i].lanes = s[i].lanes
  BY <1>2
<1>4. t = [i \in 1 .. n |-> t[i]]
  OBVIOUS
<1> HIDE DEF t
<1>5. IsList(t) /\ Len(t) = n
  BY <1>2, <1>4, ListsAreFunctions
<1>6. SameRoad(s, t)
  BY <1>2, <1>3, <1>5, SameIsSame DEF SameRoad
<1> QED
  BY <1>1, <1>6

-----------------------------------------------------------------------------
(* Cutting a route at its begin.                                             *)

\* The largest of finitely many numbers is one of them.
LEMMA MaxOfNaturals ==
  ASSUME NEW n \in Nat, NEW T, T \subseteq 0 .. n, T # {}
  PROVE  Max(T) \in T /\ \A x \in T : Max(T) >= x
<1> DEFINE U == {n - x : x \in T}
<1>1. U \subseteq Nat /\ U # {}
  OBVIOUS
<1>2. PICK u \in U : \A y \in U : u <= y
  <2> HIDE DEF U
  <2> QED
    BY <1>1, LeastNatural
<1>3. PICK t \in T : u = n - t
  BY <1>2
<1>4. ASSUME NEW x \in T PROVE t >= x
  <2>1. n - x \in U /\ x \in Nat /\ t \in Nat
    OBVIOUS
  <2>2. n - t <= n - x
    BY <1>2, <1>3, <2>1
  <2> QED
    BY <2>1, <2>2
<1>5. \E t1 \in T : \A x \in T : t1 >= x
  BY <1>4
<1> QED
  BY <1>5 DEF Max

\* A route without segments.
LEMMA EmptyIsTied == Tied(<<>>)
<1>1. IsList(<<>>) /\ Len(<<>>) = 0
  BY DEF IsList
<1> QED
  BY <1>1 DEF Tied, Linked, Begins, Ends, IsRoad

\* What both kinds of cut do with the first segment that is left.
LEMMA FirstRowMoved ==
  ASSUME NEW s, Linked(s), Ends(s), Len(s) > 0, NEW t, SameRoad(s, t)
  PROVE  Linked(t) /\ Ends(t) /\ Len(t) > 0
<1>1. Linked(t)
  BY SameRoadIsLinked
<1>2. Ends(t)
  BY SameRoadIsLinked DEF Linked
<1> QED
  BY <1>1, <1>2 DEF SameRoad

\* Without its first segment a road goes on to the same end.
LEMMA RestOfRoad ==
  ASSUME NEW s, Linked(s), Ends(s), Len(s) > 0
  PROVE  Linked(Tail(s)) /\ Ends(Tail(s)) /\ Len(Tail(s)) \in Nat
<1>1. Len(s) \in Nat /\ IsList(s)
  BY RowsOfRoad DEF Linked, IsRoad
<1>2. CASE Len(s) = 1
  <2>1. IsList(Tail(s)) /\ Len(Tail(s)) = 0
    BY <1>1, <1>2, ListTail
  <2> QED
    BY <2>1 DEF Linked, IsRoad, Ends
<1>3. CASE Len(s) # 1
  <2> DEFINE N == Len(s)
             t == SubSeq(s, 2, N)
  <2>0. N \in Nat /\ N # 1 /\ N > 0
    BY <1>1, <1>3
  <2>1. 2 \in 1 .. N /\ N - 1 \in Nat
    <3> HIDE DEF N
    <3> QED
      BY <2>0
  <2>2. Linked(t) /\ Ends(t) /\ Len(t) = Len(s) - 2 + 1 /\ Len(t) > 0
    BY <2>1, BackPart
  <2>3. 2 \in 1 .. Len(s) + 1 /\ Len(s) \in 2 - 1 .. Len(s) /\ Len(s) - 2 + 1 = Len(s) - 1
    BY <1>1, <1>3
  <2>4. /\ IsList(t) /\ Len(t) = Len(s) - 1
        /\ \A i \in 1 .. Len(s) - 1 : t[i] = s[2 + i - 1]
    BY <1>1, <2>3, ListPart
  <2>5. /\ IsList(Tail(s)) /\ Len(Tail(s)) = Len(s) - 1
        /\ \A i \in 1 .. Len(s) - 1 : Tail(s)[i] = s[i + 1]
    BY <1>1, ListTail
  <2>6. \A i \in 1 .. Len(s) - 1 : 2 + i - 1 = i + 1
    BY <1>1
  <2> HIDE DEF t
  <2>7. /\ t = [i \in 1 .. Len(s) - 1 |-> t[i]]
        /\ Tail(s) = [i \in 1 .. Len(s) - 1 |-> Tail(s)[i]]
    BY <2>4, <2>5, ListProperties
  <2>8. Tail(s) = t
    BY <2>4, <2>5, <2>6, <2>7
  <2>9. Linked(t) /\ Ends(t) /\ Len(t) \in Nat
    BY <2>1, <2>2, <2>4
  <2> QED
    BY Zenon, <2>8, <2>9
<1> QED
  BY <1>2, <1>3

\* Cutting a lane moves its begin only.
LEMMA ShorterLaneIsSame ==
  ASSUME NEW m, NEW ls, IsLane(ls), NEW o
  PROVE  SameLane(ls, ShorterLane(m, ls, o))
<1> DEFINE e == ls.interval.end
<1> HIDE DEF e
<1>1. \/ ShorterLane(m, ls, o) = ls
      \/ ShorterLane(m, ls, o) = [ls EXCEPT !.interval.start = o]
      \/ ShorterLane(m, ls, o) = [ls EXCEPT !.interval.start = e]
  BY Zenon DEF ShorterLane, e
<1>2. /\ SameLane(ls, [ls EXCEPT !.interval.start = o])
      /\ SameLane(ls, [ls EXCEPT !.interval.start = e])
  BY MovedBound
<1>3. SameLane(ls, ls)
  BY SameIsSame
<1> QED
  BY Zenon, <1>1, <1>2, <1>3

\* What shortenRouteImpl keeps of a route from the waypoint on goes on to
\* the end of the route.
LEMMA CutGoesOn ==
  ASSUME NEW m, NEW s, Linked(s), Ends(s), NEW w, w.segment \in 1 .. Len(s)
  PROVE  Linked(CutAt(m, s, w)) /\ Ends(CutAt(m, s, w)) /\ Len(CutAt(m, s, w)) > 0
<1> DEFINE kept == SubSeq(s, w.segment, Len(s))
           new == [j \in DOMAIN kept[1].lanes |-> ShorterLane(m, kept[1].lanes[j], w.at)]
<1>1. Linked(kept) /\ Ends(kept) /\ Len(kept) > 0
  BY BackPart
<1>2. CutAt(m, s, w) = [kept EXCEPT ![1].lanes = [j \in DOMAIN @ |-> ShorterLane(m, @[j], w.at)]]
  BY DEF CutAt
<1> HIDE DEF kept
<1>3. IsRoad(kept) /\ 1 \in 1 .. Len(kept)
  BY <1>1, RowsOfRoad DEF Linked
<1>4. CutAt(m, s, w) = [kept EXCEPT ![1].lanes = new]
  BY <1>2, <1>3, LanesOfRow
<1>5. \A j \in 1 .. Len(kept[1].lanes) : SameLane(kept[1].lanes[j], new[j])
  BY <1>3, LanesOfRow, ShorterLaneIsSame
<1>6. new = [j \in DOMAIN kept[1].lanes |-> new[j]]
  OBVIOUS
<1> HIDE DEF new
<1>7. SameRoad(kept, [kept EXCEPT ![1].lanes = new])
  BY <1>3, <1>5, <1>6, RowOfSegment
<1> QED
  BY <1>1, <1>4, <1>7, FirstRowMoved

\* So does what it keeps of the route with the intersection.
LEMMA KeptGoesOn ==
  ASSUME NEW s, Linked(s), Ends(s), NEW i \in 2 .. Len(s)
  PROVE  Linked(KeptIntersection(s, i)) /\ Ends(KeptIntersection(s, i))
         /\ Len(KeptIntersection(s, i)) > 0
<1> DEFINE kept == SubSeq(s, i - 1, Len(s))
           Ended(ls) == [ls EXCEPT !.interval.start = ls.interval.end]
           new == [j \in DOMAIN kept[1].lanes |-> Ended(kept[1].lanes[j])]
<1>0. i - 1 \in 1 .. Len(s)
  BY RowsOfRoad DEF Linked
<1>1. Linked(kept) /\ Ends(kept) /\ Len(kept) > 0
  BY <1>0, BackPart
<1>2. KeptIntersection(s, i) = [kept EXCEPT ![1].lanes = [j \in DOMAIN @ |-> Ended(@[j])]]
  BY DEF KeptIntersection
<1> HIDE DEF kept
<1>3. IsRoad(kept) /\ 1 \in 1 .. Len(kept)
  BY <1>1, RowsOfRoad DEF Linked
<1>4. KeptIntersection(s, i) = [kept EXCEPT ![1].lanes = new]
  BY <1>2, <1>3, LanesOfRow
<1>5. \A j \in 1 .. Len(kept[1].lanes) : SameLane(kept[1].lanes[j], new[j])
  <2>1. ASSUME NEW ls, IsLane(ls) PROVE SameLane(ls, Ended(ls))
    <3> DEFINE e == ls.interval.end
    <3> HIDE DEF e
    <3>1. SameLane(ls, [ls EXCEPT !.interval.start = e])
      BY <2>1, MovedBound
    <3> QED
      BY <3>1 DEF e
  <2> HIDE DEF Ended
  <2> QED
    BY <1>3, <2>1, LanesOfRow
<1>6. new = [j \in DOMAIN kept[1].lanes |-> new[j]]
  OBVIOUS
<1> HIDE DEF new
<1>7. SameRoad(kept, [kept EXCEPT ![1].lanes = new])
  BY <1>3, <1>5, <1>6, RowOfSegment
<1> QED
  BY <1>1, <1>4, <1>7, FirstRowMoved

\* The lane of an interval is begun anew.
LEMMA BegunLaneIsSame ==
  ASSUME NEW s, IsRoad(s), Len(s) > 0, NEW j \in 1 .. Len(s[1].lanes), NEW o
  PROVE  SameRoad(s, [s EXCEPT ![1].lanes[j].interval.start = o])
<1> DEFINE row == s[1].lanes
           moved == [row[j] EXCEPT !.interval.start = o]
           new == [row EXCEPT ![j] = moved]
<1>1. 1 \in 1 .. Len(s)
  BY RowsOfRoad
<1>2. /\ 1 \in DOMAIN s /\ "lanes" \in DOMAIN s[1]
      /\ \A i \in 1 .. Len(row) : IsLane(row[i])
      /\ DOMAIN row = 1 .. Len(row)
  BY <1>1, LanesOfRow
<1>3. [s EXCEPT ![1].lanes[j].interval.start = o] = [s EXCEPT ![1].lanes = new]
  BY Zenon
<1>4. SameLane(row[j], moved)
  BY <1>2, MovedBound
<1>5. \A i \in 1 .. Len(row) : SameLane(row[i], row[i])
  BY <1>2, SameIsSame
<1> HIDE DEF moved
<1>6. \A i \in 1 .. Len(row) : SameLane(row[i], new[i])
  BY <1>2, <1>4, <1>5
<1>7. new = [i \in DOMAIN row |-> new[i]]
  OBVIOUS
<1> HIDE DEF new
<1>8. SameRoad(s, [s EXCEPT ![1].lanes = new])
  BY <1>1, <1>6, <1>7, RowOfSegment
<1> QED
  BY <1>3, <1>8 DEF moved

\* A route that is shortened is tied: at a waypoint, off the route, and in all.
LEMMA ShortenAtWaypointTies ==
  ASSUME NEW m, NEW s, Tied(s), NEW w, w.segment \in 1 .. Len(s), NEW mode
  PROVE  Tied(ShortenAtWaypoint(m, s, w, mode).segments)
<1> DEFINE entries == {i \in 1 .. w.segment : EntersIntersection(m, s, i)}
           inside == KeepsIntersections(mode)
                     /\ IsIntersectionLane(m, WaypointLane(s, w)) /\ entries # {}
           cut == CutAt(m, s, w)
           used == IsDegenerated(FrontInterval(cut[1]))
           next == KeepsIntersections(mode) /\ Len(cut) > 1 /\ EntersIntersection(m, cut, 2)
           asked == [lane |-> WaypointLane(s, w), offset |-> w.at]
           kept == IF inside THEN KeptIntersection(s, Max(entries))
                   ELSE IF ~ used THEN AlignRouteStartingPoints(m, cut, asked)
                   ELSE IF next THEN cut ELSE Tail(cut)
<1>1. Linked(s) /\ Ends(s)
  BY DEF Tied
<1>2. Linked(cut) /\ Ends(cut) /\ Len(cut) > 0
  BY <1>1, CutGoesOn
<1>3. ASSUME inside
      PROVE  Linked(KeptIntersection(s, Max(entries)))
             /\ Ends(KeptIntersection(s, Max(entries)))
             /\ Len(KeptIntersection(s, Max(entries))) > 0
  <2>1. Len(s) \in Nat
    BY <1>1, RowsOfRoad DEF Linked
  <2>2. entries \subseteq 2 .. Len(s) /\ entries \subseteq 0 .. Len(s) /\ entries # {}
    BY <1>3, <2>1 DEF EntersIntersection
  <2> HIDE DEF entries
  <2>3. Max(entries) \in entries
    BY <2>1, <2>2, MaxOfNaturals
  <2>4. Max(entries) \in 2 .. Len(s)
    BY <2>2, <2>3
  <2> QED
    BY <1>1, <2>4, KeptGoesOn
<1> HIDE DEF entries, cut
<1>4. /\ Linked(AlignRouteStartingPoints(m, cut, asked))
      /\ Ends(AlignRouteStartingPoints(m, cut, asked))
      /\ Len(AlignRouteStartingPoints(m, cut, asked)) > 0
  <2>1. SameRoad(cut, AlignRouteStartingPoints(m, cut, asked))
    BY <1>2, AlignedRoad DEF Linked
  <2> QED
    BY <1>2, <2>1, FirstRowMoved
<1>5. Linked(Tail(cut)) /\ Ends(Tail(cut))
  BY <1>2, RestOfRoad
<1> HIDE DEF inside, used, next, asked
<1>6. Linked(kept) /\ Ends(kept)
  BY <1>2, <1>3, <1>4, <1>5, Zenon
<1> HIDE DEF kept
<1>7. CASE kept = << >>
  <2>1. ShortenAtWaypoint(m, s, w, mode)
          = [segments |-> kept, result |-> "SucceededRouteEmpty"]
    BY <1>7, Zenon DEF ShortenAtWaypoint, kept, asked, next, used, cut, inside, entries
  <2> QED
    BY <1>7, <2>1, EmptyIsTied
<1>8. CASE kept # << >>
  <2>1. Len(kept) > 0
    BY <1>6, <1>8, RowsOfRoad DEF Linked
  <2>2. Tied(ClearPredecessors(kept))
    BY <1>6, <2>1, ClearPredecessorsTies
  <2>3. ShortenAtWaypoint(m, s, w, mode)
          = [segments |-> ClearPredecessors(kept),
             result |-> IF inside \/ (used /\ next)
                        THEN "SucceededIntersectionNotCut" ELSE "Succeeded"]
    BY <1>8, Zenon DEF ShortenAtWaypoint, kept, asked, next, used, cut, inside, entries
  <2> QED
    BY <2>2, <2>3
<1> QED
  BY <1>7, <1>8

LEMMA ShortenOffRouteTies ==
  ASSUME NEW m, NEW s, Tied(s), Len(s) > 0, NEW positions, NEW mode
  PROVE  Tied(ShortenOffRoute(m, s, positions, mode).segments)
<1> DEFINE first == s[1].lanes
           LiesBefore(p, ls) == p.lane = LaneOf(ls) /\ IsBeforeInterval(m, ls.interval, p.offset)
           begins == {j \in DOMAIN first : \E p \in ToSet(positions) : LiesBefore(p, first[j])}
           j == Min(begins)
           p == positions[Min({k \in DOMAIN positions : LiesBefore(positions[k], first[j])})]
           moved == [s EXCEPT ![1].lanes[j].interval.start = p.offset]
           begun == AlignRouteStartingPoints(m, moved, p)
           found == ShortenOffRoute(m, s, positions, mode).segments
<1>1. \/ begins # {} /\ (found = s \/ found = begun)
      \/ found = << >>
  BY DEF ShortenOffRoute
<1> HIDE DEF found
<1>2. CASE found = << >>
  BY <1>2, EmptyIsTied DEF found
<1>3. CASE found = s
  BY <1>3 DEF found
<1>4. CASE begins # {} /\ found = begun
  <2>1. IsRoad(s) /\ 1 \in 1 .. Len(s)
    BY RowsOfRoad DEF Tied, Linked
  <2>2. DOMAIN first = 1 .. Len(first) /\ Len(first) \in Nat
    BY <2>1, LanesOfRow
  <2>3. j \in 1 .. Len(first)
    <3>1. begins \subseteq 1 .. Len(first) /\ begins \subseteq Nat
      BY <2>2
    <3> HIDE DEF begins
    <3>2. Min(begins) \in begins
      BY <1>4, <3>1, MinOfNaturals
    <3> QED
      BY <3>1, <3>2
  <2> HIDE DEF j, p, LiesBefore, begins
  <2> DEFINE o == p.offset
  <2> HIDE DEF o
  <2>4. SameRoad(s, [s EXCEPT ![1].lanes[j].interval.start = o])
    BY <2>1, <2>3, BegunLaneIsSame
  <2>5. SameRoad(s, moved)
    BY <2>4 DEF o
  <2> HIDE DEF moved
  <2>6. IsRoad(moved)
    BY <2>1, <2>5, SameRoadIsLinked
  <2>7. SameRoad(moved, begun)
    BY <2>6, AlignedRoad
  <2>8. SameRoad(s, begun)
    BY <2>1, <2>5, <2>7, SameTwice
  <2>9. Tied(begun)
    BY <2>8, SameRoadIsLinked
  <2> QED
    BY <1>4, <2>9 DEF found
<1> QED
  BY <1>1, <1>2, <1>3, <1>4

LEMMA ShortenTies ==
  ASSUME NEW m, NEW s, Tied(s), NEW w, w = NoWaypoint \/ w.segment \in 1 .. Len(s),
         NEW positions, NEW mode
  PROVE  Tied(Shorten(m, s, w, positions, mode).segments)
<1>1. CASE s = << >>
  BY <1>1, EmptyIsTied DEF Shorten
<1>2. CASE s # << >> /\ w # NoWaypoint
  BY <1>2, ShortenAtWaypointTies DEF Shorten
<1>3. CASE s # << >> /\ w = NoWaypoint
  <2>1. Len(s) > 0
    BY <1>3, RowsOfRoad DEF Tied, Linked
  <2> QED
    BY <1>3, <2>1, ShortenOffRouteTies DEF Shorten
<1> QED
  BY <1>1, <1>2, <1>3

-----------------------------------------------------------------------------
(* Places on a route.                                                        *)

\* The waypoints that are looked for are on the route, or there is none.
LEMMA FirstPlaceIsOnRoute ==
  ASSUME NEW s, IsRoad(s), NEW places, places \subseteq Places(s), NEW at
  PROVE  FirstPlace(places, at) = NoWaypoint \/ FirstPlace(places, at).segment \in 1 .. Len(s)
<1>1. CASE places = {}
  BY <1>1 DEF FirstPlace
<1>2. CASE places # {}
  <2> DEFINE S == {w.segment : w \in places}
  <2>1. S \subseteq 1 .. Len(s) /\ S \subseteq Nat /\ S # {}
    BY <1>2, RowsOfRoad DEF Places
  <2> HIDE DEF S
  <2>2. Min(S) \in 1 .. Len(s)
    BY <2>1, MinOfNaturals
  <2> DEFINE l == Min({w.lane : w \in {x \in places : x.segment = Min(S)}})
  <2> HIDE DEF l
  <2>3. FirstPlace(places, at) = [segment |-> Min(S), at |-> at, lane |-> l]
    BY <1>2, Zenon DEF FirstPlace, S, l
  <2> QED
    BY <2>2, <2>3
<1> QED
  BY <1>1, <1>2

LEMMA FoundWaypointIsOnRoute ==
  ASSUME NEW m, NEW s, IsRoad(s), NEW p
  PROVE  FindWaypoint(m, s, p) = NoWaypoint \/ FindWaypoint(m, s, p).segment \in 1 .. Len(s)
<1> DEFINE holds(w) == LET v == LaneSegment(s, w).interval
                       IN  /\ v.lane = p.lane
                           /\ IsWithinInterval(m, ExtendInterval(m, v, Tolerance), p.offset)
           places == {w \in Places(s) : holds(w)}
           o == p.offset
<1>1. FindWaypoint(m, s, p) = FirstPlace(places, o)
  BY DEF FindWaypoint
<1>2. places \subseteq Places(s)
  OBVIOUS
<1> HIDE DEF places, o
<1>3. FirstPlace(places, o) = NoWaypoint \/ FirstPlace(places, o).segment \in 1 .. Len(s)
  BY <1>2, FirstPlaceIsOnRoute
<1> QED
  BY <1>1, <1>3

LEMMA WaypointAtLengthIsOnRoute ==
  ASSUME NEW m, NEW s, IsRoad(s), NEW distance
  PROVE  \/ FindWaypointAtLength(m, s, distance) = NoWaypoint
         \/ FindWaypointAtLength(m, s, distance).segment \in 1 .. Len(s)
<1> DEFINE before[i \in 0 .. Len(s)] ==
             IF i = 0 THEN 0 ELSE before[i - 1] + SegmentLength(m, s[i])
           far == {i \in DOMAIN s : before[i] >= distance}
           at == ShortenIntervalFromBegin(m, FrontInterval(s[Min(far)]),
                                          distance - before[Min(far) - 1]).start
<1> HIDE DEF before, at
<1>1. far \subseteq 1 .. Len(s) /\ far \subseteq Nat
  BY RowsOfRoad
<1> HIDE DEF far
<1>2. FindWaypointAtLength(m, s, distance)
        = IF far = {} THEN NoWaypoint ELSE [segment |-> Min(far), lane |-> 1, at |-> at]
  BY Zenon DEF FindWaypointAtLength, far, at, before
<1>3. far # {} => Min(far) \in 1 .. Len(s)
  BY <1>1, MinOfNaturals
<1> QED
  BY <1>2, <1>3

-----------------------------------------------------------------------------
(* Cutting a route at its end.                                               *)

\* shortenSegmentFromEnd moves ends only.
LEMMA ShorterEndIsSame ==
  ASSUME NEW m, NEW segment, "lanes" \in DOMAIN segment, IsRow(segment.lanes), NEW distance
  PROVE  /\ "lanes" \in DOMAIN ShortenSegmentFromEnd(m, segment, distance)
         /\ SameRow(segment.lanes, ShortenSegmentFromEnd(m, segment, distance).lanes)
<1> DEFINE row == segment.lanes
           e == ShortenIntervalFromEnd(m, FrontInterval(segment), distance).end
           new == [j \in DOMAIN row |-> [row[j] EXCEPT !.interval.end = e]]
<1> HIDE DEF e
<1>1. ShortenSegmentFromEnd(m, segment, distance) = [segment EXCEPT !.lanes = new]
  BY DEF ShortenSegmentFromEnd, e
<1>2. DOMAIN row = 1 .. Len(row) /\ \A j \in 1 .. Len(row) : IsLane(row[j])
  BY RowBasics DEF IsRow
<1>3. \A j \in 1 .. Len(row) : SameLane(row[j], new[j])
  BY <1>2, MovedBound
<1>4. new = [j \in DOMAIN row |-> new[j]]
  OBVIOUS
<1> HIDE DEF new
<1>5. SameRow(row, new)
  BY <1>3, <1>4, RowOfSameLanes
<1> QED
  BY <1>1, <1>5

\* A front part of a road with a shorter last segment.
LEMMA FrontAndShorterEnd ==
  ASSUME NEW m, NEW s, Linked(s), Begins(s), NEW n \in 0 .. Len(s) - 1, NEW distance
  PROVE  LET t == Append(SubSeq(s, 1, n), ShortenSegmentFromEnd(m, s[n + 1], distance))
         IN  Linked(t) /\ Begins(t) /\ Len(t) > 0
<1> DEFINE last == ShortenSegmentFromEnd(m, s[n + 1], distance)
           front == SubSeq(s, 1, n)
           t == Append(front, last)
           u == SubSeq(s, 1, n + 1)
<1> HIDE DEF last, front, u
<1>1. Len(s) \in Nat /\ IsList(s) /\ n + 1 \in 1 .. Len(s)
  BY RowsOfRoad DEF Linked, IsRoad
<1>2. n \in 0 .. Len(s) /\ n + 1 \in 0 .. Len(s) /\ n \in Nat
  BY <1>1
<1>3. Linked(u) /\ Begins(u) /\ Len(u) = n + 1
  BY <1>2, FrontPart DEF u
<1>4. \A i \in 1 .. n + 1 : u[i] = s[i]
  <2>1. 1 \in 1 .. Len(s) + 1 /\ n + 1 \in 1 - 1 .. Len(s) /\ (n + 1) - 1 + 1 = n + 1
    BY <1>1
  <2>2. \A i \in 1 .. (n + 1) - 1 + 1 : u[i] = s[1 + i - 1]
    BY <1>1, <2>1, ListPart DEF u
  <2>3. \A i \in 1 .. n + 1 : 1 + i - 1 = i
    BY <1>1
  <2> QED
    BY <2>1, <2>2, <2>3
<1>5. IsList(front) /\ Len(front) = n /\ \A i \in 1 .. n : front[i] = s[i]
  <2>1. 1 \in 1 .. Len(s) + 1 /\ n \in 1 - 1 .. Len(s) /\ n - 1 + 1 = n
    BY <1>1
  <2>2. /\ IsList(front) /\ Len(front) = n - 1 + 1
        /\ \A i \in 1 .. n - 1 + 1 : front[i] = s[1 + i - 1]
    BY <1>1, <2>1, ListPart DEF front
  <2>3. \A i \in 1 .. n : 1 + i - 1 = i
    BY <1>1
  <2> QED
    BY <2>1, <2>2, <2>3
<1>6. IsList(t) /\ Len(t) = n + 1 /\ t[n + 1] = last /\ \A i \in 1 .. n : t[i] = s[i]
  BY <1>5, ListAppended
<1>7. "lanes" \in DOMAIN last /\ SameRow(s[n + 1].lanes, last.lanes)
  BY <1>1, RowsOfRoad, ShorterEndIsSame DEF Linked, last
<1> HIDE DEF t
<1>8. SameRoad(u, t)
  <2>1. \A i \in 1 .. n + 1 : "lanes" \in DOMAIN s[i] /\ IsRow(s[i].lanes)
    BY <1>1, RowsOfRoad DEF Linked
  <2>2. ASSUME NEW i \in 1 .. n + 1
        PROVE  "lanes" \in DOMAIN t[i] /\ SameRow(u[i].lanes, t[i].lanes)
    <3>1. CASE i = n + 1
      BY <1>4, <1>6, <1>7, <3>1
    <3>2. CASE i # n + 1
      BY <1>2, <1>4, <1>6, <2>1, <3>2, SameIsSame
    <3> QED
      BY <3>1, <3>2
  <2> QED
    BY <1>3, <1>6, <2>2 DEF SameRoad
<1>9. Linked(t) /\ Begins(t)
  BY <1>3, <1>8, SameRoadIsLinked DEF Linked
<1>10. Linked(t) /\ Begins(t) /\ Len(t) > 0
  BY <1>2, <1>6, <1>9
<1> QED
  BY <1>10, Zenon DEF t, front, last

\* How far the road goes up to each of its segments.
LengthsUpTo(t, m, s, N) ==
  t = [i \in 0 .. N |-> IF i = 0 THEN 0 ELSE t[i - 1] + SegmentLength(m, s[i])]

LEMMA LengthsAreRepeated ==
  ASSUME NEW m, NEW s, NEW N \in Nat
  PROVE  \E t : LengthsUpTo(t, m, s, N)
<1> DEFINE Table(t, k) ==
             t = [i \in 0 .. k |-> IF i = 0 THEN 0 ELSE t[i - 1] + SegmentLength(m, s[i])]
           Tabled == { k \in 0 .. N : \E t : Table(t, k) }
<1>1. 0 \in Tabled
  <2> DEFINE t == [i \in 0 .. 0 |-> 0]
  <2>1. Table(t, 0)
    OBVIOUS
  <2>2. 0 \in 0 .. N
    OBVIOUS
  <2> HIDE DEF t, Table
  <2> QED
    BY <2>1, <2>2
<1>2. ASSUME NEW k \in 0 .. N - 1, k \in Tabled PROVE k + 1 \in Tabled
  <2>1. PICK t : Table(t, k)
    BY <1>2
  <2> DEFINE x == t[k] + SegmentLength(m, s[k + 1])
             u == [i \in 0 .. k + 1 |-> IF i = k + 1 THEN x ELSE t[i]]
  <2>2. k \in Nat /\ k + 1 \in 0 .. N
    OBVIOUS
  <2>3. \A i \in 0 .. k : t[i] = IF i = 0 THEN 0 ELSE t[i - 1] + SegmentLength(m, s[i])
    BY <2>1
  <2>4. ASSUME NEW i \in 0 .. k + 1
        PROVE  u[i] = IF i = 0 THEN 0 ELSE u[i - 1] + SegmentLength(m, s[i])
    <3>1. CASE i = k + 1
      <4>1. i # 0 /\ i - 1 = k /\ i - 1 \in 0 .. k + 1 /\ i - 1 # k + 1
        BY <2>2, <3>1
      <4>2. u[i] = x /\ u[i - 1] = t[k]
        BY <3>1, <4>1
      <4> HIDE DEF u
      <4> QED
        BY <3>1, <4>1, <4>2
    <3>2. CASE i # k + 1
      <4>1. i \in 0 .. k /\ u[i] = t[i] /\ (i # 0 => u[i - 1] = t[i - 1])
        BY <2>2, <3>2
      <4> HIDE DEF u
      <4> QED
        BY <2>3, <4>1
    <3> QED
      BY <3>1, <3>2
  <2>5. u = [i \in 0 .. k + 1 |-> u[i]]
    OBVIOUS
  <2> HIDE DEF u
  <2>6. Table(u, k + 1)
    BY <2>4, <2>5, Zenon
  <2> HIDE DEF Table
  <2> QED
    BY <2>2, <2>6
<1>3. N \in Tabled
  <2>1. \A k \in 0 .. N : k \in Tabled
    <3> HIDE DEF Tabled
    <3> QED
      BY <1>1, <1>2, UpFromZero
  <2> QED
    BY <2>1
<1> QED
  BY <1>3, Zenon DEF LengthsUpTo

\* removeLastRoadSegment and the removal of a degenerated end leave a tied route.
LEMMA WithoutLastTies ==
  ASSUME NEW s, Tied(s), Len(s) > 0
  PROVE  Tied(WithoutLastSegment(s))
<1> DEFINE kept == SubSeq(s, 1, Len(s) - 1)
<1>1. Len(s) \in Nat
  BY RowsOfRoad DEF Tied, Linked
<1>2. Len(s) - 1 \in 0 .. Len(s)
  BY <1>1
<1>3. Linked(kept) /\ Begins(kept)
  BY <1>2, FrontPart DEF Tied
<1> HIDE DEF kept
<1>4. CASE kept = << >>
  BY <1>4, EmptyIsTied DEF WithoutLastSegment, kept
<1>5. CASE kept # << >>
  <2>1. Len(kept) > 0
    BY <1>3, <1>5, RowsOfRoad DEF Linked
  <2>2. Tied(ClearSuccessors(kept))
    BY <1>3, <2>1, ClearSuccessorsTies
  <2> QED
    BY <1>5, <2>2 DEF WithoutLastSegment, kept
<1> QED
  BY <1>4, <1>5

LEMMA WithoutDegeneratedTies ==
  ASSUME NEW s, Tied(s)
  PROVE  Tied(WithoutDegeneratedEnd(s))
<1>1. CASE s # << >> /\ IsDegenerated(FrontInterval(Last(s)))
  <2>1. Len(s) > 0
    BY <1>1, RowsOfRoad DEF Tied, Linked
  <2> QED
    BY <1>1, <2>1, WithoutLastTies DEF WithoutDegeneratedEnd
<1>2. CASE ~ (s # << >> /\ IsDegenerated(FrontInterval(Last(s))))
  BY <1>2 DEF WithoutDegeneratedEnd
<1> QED
  BY <1>1, <1>2

\* shortenRouteToDistance leaves a tied route.
LEMMA CutToDistanceTies ==
  ASSUME NEW m, NEW s, Tied(s), NEW distance \in Nat, NEW mode
  PROVE  Tied(CutToDistance(m, s, distance, mode))
<1> DEFINE N == Len(s)
           Way(t) == LengthsUpTo(t, m, s, N)
           upTo == CHOOSE t : Way(t)
           reached == {i \in 0 .. N : upTo[i] = distance}
           below == {i \in 0 .. N : upTo[i] <= distance}
           n == IF reached # {} THEN Min(reached) ELSE Max(below)
           rest == distance - upTo[n]
           inside == mode = "DontCutIntersection"
                     /\ IsIntersectionLane(m, FrontLane(s[n + 1]))
           behind == {i \in n + 2 .. N : ~ IsIntersectionLane(m, FrontLane(s[i]))}
           stop == Min({i - 1 : i \in behind} \cup {N})
           over == SegmentLength(m, s[n + 1]) - rest
           kept == IF rest = 0 \/ n = N THEN SubSeq(s, 1, n)
                   ELSE IF inside THEN SubSeq(s, 1, stop)
                   ELSE Append(SubSeq(s, 1, n), ShortenSegmentFromEnd(m, s[n + 1], over))
<1>1. N \in Nat /\ Linked(s) /\ Begins(s)
  <2>1. Linked(s) /\ Begins(s) /\ IsRoad(s)
    BY Zenon DEF Tied, Linked
  <2>2. Len(s) \in Nat
    BY <2>1, RowsOfRoad
  <2> QED
    BY Zenon, <2>1, <2>2
<1>2. Way(upTo)
  <2>1. \E t : Way(t)
    BY <1>1, LengthsAreRepeated
  <2> HIDE DEF Way
  <2> QED
    BY <2>1
<1> HIDE DEF upTo
<1>3. upTo[0] = 0
  BY <1>1, <1>2 DEF LengthsUpTo
<1>4. CutToDistance(m, s, distance, mode)
        = IF kept = << >> THEN kept ELSE ClearSuccessors(kept)
  BY Zenon DEF CutToDistance, upTo, LengthsUpTo
<1>5. n \in 0 .. N
  <2>1. reached \subseteq 0 .. N /\ reached \subseteq Nat /\ below \subseteq 0 .. N
    OBVIOUS
  <2>2. 0 \in below
    BY <1>1, <1>3
  <2>3. below # {}
    BY <2>2
  <2> HIDE DEF reached, below, N
  <2>4. reached # {} => Min(reached) \in reached
    BY <2>1, MinOfNaturals
  <2>5. Max(below) \in below
    BY <1>1, <2>1, <2>3, MaxOfNaturals
  <2> QED
    BY <2>1, <2>4, <2>5
<1>6. stop \in 0 .. N
  <2> DEFINE S == {i - 1 : i \in behind} \cup {N}
  <2> HIDE DEF n
  <2>1. n \in Nat
    BY <1>5
  <2>2. S \subseteq 0 .. N /\ S \subseteq Nat /\ S # {}
    <3> HIDE DEF N
    <3> QED
      BY <1>1, <2>1
  <2> HIDE DEF S
  <2>3. Min(S) \in S
    BY <2>2, MinOfNaturals
  <2> QED
    BY <2>2, <2>3 DEF S
<1> HIDE DEF n, stop, over, inside, rest
<1>7. Linked(kept) /\ Begins(kept)
  <2>1. Linked(SubSeq(s, 1, n)) /\ Begins(SubSeq(s, 1, n))
    BY <1>1, <1>5, FrontPart
  <2>2. Linked(SubSeq(s, 1, stop)) /\ Begins(SubSeq(s, 1, stop))
    BY <1>1, <1>6, FrontPart
  <2>3. ASSUME n # N
        PROVE  LET t == Append(SubSeq(s, 1, n), ShortenSegmentFromEnd(m, s[n + 1], over))
               IN  Linked(t) /\ Begins(t)
    <3>1. n \in 0 .. Len(s) - 1
      BY <1>1, <1>5, <2>3
    <3> QED
      BY <1>1, <3>1, FrontAndShorterEnd
  <2> QED
    BY <2>1, <2>2, <2>3
<1> HIDE DEF kept
<1>8. CASE kept = << >>
  BY <1>4, <1>8, EmptyIsTied
<1>9. CASE kept # << >>
  <2>1. Len(kept) > 0
    BY <1>7, <1>9, RowsOfRoad DEF Linked
  <2> QED
    BY <1>4, <1>7, <1>9, <2>1, ClearSuccessorsTies
<1> QED
  BY <1>8, <1>9

-----------------------------------------------------------------------------
(* The lanes beside a lane.                                                  *)

\* One lane further to the side.
SideStep(m, mode, l, side, relevant, met) ==
  LET beside == ContactLanes(m, Last(met), side)
  IN  IF /\ Len(beside) = 1
         /\ IsLaneRelevantForExpansion(beside[1].to, relevant)
         /\ ~ Contains(met, beside[1].to)
         /\ IsTaken(m, mode, l, beside[1].to)
      THEN Append(met, beside[1].to) ELSE met

\* The lanes met after each number of steps to the side.
WalksAside(t, m, mode, l, side, relevant, N) ==
  t = [i \in 0 .. N |-> IF i = 0 THEN <<l>> ELSE SideStep(m, mode, l, side, relevant, t[i - 1])]

LEMMA WalkIsRepeated ==
  ASSUME NEW m, NEW mode, NEW l, NEW side, NEW relevant, NEW N \in Nat
  PROVE  \E t : WalksAside(t, m, mode, l, side, relevant, N)
<1> DEFINE Step(i, x) == SideStep(m, mode, l, side, relevant, x)
           Table(t, k) == t = [i \in 0 .. k |-> IF i = 0 THEN <<l>> ELSE Step(i, t[i - 1])]
           Tabled == { k \in 0 .. N : \E t : Table(t, k) }
<1> HIDE DEF Step
<1>1. 0 \in Tabled
  <2> DEFINE t == [i \in 0 .. 0 |-> <<l>>]
  <2>1. Table(t, 0)
    OBVIOUS
  <2>2. 0 \in 0 .. N
    OBVIOUS
  <2> HIDE DEF t, Table
  <2> QED
    BY <2>1, <2>2
<1>2. ASSUME NEW k \in 0 .. N - 1, k \in Tabled PROVE k + 1 \in Tabled
  <2>1. PICK t : Table(t, k)
    BY <1>2
  <2> DEFINE x == Step(k + 1, t[k])
             u == [i \in 0 .. k + 1 |-> IF i = k + 1 THEN x ELSE t[i]]
  <2>2. k \in Nat /\ k + 1 \in 0 .. N
    OBVIOUS
  <2>3. \A i \in 0 .. k : t[i] = IF i = 0 THEN <<l>> ELSE Step(i, t[i - 1])
    BY <2>1
  <2>4. ASSUME NEW i \in 0 .. k + 1
        PROVE  u[i] = IF i = 0 THEN <<l>> ELSE Step(i, u[i - 1])
    <3>1. CASE i = k + 1
      <4>1. i # 0 /\ i - 1 = k /\ i - 1 \in 0 .. k + 1 /\ i - 1 # k + 1
        BY <2>2, <3>1
      <4>2. u[i] = x /\ u[i - 1] = t[k]
        BY <3>1, <4>1
      <4> HIDE DEF u
      <4> QED
        BY <3>1, <4>1, <4>2
    <3>2. CASE i # k + 1
      <4>1. i \in 0 .. k /\ u[i] = t[i] /\ (i # 0 => u[i - 1] = t[i - 1])
        BY <2>2, <3>2
      <4> HIDE DEF u
      <4> QED
        BY <2>3, <4>1
    <3> QED
      BY <3>1, <3>2
  <2>5. u = [i \in 0 .. k + 1 |-> u[i]]
    OBVIOUS
  <2> HIDE DEF u
  <2>6. Table(u, k + 1)
    BY <2>4, <2>5, Zenon
  <2> HIDE DEF Table
  <2> QED
    BY <2>2, <2>6
<1>3. N \in Tabled
  <2>1. \A k \in 0 .. N : k \in Tabled
    <3> HIDE DEF Tabled
    <3> QED
      BY <1>1, <1>2, UpFromZero
  <2> QED
    BY <2>1
<1> QED
  BY <1>3, Zenon DEF WalksAside, Step

\* The neighbours getNeighborLanes walks to are a list.
LEMMA SideLanesAreAList ==
  ASSUME NEW m, IsFiniteSet(m.lanes), NEW mode, NEW l, NEW side, NEW relevant
  PROVE  IsList(SideLanes(m, mode, l, side, relevant))
         /\ Len(SideLanes(m, mode, l, side, relevant)) > 0
<1> DEFINE N == Cardinality(m.lanes)
           walk == CHOOSE t : WalksAside(t, m, mode, l, side, relevant, N)
<1>1. N \in Nat
  BY FS_CardinalityType
<1>2. WalksAside(walk, m, mode, l, side, relevant, N)
  <2> HIDE DEF N
  <2>1. \E t : WalksAside(t, m, mode, l, side, relevant, N)
    BY <1>1, WalkIsRepeated
  <2> QED
    BY <2>1
<1>3. SideLanes(m, mode, l, side, relevant) = walk[N]
  BY Zenon DEF SideLanes, WalksAside, SideStep
<1> HIDE DEF walk, N
<1>4. /\ walk[0] = <<l>>
      /\ \A i \in 1 .. N : walk[i] = SideStep(m, mode, l, side, relevant, walk[i - 1])
  BY <1>1, <1>2 DEF WalksAside
<1> DEFINE Lists == { i \in 0 .. N : IsList(walk[i]) /\ Len(walk[i]) > 0 }
<1>5. 0 \in Lists
  <2>1. <<l>> \in Seq({l}) /\ Len(<<l>>) > 0
    OBVIOUS
  <2>2. IsList(<<l>>)
    BY <2>1, SequencesAreLists
  <2> QED
    BY <1>1, <1>4, <2>1, <2>2
<1>6. ASSUME NEW k \in 0 .. N - 1, k \in Lists PROVE k + 1 \in Lists
  <2> DEFINE met == walk[k]
             x == ContactLanes(m, Last(met), side)[1].to
  <2> HIDE DEF met, x
  <2>1. k + 1 \in 1 .. N /\ k + 1 - 1 = k /\ k + 1 \in 0 .. N
    BY <1>1
  <2>2. walk[k + 1] = SideStep(m, mode, l, side, relevant, met)
    BY <1>4, <2>1 DEF met
  <2>3. walk[k + 1] = met \/ walk[k + 1] = Append(met, x)
    BY <2>2, Zenon DEF SideStep, x
  <2>4. IsList(met) /\ Len(met) > 0
    BY <1>6 DEF met
  <2>5. IsList(Append(met, x)) /\ Len(Append(met, x)) > 0
    <3>1. IsList(Append(met, x)) /\ Len(Append(met, x)) = Len(met) + 1 /\ Len(met) \in Nat
      BY <2>4, ListAppended, ListProperties
    <3> QED
      BY <3>1
  <2> QED
    BY <2>1, <2>3, <2>4, <2>5
<1>7. \A k \in 0 .. N : k \in Lists
  <2> HIDE DEF Lists
  <2> QED
    BY <1>1, <1>5, <1>6, UpFromZero
<1> QED
  BY <1>1, <1>3, <1>7

-----------------------------------------------------------------------------
(* A segment is appended.                                                    *)

\* The lanes of a new segment lie beside each other and lead nowhere yet.
LEMMA NewLanesAreBeside ==
  ASSUME NEW m, NEW v, IsStretch(v), NEW row, IsList(row), Len(row) > 0,
         NEW own, NEW offset
  PROVE  LET new == NewLanes(m, v, row, own, offset)
         IN  /\ IsRow(new) /\ SideBySide(new)
             /\ \A j \in 1 .. Len(new) : new[j].preds = {} /\ new[j].succs = {}
<1> DEFINE Neighbor2(i) == IF i \in DOMAIN row THEN row[i] ELSE NoLane
           Wrong(l) == IF m.direction[l] = m.direction[v.lane] THEN v.wrongWay ELSE ~ v.wrongWay
           Offset(i) == MovedOffset(i < own, offset, Gap(i, own))
           Lane(i) == [interval |-> [v EXCEPT !.lane = row[i], !.wrongWay = Wrong(row[i])],
                       right |-> Neighbor2(i - 1), left |-> Neighbor2(i + 1),
                       preds |-> {}, succs |-> {}, offset |-> Offset(i)]
           new == [i \in DOMAIN row |-> Lane(i)]
<1>1. NewLanes(m, v, row, own, offset) = new
  BY DEF NewLanes
<1>2. Len(row) \in Nat /\ DOMAIN row = 1 .. Len(row)
  BY ListProperties
<1> HIDE DEF Wrong, Offset, Neighbor2
<1>3. ASSUME NEW i \in 1 .. Len(row)
      PROVE  /\ IsLane(new[i]) /\ LaneOf(new[i]) = row[i]
             /\ new[i].right = Neighbor2(i - 1) /\ new[i].left = Neighbor2(i + 1)
             /\ new[i].preds = {} /\ new[i].succs = {}
  <2>1. new[i] = Lane(i)
    BY <1>2
  <2> DEFINE w == [v EXCEPT !.lane = row[i], !.wrongWay = Wrong(row[i])]
  <2>2. w.lane = row[i] /\ IsStretch(w)
    BY DEF IsStretch
  <2>3. Lane(i) = [interval |-> w, right |-> Neighbor2(i - 1), left |-> Neighbor2(i + 1),
                   preds |-> {}, succs |-> {}, offset |-> Offset(i)]
    OBVIOUS
  <2> HIDE DEF w, Lane, new
  <2> QED
    BY <2>1, <2>2, <2>3 DEF IsLane, LaneOf
<1> HIDE DEF Lane
<1>4. new = [i \in 1 .. Len(row) |-> new[i]]
  BY <1>2
<1> HIDE DEF new
<1>5. IsList(new) /\ Len(new) = Len(row) /\ DOMAIN new = 1 .. Len(row)
  BY <1>2, <1>4, ListsAreFunctions
<1>6. IsRow(new)
  BY <1>3, <1>5 DEF IsRow
<1>7. \A i : LaneAt(new, i) = Neighbor2(i)
  BY <1>2, <1>3, <1>5 DEF LaneAt, Neighbor2
<1>8. SideBySide(new)
  BY <1>3, <1>5, <1>7 DEF SideBySide
<1> QED
  BY <1>1, <1>3, <1>5, <1>6, <1>8

\* The lanes before lane l that a segment names.
PredsOf(m, l, positive, before) ==
  {m.contacts[l][i].to : i \in LinksBack(m, l, positive, before)}

\* A lane that is joined names those of the lanes before it that lead to it,
\* as their contacts have it, and so do all lanes of the new segment.
LEMMA JoinedLaneKnowsThoseBefore ==
  ASSUME NEW m, NEW ls, IsLane(ls), ls.preds = {}, NEW positive, NEW before
  PROVE  LET new == JoinedLane(m, ls, LinksBack(m, LaneOf(ls), positive, before), before)
         IN  /\ IsLane(new) /\ LaneOf(new) = LaneOf(ls)
             /\ new.left = ls.left /\ new.right = ls.right /\ new.succs = ls.succs
             /\ new.preds = PredsOf(m, LaneOf(ls), positive, before)
<1> DEFINE links == LinksBack(m, LaneOf(ls), positive, before)
           preds == {m.contacts[LaneOf(ls)][i].to : i \in links}
           o == SegmentOfLane(before, m.contacts[LaneOf(ls)][Max(links)].to).offset
           new == [ls EXCEPT !.preds = preds, !.offset = o]
<1>1. JoinedLane(m, ls, links, before) = IF links = {} THEN ls ELSE new
  BY Zenon DEF JoinedLane
<1>2. preds = PredsOf(m, LaneOf(ls), positive, before)
  BY DEF PredsOf
<1>3. links = {} => preds = {}
  OBVIOUS
<1> HIDE DEF links, preds, o
<1>4. /\ IsLane(new) /\ LaneOf(new) = LaneOf(ls)
      /\ new.left = ls.left /\ new.right = ls.right /\ new.succs = ls.succs
      /\ new.preds = preds
  BY DEF IsLane, LaneOf
<1> HIDE DEF new
<1>5. CASE links = {}
  BY <1>1, <1>2, <1>3, <1>5 DEF links
<1>6. CASE links # {}
  BY <1>1, <1>2, <1>4, <1>6 DEF links
<1> QED
  BY <1>5, <1>6

\* A row beside itself whose lanes name those of the segments' end that lead to
\* them, and none after them yet.
KnowsThoseBefore(m, row, positive, segments) ==
  /\ IsRow(row) /\ SideBySide(row)
  /\ \A j \in 1 .. Len(row) :
       /\ row[j].succs = {}
       /\ row[j].preds = IF segments = << >> THEN {}
                         ELSE PredsOf(m, LaneOf(row[j]), positive, Last(segments))

LEMMA JoinedLanesKnowThoseBefore ==
  ASSUME NEW m, NEW lanes, IsRow(lanes), SideBySide(lanes),
         \A j \in 1 .. Len(lanes) : lanes[j].preds = {} /\ lanes[j].succs = {},
         NEW positive, NEW segments
  PROVE  KnowsThoseBefore(m, JoinedLanes(m, lanes, positive, segments), positive, segments)
<1>1. CASE segments = << >>
  BY <1>1 DEF JoinedLanes, KnowsThoseBefore
<1>2. CASE segments # << >>
  <2> DEFINE before == Last(segments)
  <2> HIDE DEF before
  <2> DEFINE new == [i \in DOMAIN lanes |->
                       JoinedLane(m, lanes[i], LinksBack(m, LaneOf(lanes[i]), positive, before),
                                  before)]
  <2>1. JoinedLanes(m, lanes, positive, segments) = new
    BY <1>2 DEF JoinedLanes, before
  <2>2. /\ Len(lanes) \in Nat \ {0} /\ DOMAIN lanes = 1 .. Len(lanes)
        /\ \A j \in 1 .. Len(lanes) : IsLane(lanes[j])
    BY RowBasics DEF IsRow
  <2>3. ASSUME NEW j \in 1 .. Len(lanes)
        PROVE  /\ IsLane(new[j]) /\ LaneOf(new[j]) = LaneOf(lanes[j])
               /\ new[j].left = lanes[j].left /\ new[j].right = lanes[j].right
               /\ new[j].succs = {}
               /\ new[j].preds = PredsOf(m, LaneOf(lanes[j]), positive, before)
    <3>1. IsLane(lanes[j]) /\ lanes[j].preds = {} /\ lanes[j].succs = {}
      BY <2>2
    <3>2. new[j] = JoinedLane(m, lanes[j], LinksBack(m, LaneOf(lanes[j]), positive, before),
                              before)
      BY <2>2
    <3> HIDE DEF new
    <3> QED
      BY <3>1, <3>2, JoinedLaneKnowsThoseBefore
  <2>4. new = [i \in 1 .. Len(lanes) |-> new[i]]
    BY <2>2
  <2> HIDE DEF new
  <2>5. IsList(new) /\ Len(new) = Len(lanes) /\ DOMAIN new = 1 .. Len(lanes)
    BY <2>2, <2>4, ListsAreFunctions
  <2>6. IsRow(new)
    BY <2>2, <2>3, <2>5 DEF IsRow
  <2>7. \A j : LaneAt(new, j) = LaneAt(lanes, j)
    BY <2>2, <2>3, <2>5 DEF LaneAt
  <2>8. SideBySide(new)
    BY <2>3, <2>5, <2>7 DEF SideBySide
  <2>9. \A j \in 1 .. Len(new) :
          /\ new[j].succs = {}
          /\ new[j].preds = PredsOf(m, LaneOf(new[j]), positive, before)
    BY <2>3, <2>5
  <2> QED
    BY <1>2, <2>1, <2>6, <2>8, <2>9 DEF before, KnowsThoseBefore
<1> QED
  BY <1>1, <1>2

\* The last lanes of a road name the lanes that name them.
LEMMA LastLanesKnowThoseAfter ==
  ASSUME NEW row, IsRow(row), SideBySide(row),
         \A j \in 1 .. Len(row) : row[j].succs = {},
         NEW lanes, IsRow(lanes),
         \A k \in 1 .. Len(lanes) : lanes[k].preds \subseteq IdsOf(row),
         \A k, n \in 1 .. Len(lanes) :
           LaneOf(lanes[k]) = LaneOf(lanes[n]) => lanes[k].preds = lanes[n].preds,
         NEW new,
         new = [j \in DOMAIN row |-> new[j]],
         \A j \in DOMAIN row : new[j] = Knowing(row[j], ToSet(lanes))
  PROVE  /\ IsRow(new) /\ SideBySide(new) /\ Joined(new, lanes)
         /\ Len(new) = Len(row) /\ IdsOf(new) = IdsOf(row)
         /\ \A j \in 1 .. Len(row) :
              LaneOf(new[j]) = LaneOf(row[j]) /\ new[j].preds = row[j].preds
<1> DEFINE After(j) == {LaneOf(k) : k \in {n \in ToSet(lanes) : LaneOf(row[j]) \in n.preds}}
<1>1. /\ Len(row) \in Nat \ {0} /\ DOMAIN row = 1 .. Len(row)
      /\ \A j \in 1 .. Len(row) : IsLane(row[j])
      /\ Len(lanes) \in Nat \ {0} /\ DOMAIN lanes = 1 .. Len(lanes)
  BY RowBasics DEF IsRow
<1>2. \A j \in 1 .. Len(row) : \A x :
        x \in After(j) <=> \E k \in 1 .. Len(lanes) :
                             LaneOf(row[j]) \in lanes[k].preds /\ x = LaneOf(lanes[k])
  BY <1>1 DEF ToSet
<1>3. \A j \in 1 .. Len(row) : new[j] = [row[j] EXCEPT !.succs = @ \cup After(j)]
  BY <1>1 DEF Knowing
<1> HIDE DEF After
<1>4. ASSUME NEW j \in 1 .. Len(row)
      PROVE  /\ IsLane(new[j]) /\ LaneOf(new[j]) = LaneOf(row[j])
             /\ new[j].preds = row[j].preds /\ new[j].succs = After(j)
             /\ new[j].left = row[j].left /\ new[j].right = row[j].right
  <2>1. IsLane(row[j]) /\ row[j].succs = {}
    BY <1>1
  <2>2. new[j] = [row[j] EXCEPT !.succs = After(j)]
    BY <1>3, <2>1 DEF IsLane
  <2> QED
    BY <2>1, <2>2 DEF IsLane, LaneOf
<1>5. IsList(new) /\ Len(new) = Len(row) /\ DOMAIN new = 1 .. Len(row)
  <2>1. new = [j \in 1 .. Len(row) |-> new[j]]
    BY <1>1
  <2> QED
    BY <1>1, <2>1, ListsAreFunctions
<1>6. IsRow(new)
  BY <1>1, <1>4, <1>5 DEF IsRow
<1>7. \A j : LaneAt(new, j) = LaneAt(row, j)
  BY <1>1, <1>4, <1>5 DEF LaneAt
<1>8. SideBySide(new)
  BY <1>4, <1>5, <1>7 DEF SideBySide
<1>9. IdsOf(new) = IdsOf(row)
  BY <1>1, <1>4, <1>5 DEF IdsOf
<1>10. Joined(new, lanes)
  <2>1. \A j \in 1 .. Len(new) : new[j].succs \subseteq IdsOf(lanes)
    BY <1>1, <1>2, <1>4, <1>5 DEF IdsOf
  <2>2. \A k \in 1 .. Len(lanes) : lanes[k].preds \subseteq IdsOf(new)
    BY <1>9
  <2>3. ASSUME NEW j \in 1 .. Len(new), NEW k \in 1 .. Len(lanes)
        PROVE  LaneOf(lanes[k]) \in new[j].succs <=> LaneOf(new[j]) \in lanes[k].preds
    <3>1. j \in 1 .. Len(row) /\ new[j].succs = After(j) /\ LaneOf(new[j]) = LaneOf(row[j])
      BY <1>4, <1>5
    <3>2. ASSUME LaneOf(lanes[k]) \in After(j) PROVE LaneOf(row[j]) \in lanes[k].preds
      <4>1. PICK n \in 1 .. Len(lanes) :
              LaneOf(row[j]) \in lanes[n].preds /\ LaneOf(lanes[k]) = LaneOf(lanes[n])
        BY <1>2, <3>1, <3>2
      <4> QED
        BY <4>1
    <3>3. ASSUME LaneOf(row[j]) \in lanes[k].preds PROVE LaneOf(lanes[k]) \in After(j)
      BY <1>2, <3>1, <3>3
    <3> QED
      BY <3>1, <3>2, <3>3
  <2> QED
    BY <2>1, <2>2, <2>3 DEF Joined
<1> QED
  BY <1>4, <1>5, <1>6, <1>8, <1>9, <1>10

\* A segment that is appended is linked to the last one both ways.
LEMMA AppendLanesTies ==
  ASSUME NEW s, Tied(s), NEW lanes, IsRow(lanes), SideBySide(lanes),
         \A k \in 1 .. Len(lanes) : lanes[k].succs = {},
         s = << >> => \A k \in 1 .. Len(lanes) : lanes[k].preds = {},
         s # << >> => \A k \in 1 .. Len(lanes) : lanes[k].preds \subseteq LanesOf(Last(s)),
         \A k, n \in 1 .. Len(lanes) :
           LaneOf(lanes[k]) = LaneOf(lanes[n]) => lanes[k].preds = lanes[n].preds
  PROVE  Tied(AppendLanes(s, lanes))
<1> DEFINE N == Len(s)
           segment == [lanes |-> lanes, fromDest |-> 0]
           known == WithSuccessors(s, ToSet(lanes))
           t == Append(known, segment)
<1>1. /\ N \in Nat /\ IsRoad(s) /\ DOMAIN s = 1 .. N
      /\ \A i \in 1 .. N : "lanes" \in DOMAIN s[i] /\ IsRow(s[i].lanes)
  BY RowsOfRoad DEF Tied, Linked
<1>2. AppendLanes(s, lanes) = t
  BY DEF AppendLanes
<1>3. segment.lanes = lanes /\ "lanes" \in DOMAIN segment
  OBVIOUS
<1>4. IsList(known) /\ Len(known) = N
  <2>1. known = [i \in 1 .. N |-> known[i]]
    BY <1>1 DEF WithSuccessors
  <2> HIDE DEF known
  <2> QED
    BY <1>1, <2>1, ListsAreFunctions
<1>5. \A i \in 1 .. N : i < N => known[i] = s[i]
  BY <1>1 DEF WithSuccessors
<1>6. IsList(t) /\ Len(t) = N + 1 /\ t[N + 1] = segment /\ \A i \in 1 .. N : t[i] = known[i]
  <2> HIDE DEF known, segment
  <2> QED
    BY <1>4, ListAppended
<1>7. CASE N = 0
  <2>1. IsList(t) /\ Len(t) = 1 /\ t[1] = segment
    BY <1>6, <1>7
  <2>2. s = << >>
    BY <1>1, <1>7, RowsOfRoad
  <2> HIDE DEF t, segment
  <2>3. IsRoad(t)
    BY <1>3, <2>1 DEF IsRoad
  <2> QED
    BY <1>2, <1>3, <2>1, <2>2, <2>3 DEF Tied, Linked, Begins, Ends
<1>8. CASE N # 0
  <2> DEFINE row == s[N].lanes
             new == [j \in DOMAIN row |->
                       Knowing(row[j], ToSet(lanes))]
  <2>1. N \in 1 .. N /\ s # << >> /\ Last(s) = s[N] /\ "lanes" \in DOMAIN s[N] /\ IsRow(row)
    BY <1>1, <1>8, RowsOfRoad DEF Last
  <2>2. known[N] = [s[N] EXCEPT !.lanes = new]
    <3> DEFINE NewRow(i) == [j \in DOMAIN s[i].lanes |-> Knowing(s[i].lanes[j], ToSet(lanes))]
    <3>1. known = [i \in DOMAIN s |->
                     IF i < N THEN s[i] ELSE [s[i] EXCEPT !.lanes = NewRow(i)]]
      BY Zenon DEF WithSuccessors
    <3>2. N \in DOMAIN s /\ ~ (N < N) /\ NewRow(N) = new
      BY <1>1, <2>1
    <3> HIDE DEF known, NewRow, new, N
    <3> QED
      BY Zenon, <3>1, <3>2
  <2>3. known[N].lanes = new /\ "lanes" \in DOMAIN known[N]
    BY <2>1, <2>2
  <2>4. LanesOf(Last(s)) = IdsOf(row)
    BY <2>1 DEF LanesOf, IdsOf
  <2>5. SideBySide(row) /\ \A j \in 1 .. Len(row) : row[j].succs = {}
    BY <1>1, <2>1 DEF Tied, Linked, Ends
  <2>6. /\ IsRow(new) /\ SideBySide(new) /\ Joined(new, lanes)
        /\ Len(new) = Len(row) /\ IdsOf(new) = IdsOf(row)
        /\ \A j \in 1 .. Len(row) :
             LaneOf(new[j]) = LaneOf(row[j]) /\ new[j].preds = row[j].preds
    <3>1. \A k \in 1 .. Len(lanes) : lanes[k].preds \subseteq IdsOf(row)
      BY <2>1, <2>4
    <3>2. /\ new = [j \in DOMAIN row |-> new[j]]
          /\ \A j \in DOMAIN row :
               new[j] = Knowing(row[j], ToSet(lanes))
      OBVIOUS
    <3> HIDE DEF row, new
    <3> QED
      BY <2>1, <2>5, <3>1, <3>2, LastLanesKnowThoseAfter
  <2> HIDE DEF new, known, segment, t, N
  <2>7. /\ t[N].lanes = new /\ "lanes" \in DOMAIN t[N] /\ t[N + 1].lanes = lanes
        /\ "lanes" \in DOMAIN t[N + 1]
        /\ \A i \in 1 .. N : i < N => t[i] = s[i]
    BY <1>3, <1>5, <1>6, <2>1, <2>3
  <2>8. \A i \in 1 .. Len(t) : i < N \/ i = N \/ i = N + 1
    BY <1>1, <1>6
  <2>9. IsRoad(t)
    BY <1>1, <1>6, <2>6, <2>7, <2>8 DEF IsRoad
  <2>10. \A i \in 1 .. Len(t) : SideBySide(t[i].lanes)
    <3>1. \A i \in 1 .. N : SideBySide(s[i].lanes)
      BY DEF Tied, Linked, N
    <3>2. \A i \in 1 .. N + 1 : i < N => i \in 1 .. N
      BY <1>1
    <3> QED
      BY <1>6, <2>6, <2>7, <2>8, <3>1, <3>2
  <2>11. ASSUME NEW i \in 1 .. Len(t) - 1 PROVE Joined(t[i].lanes, t[i + 1].lanes)
    <3>1. i \in 1 .. N
      BY <1>1, <1>6
    <3>2. CASE i = N
      BY <2>6, <2>7, <3>2
    <3>3. CASE i # N
      <4>1. i < N /\ i + 1 \in 1 .. N /\ i \in 1 .. N - 1
        BY <1>1, <3>1, <3>3
      <4>2. Joined(s[i].lanes, s[i + 1].lanes)
        BY <4>1 DEF Tied, Linked, N
      <4>3. CASE i + 1 = N
        <5>1. Joined(s[i].lanes, row)
          BY <4>2, <4>3
        <5>2. Joined(s[i].lanes, new)
          BY <2>6, <5>1 DEF Joined
        <5> QED
          BY <2>7, <3>1, <4>1, <4>3, <5>2
      <4>4. CASE i + 1 # N
        BY <1>1, <2>7, <3>1, <4>1, <4>2, <4>4
      <4> QED
        BY <4>3, <4>4
    <3> QED
      BY <3>2, <3>3
  <2>12. Begins(t)
    <3>1. \A j \in 1 .. Len(s[1].lanes) : s[1].lanes[j].preds = {}
      BY <1>1, <1>8 DEF Tied, Begins, N
    <3>2. CASE N = 1
      BY <2>6, <2>7, <3>1, <3>2 DEF Begins
    <3>3. CASE N # 1
      <4>1. t[1] = s[1]
        BY <1>1, <1>8, <2>7, <3>3
      <4> QED
        BY <3>1, <4>1 DEF Begins
    <3> QED
      BY <3>2, <3>3
  <2>13. Ends(t)
    BY <1>6, <2>7 DEF Ends
  <2> QED
    BY <1>2, <2>9, <2>10, <2>11, <2>12, <2>13 DEF Tied, Linked
<1> QED
  BY <1>7, <1>8

\* The smallest and largest offsets are fields of their own.
LEMMA OffsetsLeaveSegments ==
  ASSUME NEW r, "segments" \in DOMAIN r, NEW offset
  PROVE  "segments" \in DOMAIN WithOffset(r, offset)
         /\ WithOffset(r, offset).segments = r.segments
BY DEF WithOffset

\* So do all three that a new segment touches.
LEMMA AllOffsetsLeaveSegments ==
  ASSUME NEW r, "segments" \in DOMAIN r, NEW o, NEW a, NEW b
  PROVE  LET moved == WithOffset(WithOffset(WithOffset(r, o), a), b)
         IN  "segments" \in DOMAIN moved /\ moved.segments = r.segments
<1> DEFINE first == WithOffset(r, o)
           second == WithOffset(first, a)
           third == WithOffset(second, b)
<1>1. "segments" \in DOMAIN first /\ first.segments = r.segments
  BY OffsetsLeaveSegments
<1> HIDE DEF first
<1>2. "segments" \in DOMAIN second /\ second.segments = first.segments
  BY <1>1, OffsetsLeaveSegments
<1> HIDE DEF second
<1>3. "segments" \in DOMAIN third /\ third.segments = second.segments
  BY <1>2, OffsetsLeaveSegments
<1>4. "segments" \in DOMAIN third /\ third.segments = r.segments
  BY <1>1, <1>2, <1>3
<1> QED
  BY <1>4, Zenon DEF first, second

\* appendRoadSegmentToRoute leaves a tied route.
LEMMA AppendRoadSegmentTies ==
  ASSUME NEW m, IsFiniteSet(m.lanes), NEW r, TiedRoute(r),
         NEW v, IsStretch(v), NEW offset, NEW relevant
  PROVE  TiedRoute(AppendRoadSegment(m, r, v, offset, relevant))
<1> DEFINE positive == IsRouteDirectionPositive(m, v)
           Walk(side) == Tail(SideLanes(m, r.mode, v.lane, side, relevant))
           right == Walk(IF positive THEN "RIGHT" ELSE "LEFT")
           left == Walk(IF positive THEN "LEFT" ELSE "RIGHT")
           row == Reverse(right) \o <<v.lane>> \o left
           own == Len(right) + 1
           new == NewLanes(m, v, row, own, offset)
           a == MovedOffset(TRUE, offset, Len(right))
           b == MovedOffset(FALSE, offset, Len(left))
           moved == WithOffset(WithOffset(WithOffset(r, offset), a), b)
           joined == JoinedLanes(m, new, positive, moved.segments)
<1>1. AppendRoadSegment(m, r, v, offset, relevant)
        = [moved EXCEPT !.segments = AppendLanes(@, joined)]
  BY Zenon DEF AppendRoadSegment
<1>2. "segments" \in DOMAIN moved /\ moved.segments = r.segments
  <2>1. "segments" \in DOMAIN r
    BY DEF TiedRoute
  <2> HIDE DEF a, b
  <2> QED
    BY <2>1, AllOffsetsLeaveSegments
<1>3. IsList(row) /\ Len(row) > 0
  <2>1. \A side : IsList(Walk(side))
    BY SideLanesAreAList, ListTail
  <2> HIDE DEF Walk
  <2>2. IsList(right) /\ IsList(left)
    BY <2>1
  <2> HIDE DEF right, left
  <2> DEFINE middle == <<v.lane>>
  <2>3. IsList(middle) /\ Len(middle) = 1
    <3>1. middle \in Seq({v.lane}) /\ Len(middle) = 1
      OBVIOUS
    <3> QED
      BY <3>1, SequencesAreLists
  <2>4. IsList(Reverse(right))
    BY <2>2, ListReversed
  <2> DEFINE begun == Reverse(right)
  <2> HIDE DEF middle, begun
  <2>5. IsList(begun \o middle) /\ Len(begun \o middle) = Len(begun) + 1 /\ Len(begun) \in Nat
    <3>1. IsList(begun) /\ Len(begun) \in Nat
      BY <2>4, ListProperties DEF begun
    <3>2. IsList(begun \o middle) /\ Len(begun \o middle) = Len(begun) + Len(middle)
      BY <2>3, <3>1, ListsJoined
    <3> QED
      BY <2>3, <3>1, <3>2
  <2> DEFINE front == begun \o middle
  <2> HIDE DEF front
  <2>6. IsList(front \o left) /\ Len(front \o left) = Len(front) + Len(left) /\ Len(left) \in Nat
    BY <2>2, <2>5, ListsJoined, ListProperties DEF front
  <2> QED
    BY <2>5, <2>6 DEF front, begun, middle
<1> HIDE DEF row, own
<1>4. IsRow(new) /\ SideBySide(new) /\ \A j \in 1 .. Len(new) : new[j].preds = {} /\ new[j].succs = {}
  BY <1>3, NewLanesAreBeside
<1> HIDE DEF new, positive, moved
<1>5. KnowsThoseBefore(m, joined, positive, r.segments)
  BY <1>2, <1>4, JoinedLanesKnowThoseBefore
<1> HIDE DEF joined
<1>6. \A l, before : PredsOf(m, l, positive, before) \subseteq LanesOf(before)
  BY DEF PredsOf, LinksBack
<1>7. Tied(AppendLanes(r.segments, joined))
  <2>1. r.segments = << >> => \A k \in 1 .. Len(joined) : joined[k].preds = {}
    BY <1>5 DEF KnowsThoseBefore
  <2>2. r.segments # << >> =>
          \A k \in 1 .. Len(joined) : joined[k].preds \subseteq LanesOf(Last(r.segments))
    BY <1>5, <1>6 DEF KnowsThoseBefore
  <2>3. \A k, n \in 1 .. Len(joined) :
          LaneOf(joined[k]) = LaneOf(joined[n]) => joined[k].preds = joined[n].preds
    BY <1>5 DEF KnowsThoseBefore
  <2> QED
    BY <1>5, <2>1, <2>2, <2>3, AppendLanesTies DEF TiedRoute, KnowsThoseBefore
<1> QED
  BY <1>1, <1>2, <1>7 DEF TiedRoute

-----------------------------------------------------------------------------
(* Routes made segment by segment.                                           *)

\* A new route is tied, and updateRouteCounters changes no link.
LEMMA EmptyRouteIsTied ==
  ASSUME NEW mode
  PROVE  TiedRoute(EmptyRoute(mode))
BY EmptyIsTied DEF TiedRoute, EmptyRoute

LEMMA CountersTie ==
  ASSUME NEW r, TiedRoute(r)
  PROVE  TiedRoute(WithCounters(r))
<1>1. "segments" \in DOMAIN r /\ IsRoad(r.segments) /\ Tied(r.segments)
  BY DEF TiedRoute, Tied, Linked
<1>2. "segments" \in DOMAIN WithCounters(r) /\ SameRoad(r.segments, WithCounters(r).segments)
  BY <1>1, CountersAreSame
<1>3. Tied(WithCounters(r).segments)
  BY <1>1, <1>2, SameRoadIsLinked
<1> QED
  BY <1>2, <1>3 DEF TiedRoute

\* One stretch of the points further.
StretchStep(m, points, relevant, i, r) ==
  IF i \in SegmentStarts(m, points)
  THEN AppendStretch(m, points, relevant, r, i, LastOfStretch(m, points, i)) ELSE r

\* createFullRoute leaves a tied route: after each stretch, before its ends are
\* aligned, and at last.
LEMMA StretchTies ==
  ASSUME NEW m, IsFiniteSet(m.lanes), NEW points, NEW relevant, NEW i, NEW r, TiedRoute(r)
  PROVE  TiedRoute(StretchStep(m, points, relevant, i, r))
<1> DEFINE j == LastOfStretch(m, points, i)
           o == StretchOffset(m, points, i, j, r.destOffset)
           v == StretchInterval(m, points, i, j)
           moved == [WithOffset(r, o) EXCEPT !.destOffset = o]
<1>1. IsStretch(v)
  BY DEF StretchInterval, IsStretch
<1> HIDE DEF j, o, v
<1>2. TiedRoute(moved)
  <2>1. "segments" \in DOMAIN moved /\ moved.segments = WithOffset(r, o).segments
    BY OffsetsLeaveSegments DEF TiedRoute
  <2>2. moved.segments = r.segments
    BY <2>1, OffsetsLeaveSegments DEF TiedRoute
  <2> QED
    BY <2>1, <2>2 DEF TiedRoute
<1> HIDE DEF moved
<1>3. TiedRoute(AppendRoadSegment(m, moved, v, o, relevant))
  BY <1>1, <1>2, AppendRoadSegmentTies
<1>4. AppendStretch(m, points, relevant, r, i, j) = AppendRoadSegment(m, moved, v, o, relevant)
  BY Zenon DEF AppendStretch, moved, v, o
<1> QED
  BY <1>3, <1>4 DEF StretchStep, j

\* The routes along more and more of the points.
RoutesAlong(t, m, points, mode, relevant, N) ==
  t = [i \in 0 .. N |-> IF i = 0 THEN EmptyRoute(mode) ELSE StretchStep(m, points, relevant, i, t[i - 1])]

LEMMA RouteIsRepeated ==
  ASSUME NEW m, NEW points, NEW mode, NEW relevant, NEW N \in Nat
  PROVE  \E t : RoutesAlong(t, m, points, mode, relevant, N)
<1> DEFINE Step(i, x) == StretchStep(m, points, relevant, i, x)
           Table(t, k) == t = [i \in 0 .. k |-> IF i = 0 THEN EmptyRoute(mode) ELSE Step(i, t[i - 1])]
           Tabled == { k \in 0 .. N : \E t : Table(t, k) }
<1> HIDE DEF Step
<1>1. 0 \in Tabled
  <2> DEFINE t == [i \in 0 .. 0 |-> EmptyRoute(mode)]
  <2>1. Table(t, 0)
    OBVIOUS
  <2>2. 0 \in 0 .. N
    OBVIOUS
  <2> HIDE DEF t, Table
  <2> QED
    BY <2>1, <2>2
<1>2. ASSUME NEW k \in 0 .. N - 1, k \in Tabled PROVE k + 1 \in Tabled
  <2>1. PICK t : Table(t, k)
    BY <1>2
  <2> DEFINE x == Step(k + 1, t[k])
             u == [i \in 0 .. k + 1 |-> IF i = k + 1 THEN x ELSE t[i]]
  <2>2. k \in Nat /\ k + 1 \in 0 .. N
    OBVIOUS
  <2>3. \A i \in 0 .. k : t[i] = IF i = 0 THEN EmptyRoute(mode) ELSE Step(i, t[i - 1])
    BY <2>1
  <2>4. ASSUME NEW i \in 0 .. k + 1
        PROVE  u[i] = IF i = 0 THEN EmptyRoute(mode) ELSE Step(i, u[i - 1])
    <3>1. CASE i = k + 1
      <4>1. i # 0 /\ i - 1 = k /\ i - 1 \in 0 .. k + 1 /\ i - 1 # k + 1
        BY <2>2, <3>1
      <4>2. u[i] = x /\ u[i - 1] = t[k]
        BY <3>1, <4>1
      <4> HIDE DEF u
      <4> QED
        BY <3>1, <4>1, <4>2
    <3>2. CASE i # k + 1
      <4>1. i \in 0 .. k /\ u[i] = t[i] /\ (i # 0 => u[i - 1] = t[i - 1])
        BY <2>2, <3>2
      <4> HIDE DEF u
      <4> QED
        BY <2>3, <4>1
    <3> QED
      BY <3>1, <3>2
  <2>5. u = [i \in 0 .. k + 1 |-> u[i]]
    OBVIOUS
  <2> HIDE DEF u
  <2>6. Table(u, k + 1)
    BY <2>4, <2>5, Zenon
  <2> HIDE DEF Table
  <2> QED
    BY <2>2, <2>6
<1>3. N \in Tabled
  <2>1. \A k \in 0 .. N : k \in Tabled
    <3> HIDE DEF Tabled
    <3> QED
      BY <1>1, <1>2, UpFromZero
  <2> QED
    BY <2>1
<1> QED
  BY <1>3, Zenon DEF RoutesAlong, Step

LEMMA PlainRouteTies ==
  ASSUME NEW m, IsFiniteSet(m.lanes), NEW points, IsList(points), NEW mode, NEW relevant
  PROVE  TiedRoute(PlainRoute(m, points, mode, relevant))
<1> DEFINE N == Len(points)
           made == CHOOSE t : RoutesAlong(t, m, points, mode, relevant, N)
<1>1. N \in Nat
  BY ListProperties
<1>2. RoutesAlong(made, m, points, mode, relevant, N)
  <2> HIDE DEF N
  <2>1. \E t : RoutesAlong(t, m, points, mode, relevant, N)
    BY <1>1, RouteIsRepeated
  <2> QED
    BY <2>1
<1>3. PlainRoute(m, points, mode, relevant) = made[N]
  BY Zenon DEF PlainRoute, RoutesAlong, StretchStep
<1> HIDE DEF made, N
<1>4. /\ made[0] = EmptyRoute(mode)
      /\ \A i \in 1 .. N : made[i] = StretchStep(m, points, relevant, i, made[i - 1])
  BY <1>1, <1>2 DEF RoutesAlong
<1> DEFINE Good == { i \in 0 .. N : TiedRoute(made[i]) }
<1>5. 0 \in Good
  BY <1>1, <1>4, EmptyRouteIsTied
<1>6. ASSUME NEW k \in 0 .. N - 1, k \in Good PROVE k + 1 \in Good
  <2>1. k + 1 \in 1 .. N /\ k + 1 - 1 = k /\ k + 1 \in 0 .. N
    BY <1>1
  <2>2. TiedRoute(made[k])
    BY <1>6
  <2>3. TiedRoute(StretchStep(m, points, relevant, k + 1, made[k]))
    BY <2>2, StretchTies
  <2> QED
    BY <1>4, <2>1, <2>3
<1>7. \A k \in 0 .. N : k \in Good
  <2> HIDE DEF Good
  <2> QED
    BY <1>1, <1>5, <1>6, UpFromZero
<1> QED
  BY <1>1, <1>3, <1>7

\* Any points make a tied route, as long as no error is thrown.
LEMMA CreateFullRouteTies ==
  ASSUME NEW m, IsFiniteSet(m.lanes), NEW points, IsList(points), NEW mode, NEW relevant
  PROVE  TiedRoute(CreateFullRoute(m, points, mode, relevant))
<1> DEFINE plain == PlainRoute(m, points, mode, relevant)
           counted == WithCounters(plain)
           s == counted.segments
<1> HIDE DEF plain
<1>1. TiedRoute(plain)
  BY PlainRouteTies DEF plain
<1>2. TiedRoute(counted)
  BY <1>1, CountersTie
<1>3. CreateFullRoute(m, points, mode, relevant)
        = [counted EXCEPT !.segments = AlignEnds(m, s, points)]
  BY DEF CreateFullRoute, plain
<1> HIDE DEF counted
<1>4. IsRoad(s) /\ Tied(s)
  BY <1>2 DEF TiedRoute, Tied, Linked
<1>5. Tied(AlignEnds(m, s, points))
  BY <1>4, AlignEndsIsSame, SameRoadIsLinked
<1> QED
  BY <1>2, <1>3, <1>5 DEF TiedRoute

\* The routes with more and more of the segments appended.
RoutesWith(t, m, base, segments, offset, N) ==
  t = [i \in 0 .. N |-> IF i = 0 THEN base ELSE AppendRoadSegment(m, t[i - 1], FrontInterval(segments[i]), offset + Head(segments[i].lanes).offset, {})]

LEMMA AppendingIsRepeated ==
  ASSUME NEW m, NEW base, NEW segments, NEW offset, NEW N \in Nat
  PROVE  \E t : RoutesWith(t, m, base, segments, offset, N)
<1> DEFINE Step(i, x) == AppendRoadSegment(m, x, FrontInterval(segments[i]), offset + Head(segments[i].lanes).offset, {})
           Table(t, k) == t = [i \in 0 .. k |-> IF i = 0 THEN base ELSE Step(i, t[i - 1])]
           Tabled == { k \in 0 .. N : \E t : Table(t, k) }
<1> HIDE DEF Step
<1>1. 0 \in Tabled
  <2> DEFINE t == [i \in 0 .. 0 |-> base]
  <2>1. Table(t, 0)
    OBVIOUS
  <2>2. 0 \in 0 .. N
    OBVIOUS
  <2> HIDE DEF t, Table
  <2> QED
    BY <2>1, <2>2
<1>2. ASSUME NEW k \in 0 .. N - 1, k \in Tabled PROVE k + 1 \in Tabled
  <2>1. PICK t : Table(t, k)
    BY <1>2
  <2> DEFINE x == Step(k + 1, t[k])
             u == [i \in 0 .. k + 1 |-> IF i = k + 1 THEN x ELSE t[i]]
  <2>2. k \in Nat /\ k + 1 \in 0 .. N
    OBVIOUS
  <2>3. \A i \in 0 .. k : t[i] = IF i = 0 THEN base ELSE Step(i, t[i - 1])
    BY <2>1
  <2>4. ASSUME NEW i \in 0 .. k + 1
        PROVE  u[i] = IF i = 0 THEN base ELSE Step(i, u[i - 1])
    <3>1. CASE i = k + 1
      <4>1. i # 0 /\ i - 1 = k /\ i - 1 \in 0 .. k + 1 /\ i - 1 # k + 1
        BY <2>2, <3>1
      <4>2. u[i] = x /\ u[i - 1] = t[k]
        BY <3>1, <4>1
      <4> HIDE DEF u
      <4> QED
        BY <3>1, <4>1, <4>2
    <3>2. CASE i # k + 1
      <4>1. i \in 0 .. k /\ u[i] = t[i] /\ (i # 0 => u[i - 1] = t[i - 1])
        BY <2>2, <3>2
      <4> HIDE DEF u
      <4> QED
        BY <2>3, <4>1
    <3> QED
      BY <3>1, <3>2
  <2>5. u = [i \in 0 .. k + 1 |-> u[i]]
    OBVIOUS
  <2> HIDE DEF u
  <2>6. Table(u, k + 1)
    BY <2>4, <2>5, Zenon
  <2> HIDE DEF Table
  <2> QED
    BY <2>2, <2>6
<1>3. N \in Tabled
  <2>1. \A k \in 0 .. N : k \in Tabled
    <3> HIDE DEF Tabled
    <3> QED
      BY <1>1, <1>2, UpFromZero
  <2> QED
    BY <2>1
<1> QED
  BY <1>3, Zenon DEF RoutesWith, Step

\* Appending the segments of another route leaves a tied route.
LEMMA AppendSegmentsTies ==
  ASSUME NEW m, IsFiniteSet(m.lanes), NEW base, TiedRoute(base), NEW segments, IsRoad(segments),
         NEW offset
  PROVE  TiedRoute(AppendSegments(m, base, segments, offset))
<1> DEFINE N == Len(segments)
           made == CHOOSE t : RoutesWith(t, m, base, segments, offset, N)
<1>1. N \in Nat
  BY RowsOfRoad
<1>2. RoutesWith(made, m, base, segments, offset, N)
  <2> HIDE DEF N
  <2>1. \E t : RoutesWith(t, m, base, segments, offset, N)
    BY <1>1, AppendingIsRepeated
  <2> QED
    BY <2>1
<1>3. AppendSegments(m, base, segments, offset) = made[N]
  BY Zenon DEF AppendSegments, RoutesWith
<1> DEFINE At2(i) == offset + Head(segments[i].lanes).offset
<1> HIDE DEF made, At2
<1>4. /\ made[0] = base
      /\ \A i \in 1 .. N :
           made[i] = AppendRoadSegment(m, made[i - 1], FrontInterval(segments[i]), At2(i), {})
  <2> HIDE DEF N
  <2> QED
    BY <1>1, <1>2 DEF RoutesWith, At2
<1>5. \A i \in 1 .. N : IsStretch(FrontInterval(segments[i]))
  <2>1. ASSUME NEW i \in 1 .. N PROVE IsStretch(FrontInterval(segments[i]))
    <3>1. IsRow(segments[i].lanes)
      BY RowsOfRoad
    <3>2. IsList(segments[i].lanes) /\ Len(segments[i].lanes) > 0
      BY <3>1 DEF IsRow
    <3>3. Head(segments[i].lanes) = segments[i].lanes[1] /\ 1 \in 1 .. Len(segments[i].lanes)
      BY <3>1, <3>2, ListTail, RowBasics
    <3> QED
      BY <3>1, <3>3 DEF IsRow, IsLane, FrontInterval
  <2> QED
    BY <2>1
<1> HIDE DEF N
<1> DEFINE Good == { i \in 0 .. N : TiedRoute(made[i]) }
<1>6. 0 \in Good
  BY <1>1, <1>4
<1>7. ASSUME NEW k \in 0 .. N - 1, k \in Good PROVE k + 1 \in Good
  <2>1. k + 1 \in 1 .. N /\ k + 1 - 1 = k /\ k + 1 \in 0 .. N
    BY <1>1
  <2>2. TiedRoute(made[k]) /\ IsStretch(FrontInterval(segments[k + 1]))
    BY <1>5, <1>7, <2>1
  <2>3. TiedRoute(AppendRoadSegment(m, made[k], FrontInterval(segments[k + 1]), At2(k + 1), {}))
    BY <2>2, AppendRoadSegmentTies
  <2> QED
    BY <1>4, <2>1, <2>3
<1>8. \A k \in 0 .. N : k \in Good
  <2> HIDE DEF Good
  <2> QED
    BY <1>1, <1>6, <1>7, UpFromZero
<1> QED
  BY <1>1, <1>3, <1>8

\* The extended route, and the expanded one.
LEMMA MergeTies ==
  ASSUME NEW m, IsFiniteSet(m.lanes), NEW r, TiedRoute(r), Len(r.segments) > 0,
         NEW extension, TiedRoute(extension)
  PROVE  TiedRoute(MergeRouteExtension(m, r, extension))
<1> DEFINE reference == Head(Last(r.segments).lanes).offset
           kept == [r EXCEPT !.segments = WithoutLastSegment(@)]
<1>1. MergeRouteExtension(m, r, extension)
        = WithCounters(AppendSegments(m, kept, extension.segments, reference))
  BY DEF MergeRouteExtension
<1>2. TiedRoute(kept)
  BY WithoutLastTies DEF TiedRoute
<1>3. IsRoad(extension.segments)
  BY DEF TiedRoute, Tied, Linked
<1> HIDE DEF kept, reference
<1> QED
  BY <1>1, <1>2, <1>3, AppendSegmentsTies, CountersTie

LEMMA ExpandedTies ==
  ASSUME NEW m, IsFiniteSet(m.lanes), NEW r, TiedRoute(r), NEW mode
  PROVE  TiedRoute(GetRouteExpandedTo(m, r, mode))
<1> DEFINE appended == AppendSegments(m, EmptyRoute(mode), r.segments, 0)
           all == WithCounters(appended)
           from == FrontInterval(Head(r.segments))
           to == FrontInterval(Last(r.segments))
           p == [lane |-> from.lane, offset |-> from.start]
           q == [lane |-> to.lane, offset |-> to.end]
           s == all.segments
           aligned == AlignRouteEndingPoints(m, AlignRouteStartingPoints(m, s, p), q)
<1>1. GetRouteExpandedTo(m, r, mode)
        = IF r.segments = << >> THEN all ELSE [all EXCEPT !.segments = aligned]
  BY DEF GetRouteExpandedTo
<1>2. TiedRoute(appended)
  BY EmptyRouteIsTied, AppendSegmentsTies DEF TiedRoute, Tied, Linked
<1> HIDE DEF appended, p, q
<1>3. TiedRoute(all)
  BY <1>2, CountersTie
<1> HIDE DEF all
<1>4. IsRoad(s) /\ Tied(s)
  BY <1>3 DEF TiedRoute, Tied, Linked
<1>5. Tied(aligned)
  BY <1>4, AlignedRoad, SameRoadIsLinked
<1> HIDE DEF aligned
<1> QED
  BY <1>1, <1>3, <1>5 DEF TiedRoute

-----------------------------------------------------------------------------
(* Lanes that nothing leads to are added to a route.                         *)

SameEnds(a, b) == LaneOf(b) = LaneOf(a) /\ b.preds = a.preds /\ b.succs = a.succs

\* A row with all lanes of another, and besides such that nothing leads to.
Grown(a, b) ==
  /\ IsRow(b) /\ SideBySide(b)
  /\ \A j \in 1 .. Len(a) : \E k \in 1 .. Len(b) : SameEnds(a[j], b[k])
  /\ \A k \in 1 .. Len(b) :
       \/ \E j \in 1 .. Len(a) : SameEnds(a[j], b[k])
       \/ LaneOf(b[k]) \notin IdsOf(a) /\ b[k].preds = {} /\ b[k].succs = {}

GrownRoad(s, t) ==
  /\ IsList(t) /\ Len(t) = Len(s)
  /\ \A i \in 1 .. Len(s) : "lanes" \in DOMAIN t[i] /\ Grown(s[i].lanes, t[i].lanes)

\* A row is grown when nothing was added, and has all the lanes it had.
LEMMA RowsAreGrown ==
  ASSUME NEW row, IsRow(row), SideBySide(row)
  PROVE  Grown(row, row)
BY DEF Grown, SameEnds

LEMMA GrownIds ==
  ASSUME NEW a, IsRow(a), NEW b, Grown(a, b)
  PROVE  IdsOf(a) \subseteq IdsOf(b)
<1>1. DOMAIN a = 1 .. Len(a) /\ DOMAIN b = 1 .. Len(b)
  BY RowBasics DEF Grown
<1> QED
  BY <1>1 DEF Grown, IdsOf, SameEnds

\* Rows that were joined stay joined when both have grown.
LEMMA GrownRowsAreJoined ==
  ASSUME NEW a, IsRow(a), NEW b, IsRow(b), Joined(a, b), NEW c, Grown(a, c), NEW d, Grown(b, d)
  PROVE  Joined(c, d)
<1>1. IdsOf(a) \subseteq IdsOf(c) /\ IdsOf(b) \subseteq IdsOf(d)
  BY GrownIds
<1>2. \A j \in 1 .. Len(c) : c[j].succs \subseteq IdsOf(d)
  <2>1. ASSUME NEW j \in 1 .. Len(c) PROVE c[j].succs \subseteq IdsOf(b)
    <3>1. CASE \E i \in 1 .. Len(a) : SameEnds(a[i], c[j])
      BY <3>1 DEF Joined, SameEnds
    <3>2. CASE c[j].succs = {}
      BY <3>2
    <3> QED
      BY <3>1, <3>2 DEF Grown
  <2> QED
    BY <1>1, <2>1
<1>3. \A k \in 1 .. Len(d) : d[k].preds \subseteq IdsOf(c)
  <2>1. ASSUME NEW k \in 1 .. Len(d) PROVE d[k].preds \subseteq IdsOf(a)
    <3>1. CASE \E i \in 1 .. Len(b) : SameEnds(b[i], d[k])
      BY <3>1 DEF Joined, SameEnds
    <3>2. CASE d[k].preds = {}
      BY <3>2
    <3> QED
      BY <3>1, <3>2 DEF Grown
  <2> QED
    BY <1>1, <2>1
<1>4. ASSUME NEW j \in 1 .. Len(c), NEW k \in 1 .. Len(d)
      PROVE  LaneOf(d[k]) \in c[j].succs <=> LaneOf(c[j]) \in d[k].preds
  <2>1. CASE /\ \E i \in 1 .. Len(a) : SameEnds(a[i], c[j])
             /\ \E i \in 1 .. Len(b) : SameEnds(b[i], d[k])
    BY <2>1 DEF Joined, SameEnds
  <2>2. CASE /\ \E i \in 1 .. Len(a) : SameEnds(a[i], c[j])
             /\ LaneOf(d[k]) \notin IdsOf(b) /\ d[k].preds = {}
    <3>1. c[j].succs \subseteq IdsOf(b)
      BY <2>2 DEF Joined, SameEnds
    <3> QED
      BY <2>2, <3>1
  <2>3. CASE /\ LaneOf(c[j]) \notin IdsOf(a) /\ c[j].succs = {}
             /\ \E i \in 1 .. Len(b) : SameEnds(b[i], d[k])
    <3>1. d[k].preds \subseteq IdsOf(a)
      BY <2>3 DEF Joined, SameEnds
    <3> QED
      BY <2>3, <3>1
  <2>4. CASE c[j].succs = {} /\ d[k].preds = {}
    BY <2>4
  <2> QED
    BY <2>1, <2>2, <2>3, <2>4 DEF Grown
<1> QED
  BY <1>2, <1>3, <1>4 DEF Joined

\* A road stays tied when all its rows have grown.
LEMMA GrownRoadIsTied ==
  ASSUME NEW s, Tied(s), NEW t, GrownRoad(s, t)
  PROVE  Tied(t)
<1>1. /\ Len(s) \in Nat /\ IsList(t) /\ Len(t) = Len(s)
      /\ \A i \in 1 .. Len(s) : IsRow(s[i].lanes)
      /\ \A i \in 1 .. Len(s) : "lanes" \in DOMAIN t[i] /\ Grown(s[i].lanes, t[i].lanes)
  BY RowsOfRoad DEF Tied, Linked, GrownRoad
<1>2. IsRoad(t) /\ \A i \in 1 .. Len(t) : SideBySide(t[i].lanes)
  BY <1>1 DEF IsRoad, Grown
<1>3. ASSUME NEW i \in 1 .. Len(t) - 1 PROVE Joined(t[i].lanes, t[i + 1].lanes)
  <2>1. i \in 1 .. Len(s) /\ i + 1 \in 1 .. Len(s) /\ i \in 1 .. Len(s) - 1
    BY <1>1
  <2>2. Joined(s[i].lanes, s[i + 1].lanes)
    BY <2>1 DEF Tied, Linked
  <2> QED
    BY <1>1, <2>1, <2>2, GrownRowsAreJoined
<1>4. ASSUME Len(s) > 0
      PROVE  \A j \in 1 .. Len(t[1].lanes) : t[1].lanes[j].preds = {}
  <2>1. 1 \in 1 .. Len(s)
    BY <1>1, <1>4
  <2> DEFINE a == s[1].lanes
             b == t[1].lanes
  <2>2. Grown(a, b) /\ \A j \in 1 .. Len(a) : a[j].preds = {}
    BY <1>1, <1>4, <2>1 DEF Tied, Begins
  <2> HIDE DEF a, b
  <2>3. \A j \in 1 .. Len(b) : b[j].preds = {}
    BY <2>2 DEF Grown, SameEnds
  <2> QED
    BY <2>3 DEF b
<1>5. ASSUME Len(s) > 0
      PROVE  \A j \in 1 .. Len(t[Len(s)].lanes) : t[Len(s)].lanes[j].succs = {}
  <2>1. Len(s) \in 1 .. Len(s)
    BY <1>1, <1>5
  <2> DEFINE a == s[Len(s)].lanes
             b == t[Len(s)].lanes
  <2>2. Grown(a, b) /\ \A j \in 1 .. Len(a) : a[j].succs = {}
    BY <1>1, <1>5, <2>1 DEF Tied, Ends
  <2> HIDE DEF a, b
  <2>3. \A j \in 1 .. Len(b) : b[j].succs = {}
    BY <2>2 DEF Grown, SameEnds
  <2> QED
    BY <2>3 DEF b
<1>6. Begins(t) /\ Ends(t)
  BY <1>1, <1>4, <1>5 DEF Begins, Ends
<1> QED
  BY <1>2, <1>3, <1>6 DEF Tied, Linked

\* A row grows by an opposing lane that was not in it.
LEMMA WiderRowIsGrown ==
  ASSUME NEW m, NEW row, IsRow(row), SideBySide(row), NEW v, IsStretch(v), NEW offset
  PROVE  LET new == WiderRow(m, row, v, offset)
         IN  /\ IsList(new) /\ Len(new) = Len(row) + 1
             /\ LaneOf(new[IF m.leftHanded THEN 1 ELSE Len(new)]) = v.lane
             /\ v.lane \notin IdsOf(row) => Grown(row, new)
<1> DEFINE N == Len(row)
           Lane(right, left) == [interval |-> v, right |-> right, left |-> left,
                                 preds |-> {}, succs |-> {}, offset |-> offset]
           new == WiderRow(m, row, v, offset)
<1>1. /\ N \in Nat \ {0} /\ DOMAIN row = 1 .. N /\ IsList(row)
      /\ \A j \in 1 .. N : IsLane(row[j])
  BY RowBasics DEF IsRow
<1>2. \A r, l : /\ IsLane(Lane(r, l)) /\ LaneOf(Lane(r, l)) = v.lane
                /\ Lane(r, l).right = r /\ Lane(r, l).left = l
                /\ Lane(r, l).preds = {} /\ Lane(r, l).succs = {}
  BY DEF IsLane, LaneOf
<1>3. \A j \in 1 .. N : /\ row[j].right = LaneAt(row, j - 1) /\ row[j].left = LaneAt(row, j + 1)
                        /\ LaneAt(row, j) = LaneOf(row[j])
  BY <1>1 DEF SideBySide, LaneAt
<1>4. LaneAt(row, 0) = NoLane /\ LaneAt(row, N + 1) = NoLane
  BY <1>1 DEF LaneAt
<1>5. CASE m.leftHanded
  <2> DEFINE known == [row EXCEPT ![1].right = v.lane]
             x == Lane(NoLane, LaneOf(row[1]))
             t == <<x>> \o known
  <2>1. new = t
    BY <1>5 DEF WiderRow
  <2>2. \A j \in 1 .. N :
          /\ IsLane(known[j]) /\ SameEnds(row[j], known[j])
          /\ known[j].left = row[j].left
          /\ known[j].right = IF j = 1 THEN v.lane ELSE row[j].right
    BY <1>1 DEF IsLane, SameEnds, LaneOf
  <2>3. IsList(known) /\ Len(known) = N
    <3>1. known = [j \in 1 .. N |-> known[j]]
      BY <1>1
    <3> HIDE DEF known
    <3> QED
      BY <1>1, <3>1, ListsAreFunctions
  <2>4. /\ IsLane(x) /\ LaneOf(x) = v.lane /\ x.preds = {} /\ x.succs = {}
        /\ x.right = NoLane /\ x.left = LaneOf(row[1])
    BY <1>2
  <2> HIDE DEF known, x
  <2>5. IsList(<<x>>) /\ Len(<<x>>) = 1 /\ <<x>>[1] = x
    <3>1. <<x>> \in Seq({x}) /\ Len(<<x>>) = 1 /\ <<x>>[1] = x
      OBVIOUS
    <3> QED
      BY <3>1, SequencesAreLists
  <2> DEFINE one == <<x>>
  <2> HIDE DEF one
  <2>6. /\ IsList(t) /\ Len(t) = 1 + N
        /\ \A i \in 1 .. 1 + N : t[i] = IF i <= 1 THEN one[i] ELSE known[i - 1]
    <3>1. /\ IsList(one \o known) /\ Len(one \o known) = Len(one) + Len(known)
          /\ \A i \in 1 .. Len(one) + Len(known) :
               (one \o known)[i] = IF i <= Len(one) THEN one[i] ELSE known[i - Len(one)]
      BY <2>3, <2>5, ListsJoined DEF one
    <3> QED
      BY <2>3, <2>5, <3>1 DEF one
  <2>7. t[1] = x /\ \A j \in 1 .. N : t[j + 1] = known[j]
    BY <1>1, <2>5, <2>6 DEF one
  <2>8. IsList(t) /\ Len(t) = N + 1 /\ DOMAIN t = 1 .. N + 1
    <3>1. IsList(t) /\ Len(t) = N + 1
      BY <1>1, <2>6
    <3> HIDE DEF t
    <3> QED
      BY <3>1, ListProperties
  <2> HIDE DEF t, N
  <2>9. \A i \in 1 .. N + 1 : i = 1 \/ \E j \in 1 .. N : i = j + 1
    <3>1. ASSUME NEW i \in 1 .. N + 1, i # 1 PROVE i - 1 \in 1 .. N /\ i = (i - 1) + 1
      BY <1>1, <3>1
    <3> QED
      BY <3>1
  <2>10. IsRow(t)
    <3>1. \A j \in 1 .. N : IsLane(t[j + 1])
      BY <2>2, <2>7
    <3>2. \A i \in 1 .. N + 1 : IsLane(t[i])
      BY <2>4, <2>7, <2>9, <3>1
    <3>3. Len(t) > 0
      BY <1>1, <2>8
    <3> HIDE DEF t
    <3> QED
      BY <2>8, <3>2, <3>3 DEF IsRow
  <2>11. /\ LaneAt(t, 1) = v.lane /\ LaneAt(t, 0) = NoLane
         /\ \A j \in 1 .. N + 1 : LaneAt(t, j + 1) = LaneAt(row, j)
    <3>1. LaneAt(t, 1) = v.lane /\ LaneAt(t, 0) = NoLane
      BY <1>1, <2>4, <2>7, <2>8 DEF LaneAt
    <3>2. ASSUME NEW j \in 1 .. N PROVE LaneAt(t, j + 1) = LaneAt(row, j)
      BY <1>1, <1>3, <2>2, <2>7, <2>8 DEF LaneAt, SameEnds
    <3>3. LaneAt(t, N + 1 + 1) = LaneAt(row, N + 1)
      BY <1>1, <1>4, <2>8 DEF LaneAt
    <3>4. \A j \in 1 .. N + 1 : j \in 1 .. N \/ j = N + 1
      BY <1>1
    <3> QED
      BY <3>1, <3>2, <3>3, <3>4
  <2>12. SideBySide(t)
    <3>1. t[1].right = LaneAt(t, 1 - 1) /\ t[1].left = LaneAt(t, 1 + 1)
      BY <1>1, <1>3, <2>4, <2>7, <2>11
    <3>2. ASSUME NEW j \in 1 .. N
          PROVE  t[j + 1].right = LaneAt(t, (j + 1) - 1) /\ t[j + 1].left = LaneAt(t, (j + 1) + 1)
      <4>0. j + 1 \in 1 .. N + 1
        BY <1>1
      <4>1. t[j + 1].left = LaneAt(row, j + 1) /\ j + 1 \in 1 .. N + 1
        <5>1. t[j + 1] = known[j]
          BY <2>7
        <5>2. known[j].left = row[j].left
          BY <2>2
        <5>3. row[j].left = LaneAt(row, j + 1)
          BY <1>3
        <5> QED
          BY <4>0, <5>1, <5>2, <5>3
      <4>2. CASE j = 1
        BY <2>2, <2>7, <2>11, <4>1, <4>2
      <4>3. CASE j # 1
        <5>1. j - 1 \in 1 .. N + 1 /\ (j - 1) + 1 = (j + 1) - 1
          BY <1>1, <4>3
        <5>2. t[j + 1].right = LaneAt(row, j - 1)
          BY <1>3, <2>2, <2>7, <4>3
        <5> QED
          BY <2>11, <4>1, <5>1, <5>2
      <4> QED
        BY <4>2, <4>3
    <3>3. \A j \in 1 .. N + 1 : t[j].right = LaneAt(t, j - 1) /\ t[j].left = LaneAt(t, j + 1)
      BY <2>9, <3>1, <3>2
    <3> QED
      BY <2>8, <3>3 DEF SideBySide
  <2>13. v.lane \notin IdsOf(row) => Grown(row, t)
    <3>1. \A j \in 1 .. N : j + 1 \in 1 .. N + 1
      BY <1>1
    <3>2. \A j \in 1 .. N : SameEnds(row[j], t[j + 1])
      BY <2>2, <2>7
    <3>3. \A j \in 1 .. N : \E k \in 1 .. Len(t) : SameEnds(row[j], t[k])
      BY <2>8, <3>1, <3>2
    <3>4. v.lane \notin IdsOf(row) =>
            \A k \in 1 .. Len(t) :
              \/ \E j \in 1 .. N : SameEnds(row[j], t[k])
              \/ LaneOf(t[k]) \notin IdsOf(row) /\ t[k].preds = {} /\ t[k].succs = {}
      BY <2>4, <2>7, <2>8, <2>9, <3>2
    <3> QED
      BY <2>10, <2>12, <3>3, <3>4 DEF Grown, N
  <2> QED
    BY <1>5, <2>1, <2>4, <2>7, <2>8, <2>13 DEF N
<1>6. CASE ~ m.leftHanded
  <2> DEFINE known == [row EXCEPT ![N].left = v.lane]
             x == Lane(LaneOf(Last(row)), NoLane)
             t == Append(known, x)
  <2>1. new = t
    BY <1>6 DEF WiderRow
  <2>2. \A j \in 1 .. N :
          /\ IsLane(known[j]) /\ SameEnds(row[j], known[j])
          /\ known[j].right = row[j].right
          /\ known[j].left = IF j = N THEN v.lane ELSE row[j].left
    BY <1>1 DEF IsLane, SameEnds, LaneOf
  <2>3. IsList(known) /\ Len(known) = N
    <3>1. known = [j \in 1 .. N |-> known[j]]
      BY <1>1
    <3> HIDE DEF known
    <3> QED
      BY <1>1, <3>1, ListsAreFunctions
  <2>4. /\ IsLane(x) /\ LaneOf(x) = v.lane /\ x.preds = {} /\ x.succs = {}
        /\ x.right = LaneOf(row[N]) /\ x.left = NoLane
    BY <1>2 DEF Last
  <2> HIDE DEF known, x
  <2>7. IsList(t) /\ Len(t) = N + 1 /\ t[N + 1] = x /\ \A j \in 1 .. N : t[j] = known[j]
    BY <2>3, ListAppended
  <2> HIDE DEF t, N
  <2>8. DOMAIN t = 1 .. N + 1
    BY <2>7, ListProperties
  <2>9. \A i \in 1 .. N + 1 : i = N + 1 \/ i \in 1 .. N
    BY <1>1
  <2>10. IsRow(t)
    BY <1>1, <2>2, <2>4, <2>7, <2>9 DEF IsRow
  <2>11. /\ LaneAt(t, N + 1) = v.lane /\ LaneAt(t, N + 1 + 1) = NoLane
         /\ \A j \in 0 .. N : LaneAt(t, j) = LaneAt(row, j)
    <3>1. LaneAt(t, N + 1) = v.lane /\ LaneAt(t, N + 1 + 1) = NoLane
      BY <1>1, <2>4, <2>7, <2>8 DEF LaneAt
    <3>2. ASSUME NEW j \in 1 .. N PROVE LaneAt(t, j) = LaneAt(row, j)
      BY <1>1, <1>3, <2>2, <2>7, <2>8 DEF LaneAt, SameEnds
    <3>3. LaneAt(t, 0) = LaneAt(row, 0)
      BY <1>1, <1>4, <2>8 DEF LaneAt
    <3>4. \A j \in 0 .. N : j \in 1 .. N \/ j = 0
      BY <1>1
    <3> QED
      BY <3>1, <3>2, <3>3, <3>4
  <2>12. SideBySide(t)
    <3>1. t[N + 1].right = LaneAt(t, (N + 1) - 1) /\ t[N + 1].left = LaneAt(t, (N + 1) + 1)
      <4>1. (N + 1) - 1 = N /\ N \in 0 .. N /\ N \in 1 .. N
        BY <1>1
      <4> QED
        BY <1>3, <2>4, <2>7, <2>11, <4>1
    <3>2. ASSUME NEW j \in 1 .. N
          PROVE  t[j].right = LaneAt(t, j - 1) /\ t[j].left = LaneAt(t, j + 1)
      <4>1. t[j].right = LaneAt(row, j - 1) /\ j - 1 \in 0 .. N
        BY <1>1, <1>3, <2>2, <2>7
      <4>2. CASE j = N
        BY <2>2, <2>7, <2>11, <4>1, <4>2
      <4>3. CASE j # N
        <5>1. j + 1 \in 0 .. N
          BY <1>1, <4>3
        <5>2. t[j].left = LaneAt(row, j + 1)
          BY <1>3, <2>2, <2>7, <4>3
        <5> QED
          BY <2>11, <4>1, <5>1, <5>2
      <4> QED
        BY <4>2, <4>3
    <3> QED
      BY <2>7, <2>9, <3>1, <3>2 DEF SideBySide
  <2>13. v.lane \notin IdsOf(row) => Grown(row, t)
    <3>1. \A j \in 1 .. N : j \in 1 .. N + 1
      BY <1>1
    <3> QED
      BY <2>2, <2>4, <2>7, <2>9, <2>10, <2>12, <3>1 DEF Grown, N
  <2> QED
    BY <1>6, <2>1, <2>4, <2>7, <2>13 DEF N
<1> QED
  BY <1>5, <1>6


\* addOpposingLaneToRoute adds a lane to one segment at a time.
LEMMA OpposingLaneWidensSegment ==
  ASSUME NEW m, NEW r, "segments" \in DOMAIN r, IsList(r.segments), NEW i \in 1 .. Len(r.segments),
         "lanes" \in DOMAIN r.segments[i], NEW v
  PROVE  LET t == WithOpposingLane(m, r, i, v).segments
         IN  /\ "segments" \in DOMAIN WithOpposingLane(m, r, i, v)
             /\ IsList(t) /\ Len(t) = Len(r.segments)
             /\ \A k \in 1 .. Len(t) : k # i => t[k] = r.segments[k]
             /\ "lanes" \in DOMAIN t[i]
             /\ \E offset : t[i].lanes = WiderRow(m, r.segments[i].lanes, v, offset)
<1> DEFINE N == Len(r.segments)
           s == r.segments
           outer == s[i].lanes[OutermostIndex(m, s[i])]
           offset == MovedOffset(m.leftHanded, outer.offset, 1)
           x == WithOffset(r, offset)
           row == WiderRow(m, s[i].lanes, v, offset)
           y == [x EXCEPT !.segments[i].lanes = WiderRow(m, @, v, offset)]
           t == y.segments
<1>1. WithOpposingLane(m, r, i, v) = y
  BY DEF WithOpposingLane
<1>2. "segments" \in DOMAIN x /\ x.segments = s
  BY OffsetsLeaveSegments
<1>3. N \in Nat /\ DOMAIN s = 1 .. N /\ s = [k \in 1 .. N |-> s[k]]
  BY ListProperties
<1> HIDE DEF x, offset
<1>4. "segments" \in DOMAIN y /\ t = [s EXCEPT ![i].lanes = row]
  BY <1>2, Zenon
<1> HIDE DEF y, row
<1>5. t[i] = [s[i] EXCEPT !.lanes = row] /\ \A k \in 1 .. N : k # i => t[k] = s[k]
  BY <1>3, <1>4
<1>6. t = [k \in 1 .. N |-> t[k]]
  BY <1>3, <1>4
<1> HIDE DEF t
<1>7. IsList(t) /\ Len(t) = N
  BY <1>3, <1>6, ListsAreFunctions
<1>8. "lanes" \in DOMAIN t[i] /\ t[i].lanes = row
  BY <1>5
<1> QED
  BY <1>1, <1>4, <1>5, <1>7, <1>8 DEF t, row

\* How far addOpposingLaneToRoute has got with the segments s.
Widened(m, s, t) ==
  /\ IsList(t) /\ Len(t) = Len(s)
  /\ \A k \in 1 .. Len(s) :
       \/ t[k] = s[k]
       \/ /\ "lanes" \in DOMAIN t[k]
          /\ \E v, offset : /\ IsStretch(v)
                            /\ t[k].lanes = WiderRow(m, s[k].lanes, v, offset)

HasWidened(m, s, x) ==
  /\ DOMAIN x = {"route", "covered", "i", "p", "state"}
  /\ "segments" \in DOMAIN x.route
  /\ Widened(m, s, x.route.segments)
  /\ x.state = "going" =>
       /\ x.i \in 1 .. Len(s)
       /\ \A k \in x.i .. Len(s) : x.route.segments[k] = s[k]

\* One round of its loop, and the whole of it.
LEMMA OpposingStepWidens ==
  ASSUME NEW m, NEW s, IsRoad(s), NEW x, HasWidened(m, s, x), x.state = "going", NEW distance
  PROVE  HasWidened(m, s, OpposingStep(m, x, distance))
<1> DEFINE segment == x.route.segments[x.i]
           v == OpposingInterval(m, segment, x.p, distance)
           covered == x.covered + IntervalLength(m, v)
           wider == WithOpposingLane(m, x.route, x.i, v)
           added == [x EXCEPT !.route = WithOpposingLane(m, @, x.i, v), !.covered = covered]
           onward == IF IsRouteDirectionPositive(m, FrontInterval(added.route.segments[x.i]))
                     THEN "SUCCESSOR" ELSE "PREDECESSOR"
           ahead == ContactLanes(m, x.p.lane, onward)
           q == [lane |-> ahead[1].to, offset |-> FrontInterval(x.route.segments[x.i + 1]).start]
           N == Len(s)
<1>1. \/ OpposingStep(m, x, distance) = [x EXCEPT !.state = "false"]
      \/ OpposingStep(m, x, distance) = [added EXCEPT !.state = "true"]
      \/ /\ x.i # Len(x.route.segments)
         /\ OpposingStep(m, x, distance) = [added EXCEPT !.i = @ + 1, !.p = q]
  BY Zenon DEF OpposingStep
<1>2. /\ N \in Nat /\ DOMAIN s = 1 .. N /\ x.i \in 1 .. N
      /\ "lanes" \in DOMAIN s[x.i] /\ x.route.segments[x.i] = s[x.i]
      /\ "segments" \in DOMAIN x.route
      /\ IsList(x.route.segments) /\ Len(x.route.segments) = N
  BY RowsOfRoad DEF HasWidened, Widened
<1>3. IsStretch(v)
  BY DEF OpposingInterval, RestrictIntervalFromBegin, IsStretch
<1> HIDE DEF v, covered
<1> DEFINE t == wider.segments
<1>4. /\ "segments" \in DOMAIN wider
      /\ IsList(t) /\ Len(t) = N
      /\ \A k \in 1 .. N : k # x.i => t[k] = x.route.segments[k]
      /\ "lanes" \in DOMAIN t[x.i]
      /\ \E offset : t[x.i].lanes = WiderRow(m, s[x.i].lanes, v, offset)
  <2> DEFINE before == x.route.segments
  <2>1. /\ "segments" \in DOMAIN x.route /\ IsList(before)
        /\ x.i \in 1 .. Len(before) /\ "lanes" \in DOMAIN before[x.i]
    BY <1>2
  <2> HIDE DEF N
  <2>2. /\ "segments" \in DOMAIN wider
        /\ IsList(t) /\ Len(t) = Len(before)
        /\ \A k \in 1 .. Len(t) : k # x.i => t[k] = before[k]
        /\ "lanes" \in DOMAIN t[x.i]
        /\ \E offset : t[x.i].lanes = WiderRow(m, before[x.i].lanes, v, offset)
    BY <2>1, OpposingLaneWidensSegment
  <2> HIDE DEF wider
  <2> QED
    BY <1>2, <2>2
<1>5. /\ DOMAIN added = DOMAIN x /\ added.route = wider
      /\ added.i = x.i /\ added.state = x.state /\ added.p = x.p
  <2>1. added = [x EXCEPT !.route = wider, !.covered = covered]
    BY Zenon
  <2>2. "route" \in DOMAIN x
    BY DEF HasWidened
  <2> HIDE DEF added, wider
  <2> QED
    BY <2>1, <2>2
<1> HIDE DEF wider, added, q
<1>6. Widened(m, s, t)
  BY <1>2, <1>3, <1>4 DEF HasWidened, Widened
<1>7. \A k \in x.i + 1 .. N : t[k] = s[k]
  <2>1. ASSUME NEW k \in x.i + 1 .. N PROVE t[k] = s[k]
    <3>1. k \in 1 .. N /\ k # x.i /\ k \in x.i .. N
      BY <1>2
    <3> QED
      BY <1>4, <3>1 DEF HasWidened
  <2> QED
    BY <2>1
<1> HIDE DEF t, N
<1>8. HasWidened(m, s, [x EXCEPT !.state = "false"])
  BY DEF HasWidened
<1>9. HasWidened(m, s, [added EXCEPT !.state = "true"])
  BY <1>4, <1>5, <1>6 DEF HasWidened, t
<1>10. x.i # N => HasWidened(m, s, [added EXCEPT !.i = @ + 1, !.p = q])
  <2> DEFINE y == [added EXCEPT !.i = @ + 1, !.p = q]
  <2>1. DOMAIN y = DOMAIN x /\ y.route = wider /\ y.i = x.i + 1
    BY <1>5 DEF HasWidened
  <2>2. x.i # N => x.i + 1 \in 1 .. N
    BY <1>2
  <2> HIDE DEF y
  <2>3. x.i # N => HasWidened(m, s, y)
    BY <1>4, <1>6, <1>7, <2>1, <2>2 DEF HasWidened, t, N
  <2> QED
    BY <2>3 DEF y
<1> QED
  BY <1>1, <1>2, <1>8, <1>9, <1>10

\* The rounds of addOpposingLaneToRoute.
RoundsFrom(t, m, start, distance, N) ==
  t = [i \in 0 .. N |-> IF i = 0 THEN start ELSE IF t[i - 1].state # "going" THEN t[i - 1] ELSE OpposingStep(m, t[i - 1], distance)]

LEMMA RoundsAreRepeated ==
  ASSUME NEW m, NEW start, NEW distance, NEW N \in Nat
  PROVE  \E t : RoundsFrom(t, m, start, distance, N)
<1> DEFINE Step(i, x) == IF x.state # "going" THEN x ELSE OpposingStep(m, x, distance)
           Table(t, k) == t = [i \in 0 .. k |-> IF i = 0 THEN start ELSE Step(i, t[i - 1])]
           Tabled == { k \in 0 .. N : \E t : Table(t, k) }
<1> HIDE DEF Step
<1>1. 0 \in Tabled
  <2> DEFINE t == [i \in 0 .. 0 |-> start]
  <2>1. Table(t, 0)
    OBVIOUS
  <2>2. 0 \in 0 .. N
    OBVIOUS
  <2> HIDE DEF t, Table
  <2> QED
    BY <2>1, <2>2
<1>2. ASSUME NEW k \in 0 .. N - 1, k \in Tabled PROVE k + 1 \in Tabled
  <2>1. PICK t : Table(t, k)
    BY <1>2
  <2> DEFINE x == Step(k + 1, t[k])
             u == [i \in 0 .. k + 1 |-> IF i = k + 1 THEN x ELSE t[i]]
  <2>2. k \in Nat /\ k + 1 \in 0 .. N
    OBVIOUS
  <2>3. \A i \in 0 .. k : t[i] = IF i = 0 THEN start ELSE Step(i, t[i - 1])
    BY <2>1
  <2>4. ASSUME NEW i \in 0 .. k + 1
        PROVE  u[i] = IF i = 0 THEN start ELSE Step(i, u[i - 1])
    <3>1. CASE i = k + 1
      <4>1. i # 0 /\ i - 1 = k /\ i - 1 \in 0 .. k + 1 /\ i - 1 # k + 1
        BY <2>2, <3>1
      <4>2. u[i] = x /\ u[i - 1] = t[k]
        BY <3>1, <4>1
      <4> HIDE DEF u
      <4> QED
        BY <3>1, <4>1, <4>2
    <3>2. CASE i # k + 1
      <4>1. i \in 0 .. k /\ u[i] = t[i] /\ (i # 0 => u[i - 1] = t[i - 1])
        BY <2>2, <3>2
      <4> HIDE DEF u
      <4> QED
        BY <2>3, <4>1
    <3> QED
      BY <3>1, <3>2
  <2>5. u = [i \in 0 .. k + 1 |-> u[i]]
    OBVIOUS
  <2> HIDE DEF u
  <2>6. Table(u, k + 1)
    BY <2>4, <2>5, Zenon
  <2> HIDE DEF Table
  <2> QED
    BY <2>2, <2>6
<1>3. N \in Tabled
  <2>1. \A k \in 0 .. N : k \in Tabled
    <3> HIDE DEF Tabled
    <3> QED
      BY <1>1, <1>2, UpFromZero
  <2> QED
    BY <2>1
<1> QED
  BY <1>3, Zenon DEF RoundsFrom, Step


\* However far it came, every segment is as it was or has one lane more.
LEMMA OpposingLanesWiden ==
  ASSUME NEW m, NEW r, "segments" \in DOMAIN r, IsRoad(r.segments), NEW p, NEW distance
  PROVE  HasWidened(m, r.segments, AddOpposingLane(m, r, p, distance))
<1> DEFINE s == r.segments
           N == Len(s)
           start == [route |-> r, covered |-> 0, i |-> 1, p |-> p,
                     state |-> IF distance > 0 THEN "going" ELSE "true"]
           made == CHOOSE t : RoundsFrom(t, m, start, distance, N)
           present == /\ FindWaypoint(m, s, p) # NoWaypoint
                      /\ p.lane \in LanesOf(Head(s))
           none == s = << >> \/ present
<1>1. N \in Nat /\ IsList(s)
  BY RowsOfRoad DEF IsRoad
<1>2. RoundsFrom(made, m, start, distance, N)
  <2> HIDE DEF N, start
  <2>1. \E t : RoundsFrom(t, m, start, distance, N)
    BY <1>1, RoundsAreRepeated
  <2> QED
    BY <2>1
<1>3. AddOpposingLane(m, r, p, distance)
        = IF none THEN [start EXCEPT !.state = "false"] ELSE made[N]
  BY Zenon DEF AddOpposingLane, RoundsFrom
<1>4. /\ DOMAIN start = {"route", "covered", "i", "p", "state"}
      /\ start.route = r /\ start.i = 1
  OBVIOUS
<1>5. Widened(m, s, s)
  BY <1>1 DEF Widened
<1> HIDE DEF made, start, none
<1>6. none => HasWidened(m, s, [start EXCEPT !.state = "false"])
  BY <1>4, <1>5 DEF HasWidened
<1>7. ASSUME ~ none PROVE HasWidened(m, s, start)
  <2>1. N > 0 /\ 1 \in 1 .. N
    BY <1>1, <1>7, ListProperties DEF none
  <2> QED
    BY <1>4, <1>5, <2>1 DEF HasWidened
<1>8. ASSUME ~ none PROVE HasWidened(m, s, made[N])
  <2> HIDE DEF N
  <2>1. /\ made[0] = start
        /\ \A i \in 1 .. N : \/ made[i] = made[i - 1]
                             \/ /\ made[i - 1].state = "going"
                                /\ made[i] = OpposingStep(m, made[i - 1], distance)
    BY <1>1, <1>2 DEF RoundsFrom
  <2> DEFINE Good == { i \in 0 .. N : HasWidened(m, s, made[i]) }
  <2>2. 0 \in Good
    BY <1>1, <1>7, <1>8, <2>1
  <2>3. ASSUME NEW k \in 0 .. N - 1, k \in Good PROVE k + 1 \in Good
    <3>1. k + 1 \in 1 .. N /\ k + 1 - 1 = k /\ k + 1 \in 0 .. N
      BY <1>1
    <3>2. HasWidened(m, s, made[k])
      BY <2>3
    <3>3. made[k].state = "going" => HasWidened(m, s, OpposingStep(m, made[k], distance))
      BY <3>2, OpposingStepWidens
    <3> QED
      BY <2>1, <3>1, <3>2, <3>3
  <2>4. \A k \in 0 .. N : k \in Good
    <3> HIDE DEF Good
    <3> QED
      BY <1>1, <2>2, <2>3, UpFromZero
  <2> QED
    BY <1>1, <2>4
<1> QED
  BY <1>3, <1>6, <1>8

\* The route is tied after it, if no lane was added to a segment it was on.
LEMMA OpposingLaneTies ==
  ASSUME NEW m, NEW r, TiedRoute(r), NEW p, NEW distance,
         LET t == AddOpposingLane(m, r, p, distance).route.segments
         IN  \A i \in DOMAIN r.segments :
               t[i] # r.segments[i] =>
                 LaneOf(t[i].lanes[OutermostIndex(m, t[i])]) \notin LanesOf(r.segments[i])
  PROVE  TiedRoute(AddOpposingLane(m, r, p, distance).route)
<1> DEFINE s == r.segments
           done == AddOpposingLane(m, r, p, distance)
           t == done.route.segments
<1>1. IsRoad(s) /\ Tied(s) /\ "segments" \in DOMAIN r
  BY DEF TiedRoute, Tied, Linked
<1>2. HasWidened(m, s, done)
  BY <1>1, OpposingLanesWiden
<1>3. \A i \in DOMAIN s : t[i] # s[i] =>
        LaneOf(t[i].lanes[OutermostIndex(m, t[i])]) \notin LanesOf(s[i])
  OBVIOUS
<1> HIDE DEF done
<1>4. "segments" \in DOMAIN done.route /\ Widened(m, s, t)
  BY <1>2 DEF HasWidened
<1> HIDE DEF t
<1>5. ASSUME NEW i \in 1 .. Len(s)
      PROVE  "lanes" \in DOMAIN t[i] /\ Grown(s[i].lanes, t[i].lanes)
  <2>1. IsRow(s[i].lanes) /\ SideBySide(s[i].lanes) /\ "lanes" \in DOMAIN s[i] /\ i \in DOMAIN s
    BY <1>1, RowsOfRoad DEF Tied, Linked, IsRoad
  <2>2. CASE t[i] = s[i]
    BY <2>1, <2>2, RowsAreGrown
  <2>3. CASE t[i] # s[i]
    <3>1. PICK v, offset : /\ "lanes" \in DOMAIN t[i] /\ IsStretch(v)
                           /\ t[i].lanes = WiderRow(m, s[i].lanes, v, offset)
      BY <1>4, <2>3 DEF Widened
    <3> DEFINE row == s[i].lanes
               new == WiderRow(m, row, v, offset)
    <3>2. /\ IsList(new) /\ Len(new) = Len(row) + 1
          /\ LaneOf(new[IF m.leftHanded THEN 1 ELSE Len(new)]) = v.lane
          /\ v.lane \notin IdsOf(row) => Grown(row, new)
      BY <2>1, <3>1, WiderRowIsGrown
    <3>3. LaneOf(new[IF m.leftHanded THEN 1 ELSE Len(new)]) \notin LanesOf(s[i])
      BY <1>3, <2>1, <2>3, <3>1 DEF OutermostIndex
    <3>4. LanesOf(s[i]) = IdsOf(row)
      BY DEF LanesOf, IdsOf
    <3> HIDE DEF new
    <3> QED
      BY <3>1, <3>2, <3>3, <3>4 DEF new
  <2> QED
    BY <2>2, <2>3
<1>6. GrownRoad(s, t)
  BY <1>4, <1>5 DEF GrownRoad, Widened
<1> QED
  BY <1>1, <1>4, <1>6, GrownRoadIsTied DEF TiedRoute, t, done

\* Of the waypoint kept so far and that of one more position, the one to keep.
NearerOf(m, segments, kept, p) ==
  LET IsBefore(o) ==
        IF IsRouteDirectionPositive(m, LaneSegment(segments, kept).interval)
        THEN o < kept.at ELSE o > kept.at
      w == FindWaypoint(m, segments, p)
  IN  CASE w = NoWaypoint -> kept
        [] w # NoWaypoint /\ kept = NoWaypoint -> w
        [] w # NoWaypoint /\ kept # NoWaypoint ->
             IF \/ w.segment < kept.segment
                \/ w.segment = kept.segment /\ IsBefore(w.at)
             THEN w ELSE kept

\* The waypoints findNearestWaypoint keeps.
NearestUpTo(t, m, s, positions, N) ==
  t = [i \in 0 .. N |-> IF i = 0 THEN NoWaypoint ELSE NearerOf(m, s, t[i - 1], positions[i])]

LEMMA NearestIsRepeated ==
  ASSUME NEW m, NEW s, NEW positions, NEW N \in Nat
  PROVE  \E t : NearestUpTo(t, m, s, positions, N)
<1> DEFINE Step(i, x) == NearerOf(m, s, x, positions[i])
           Table(t, k) == t = [i \in 0 .. k |-> IF i = 0 THEN NoWaypoint ELSE Step(i, t[i - 1])]
           Tabled == { k \in 0 .. N : \E t : Table(t, k) }
<1> HIDE DEF Step
<1>1. 0 \in Tabled
  <2> DEFINE t == [i \in 0 .. 0 |-> NoWaypoint]
  <2>1. Table(t, 0)
    OBVIOUS
  <2>2. 0 \in 0 .. N
    OBVIOUS
  <2> HIDE DEF t, Table
  <2> QED
    BY <2>1, <2>2
<1>2. ASSUME NEW k \in 0 .. N - 1, k \in Tabled PROVE k + 1 \in Tabled
  <2>1. PICK t : Table(t, k)
    BY <1>2
  <2> DEFINE x == Step(k + 1, t[k])
             u == [i \in 0 .. k + 1 |-> IF i = k + 1 THEN x ELSE t[i]]
  <2>2. k \in Nat /\ k + 1 \in 0 .. N
    OBVIOUS
  <2>3. \A i \in 0 .. k : t[i] = IF i = 0 THEN NoWaypoint ELSE Step(i, t[i - 1])
    BY <2>1
  <2>4. ASSUME NEW i \in 0 .. k + 1
        PROVE  u[i] = IF i = 0 THEN NoWaypoint ELSE Step(i, u[i - 1])
    <3>1. CASE i = k + 1
      <4>1. i # 0 /\ i - 1 = k /\ i - 1 \in 0 .. k + 1 /\ i - 1 # k + 1
        BY <2>2, <3>1
      <4>2. u[i] = x /\ u[i - 1] = t[k]
        BY <3>1, <4>1
      <4> HIDE DEF u
      <4> QED
        BY <3>1, <4>1, <4>2
    <3>2. CASE i # k + 1
      <4>1. i \in 0 .. k /\ u[i] = t[i] /\ (i # 0 => u[i - 1] = t[i - 1])
        BY <2>2, <3>2
      <4> HIDE DEF u
      <4> QED
        BY <2>3, <4>1
    <3> QED
      BY <3>1, <3>2
  <2>5. u = [i \in 0 .. k + 1 |-> u[i]]
    OBVIOUS
  <2> HIDE DEF u
  <2>6. Table(u, k + 1)
    BY <2>4, <2>5, Zenon
  <2> HIDE DEF Table
  <2> QED
    BY <2>2, <2>6
<1>3. N \in Tabled
  <2>1. \A k \in 0 .. N : k \in Tabled
    <3> HIDE DEF Tabled
    <3> QED
      BY <1>1, <1>2, UpFromZero
  <2> QED
    BY <2>1
<1> QED
  BY <1>3, Zenon DEF NearestUpTo, Step


\* The waypoint nearest to the begin of the route is on the route.
LEMMA NearestWaypointIsOnRoute ==
  ASSUME NEW m, NEW s, IsRoad(s), NEW positions, IsList(positions)
  PROVE  \/ FindNearestWaypoint(m, s, positions) = NoWaypoint
         \/ FindNearestWaypoint(m, s, positions).segment \in 1 .. Len(s)
<1> DEFINE N == Len(positions)
           made == CHOOSE t : NearestUpTo(t, m, s, positions, N)
           OnRoute(w) == w = NoWaypoint \/ w.segment \in 1 .. Len(s)
<1>1. N \in Nat
  BY ListProperties
<1>2. NearestUpTo(made, m, s, positions, N)
  <2> HIDE DEF N
  <2>1. \E t : NearestUpTo(t, m, s, positions, N)
    BY <1>1, NearestIsRepeated
  <2> QED
    BY <2>1
<1>3. FindNearestWaypoint(m, s, positions) = made[N]
  BY Zenon DEF FindNearestWaypoint, NearestUpTo, NearerOf
<1> HIDE DEF made, N
<1>4. /\ made[0] = NoWaypoint
      /\ \A i \in 1 .. N : made[i] = NearerOf(m, s, made[i - 1], positions[i])
  BY <1>1, <1>2 DEF NearestUpTo
<1>5. \A kept, p : OnRoute(kept) => OnRoute(NearerOf(m, s, kept, p))
  <2>1. ASSUME NEW kept, NEW p, OnRoute(kept) PROVE OnRoute(NearerOf(m, s, kept, p))
    <3> DEFINE w == FindWaypoint(m, s, p)
    <3>1. OnRoute(w)
      BY FoundWaypointIsOnRoute
    <3>2. NearerOf(m, s, kept, p) = kept \/ NearerOf(m, s, kept, p) = w
      <4> HIDE DEF OnRoute
      <4> QED
        BY DEF NearerOf
    <3> QED
      BY <2>1, <3>1, <3>2
  <2> QED
    BY <2>1
<1> DEFINE Good == { i \in 0 .. N : OnRoute(made[i]) }
<1>6. 0 \in Good
  BY <1>1, <1>4
<1>7. ASSUME NEW k \in 0 .. N - 1, k \in Good PROVE k + 1 \in Good
  <2>1. k + 1 \in 1 .. N /\ k + 1 - 1 = k /\ k + 1 \in 0 .. N
    BY <1>1
  <2> HIDE DEF OnRoute
  <2> QED
    BY <1>4, <1>5, <1>7, <2>1
<1>8. \A k \in 0 .. N : k \in Good
  <2> HIDE DEF Good
  <2> QED
    BY <1>1, <1>6, <1>7, UpFromZero
<1> QED
  BY <1>1, <1>3, <1>8

\* The points of the first legs.
PointsOf(t, done, N) ==
  t = [i \in 0 .. N |-> IF i = 0 THEN <<>> ELSE t[i - 1] \o done[i].points]

LEMMA PointsAreRepeated ==
  ASSUME NEW done, NEW N \in Nat
  PROVE  \E t : PointsOf(t, done, N)
<1> DEFINE Step(i, x) == x \o done[i].points
           Table(t, k) == t = [i \in 0 .. k |-> IF i = 0 THEN <<>> ELSE Step(i, t[i - 1])]
           Tabled == { k \in 0 .. N : \E t : Table(t, k) }
<1> HIDE DEF Step
<1>1. 0 \in Tabled
  <2> DEFINE t == [i \in 0 .. 0 |-> <<>>]
  <2>1. Table(t, 0)
    OBVIOUS
  <2>2. 0 \in 0 .. N
    OBVIOUS
  <2> HIDE DEF t, Table
  <2> QED
    BY <2>1, <2>2
<1>2. ASSUME NEW k \in 0 .. N - 1, k \in Tabled PROVE k + 1 \in Tabled
  <2>1. PICK t : Table(t, k)
    BY <1>2
  <2> DEFINE x == Step(k + 1, t[k])
             u == [i \in 0 .. k + 1 |-> IF i = k + 1 THEN x ELSE t[i]]
  <2>2. k \in Nat /\ k + 1 \in 0 .. N
    OBVIOUS
  <2>3. \A i \in 0 .. k : t[i] = IF i = 0 THEN <<>> ELSE Step(i, t[i - 1])
    BY <2>1
  <2>4. ASSUME NEW i \in 0 .. k + 1
        PROVE  u[i] = IF i = 0 THEN <<>> ELSE Step(i, u[i - 1])
    <3>1. CASE i = k + 1
      <4>1. i # 0 /\ i - 1 = k /\ i - 1 \in 0 .. k + 1 /\ i - 1 # k + 1
        BY <2>2, <3>1
      <4>2. u[i] = x /\ u[i - 1] = t[k]
        BY <3>1, <4>1
      <4> HIDE DEF u
      <4> QED
        BY <3>1, <4>1, <4>2
    <3>2. CASE i # k + 1
      <4>1. i \in 0 .. k /\ u[i] = t[i] /\ (i # 0 => u[i - 1] = t[i - 1])
        BY <2>2, <3>2
      <4> HIDE DEF u
      <4> QED
        BY <2>3, <4>1
    <3> QED
      BY <3>1, <3>2
  <2>5. u = [i \in 0 .. k + 1 |-> u[i]]
    OBVIOUS
  <2> HIDE DEF u
  <2>6. Table(u, k + 1)
    BY <2>4, <2>5, Zenon
  <2> HIDE DEF Table
  <2> QED
    BY <2>2, <2>6
<1>3. N \in Tabled
  <2>1. \A k \in 0 .. N : k \in Tabled
    <3> HIDE DEF Tabled
    <3> QED
      BY <1>1, <1>2, UpFromZero
  <2> QED
    BY <2>1
<1> QED
  BY <1>3, Zenon DEF PointsOf, Step


\* The legs of a plan, with their points.
AreLegs(done) == IsList(done) /\ \A i \in 1 .. Len(done) : IsList(done[i].points)

\* The points of all legs are a list.
LEMMA MergedPointsAreAList ==
  ASSUME NEW done, AreLegs(done)
  PROVE  IsList(MergedPoints(done))
<1> DEFINE N == Len(done)
           made == CHOOSE t : PointsOf(t, done, N)
<1>1. N \in Nat
  BY ListProperties DEF AreLegs
<1>2. PointsOf(made, done, N)
  <2> HIDE DEF N
  <2>1. \E t : PointsOf(t, done, N)
    BY <1>1, PointsAreRepeated
  <2> QED
    BY <2>1
<1>3. MergedPoints(done) = made[N]
  BY Zenon DEF MergedPoints, PointsOf
<1> DEFINE Longer(points, i) == points \o done[i].points
<1> HIDE DEF made, N, Longer
<1>4. /\ made[0] = << >>
      /\ \A i \in 1 .. N : made[i] = Longer(made[i - 1], i)
  BY <1>1, <1>2 DEF PointsOf, Longer
<1> DEFINE Good == { i \in 0 .. N : IsList(made[i]) }
<1>5. IsList(<< >>)
  <2>1. << >> \in Seq({})
    OBVIOUS
  <2> QED
    BY <2>1, SequencesAreLists
<1>6. 0 \in Good
  BY <1>1, <1>4, <1>5
<1>7. ASSUME NEW k \in 0 .. N - 1, k \in Good PROVE k + 1 \in Good
  <2>1. k + 1 \in 1 .. N /\ k + 1 - 1 = k /\ k + 1 \in 0 .. N
    BY <1>1
  <2>2. IsList(made[k]) /\ IsList(done[k + 1].points)
    BY <1>7, <2>1 DEF AreLegs, N
  <2>3. IsList(Longer(made[k], k + 1))
    BY <2>2, ListsJoined DEF Longer
  <2> QED
    BY <1>4, <2>1, <2>3
<1>8. \A k \in 0 .. N : k \in Good
  <2> HIDE DEF Good
  <2> QED
    BY <1>1, <1>6, <1>7, UpFromZero
<1> QED
  BY <1>1, <1>3, <1>8

\* One more leg.
LEMMA LegAppended ==
  ASSUME NEW done, AreLegs(done), NEW raw, IsList(raw.points)
  PROVE  AreLegs(Append(done, raw))
<1>1. /\ IsList(Append(done, raw)) /\ Len(Append(done, raw)) = Len(done) + 1
      /\ \A i \in 1 .. Len(done) : Append(done, raw)[i] = done[i]
      /\ Append(done, raw)[Len(done) + 1] = raw /\ Len(done) \in Nat
  BY ListAppended, ListProperties DEF AreLegs
<1> DEFINE x == Append(done, raw)
<1> HIDE DEF x
<1>2. \A i \in 1 .. Len(x) : i \in 1 .. Len(done) \/ i = Len(done) + 1
  BY <1>1 DEF x
<1> QED
  BY <1>1, <1>2 DEF AreLegs, x

\* The way a search reports is a list, as it knows finitely many points.
LEMMA WayIsAList ==
  ASSUME NEW came, IsFiniteSet(DOMAIN came), NEW p
  PROVE  IsList(WayTo(came, p))
<1> DEFINE K == DOMAIN came \cup {came[o] : o \in DOMAIN came} \cup {p}
           N == Cardinality(DOMAIN came)
<1>1. N \in Nat
  BY FS_CardinalityType
<1>2. p \in K /\ \A o \in DOMAIN came : o \in K /\ came[o] \in K
  OBVIOUS
<1> HIDE DEF K
<1>3. PICK P : WaysTo(P, came, K, p, N) /\ WayTo(came, p) = P[N]
  BY <1>1, <1>2, WayIsRepeated
<1> HIDE DEF N
<1>4. P[N] \in Seq(K)
  BY <1>1, <1>3 DEF WaysTo
<1> QED
  BY <1>3, <1>4, SequencesAreLists

\* The values of a function on a finite set.
LEMMA ImagesAreFinite ==
  ASSUME NEW S, IsFiniteSet(S), NEW f, DOMAIN f = S
  PROVE  IsFiniteSet({f[x] : x \in S})
<1> DEFINE T == {f[x] : x \in S}
           g == [x \in S |-> f[x]]
<1>1. g \in Surjection(S, T)
  BY DEF Surjection
<1> QED
  BY <1>1, FS_Surjection

\* Finitely many points are reached from a point in one step.
LEMMA StepsAreFinite ==
  ASSUME NEW m, IsFiniteSet(m.lanes), NEW q, NEW p, NEW cost
  PROVE  IsFiniteSet({n.to : n \in ExpandNeighbors(m, q, p, cost)})
<1> DEFINE End(k) == [lane |-> k, offset |-> Scale, dir |-> "NEGATIVE"]
           Start(k) == [lane |-> k, offset |-> 0, dir |-> "POSITIVE"]
           Aside(k) == [p EXCEPT !.lane = k]
           ends == [k \in m.lanes |-> End(k)]
           starts == [k \in m.lanes |-> Start(k)]
           asides == [k \in m.lanes |-> Aside(k)]
           A == {ends[k] : k \in m.lanes}
           B == {starts[k] : k \in m.lanes}
           C == {asides[k] : k \in m.lanes}
           D == {At(p, 0)} \cup {At(p, Scale)} \cup {q.dest}
           All == A \cup B \cup C \cup D
           T == {n.to : n \in ExpandNeighbors(m, q, p, cost)}
<1>1. IsFiniteSet(A) /\ IsFiniteSet(B) /\ IsFiniteSet(C)
  <2>1. DOMAIN ends = m.lanes /\ DOMAIN starts = m.lanes /\ DOMAIN asides = m.lanes
    OBVIOUS
  <2> HIDE DEF ends, starts, asides
  <2> QED
    BY <2>1, ImagesAreFinite
<1>2. IsFiniteSet(D)
  <2>1. \A x : IsFiniteSet({x})
    BY FS_Singleton
  <2>2. IsFiniteSet({At(p, 0)} \cup {At(p, Scale)})
    BY <2>1, FS_Union
  <2> QED
    BY <2>1, <2>2, FS_Union
<1>3. ASSUME NEW n \in ExpandNeighbors(m, q, p, cost) PROVE n.to \in All
  <2>1. CASE n \in SameLaneNeighbors(m, q, p)
    <3>1. n.to \in D
      BY <2>1 DEF SameLaneNeighbors, Neighbor, LaneEndsAhead
    <3> QED
      BY <3>1
  <2>2. CASE n \in LongitudinalNeighbors(m, q, p)
    <3>1. PICK k \in m.lanes : n.to = End(k) \/ n.to = Start(k)
      BY <2>2 DEF LongitudinalNeighbors, LongitudinalNeighbor, LongitudinalContacts
    <3>2. ends[k] = End(k) /\ starts[k] = Start(k)
      OBVIOUS
    <3>3. n.to \in A \cup B
      <4> HIDE DEF ends, starts, End, Start
      <4> QED
        BY <3>1, <3>2
    <3> QED
      BY <3>3
  <2>3. CASE n \in LateralNeighbors(m, q, p)
    <3>1. PICK k \in m.lanes : n.to = Aside(k)
      BY <2>3 DEF LateralNeighbors, Neighbor
    <3>2. asides[k] = Aside(k)
      OBVIOUS
    <3>3. n.to \in C
      <4> HIDE DEF asides, Aside
      <4> QED
        BY <3>1, <3>2
    <3> QED
      BY <3>3
  <2> QED
    BY <2>1, <2>2, <2>3 DEF ExpandNeighbors
<1> HIDE DEF A, B, C, D
<1>4. IsFiniteSet(All)
  <2>1. IsFiniteSet(A \cup B)
    BY <1>1, FS_Union
  <2>2. IsFiniteSet(A \cup B \cup C)
    BY <1>1, <2>1, FS_Union
  <2> QED
    BY <1>2, <2>2, FS_Union
<1>5. T \in SUBSET All
  BY <1>3
<1> HIDE DEF All
<1> QED
  BY <1>4, <1>5, FS_Subset

-----------------------------------------------------------------------------
(* Every call leaves a tied route.                                         *)

\* The map is one of those planned on, and a search that has reached finitely
\* many points reports a list of points.
SearchIsSound ==
  /\ map \in Maps
  /\ IsFiniteSet(DOMAIN cameFrom)
  /\ IsList(rawRoute.points)

\* So are the legs of a plan, and all routes made of them are tied.
PlansAreTied ==
  /\ AreLegs(legs)
  /\ plan # None => TiedRoute(plan)
  /\ best # None => TiedRoute(best)

\* The route in use is tied, and is not empty while it is being extended.
RouteIsTied ==
  /\ TiedRoute(route)
  /\ task = "extend" => Len(route.segments) > 0

DriveInv == SearchIsSound /\ PlansAreTied /\ RouteIsTied

\* Before the first step of a search.
LEMMA NothingSearchedYet ==
  /\ IsFiniteSet(DOMAIN << >>)
  /\ IsList(NoRawRoute.points)
  /\ AreLegs(<< >>)
<1>1. DOMAIN << >> = {}
  OBVIOUS
<1>2. IsList(<< >>) /\ Len(<< >>) = 0
  <2>1. << >> \in Seq({}) /\ Len(<< >>) = 0
    OBVIOUS
  <2> QED
    BY <2>1, SequencesAreLists
<1>3. NoRawRoute.points = << >>
  BY DEF NoRawRoute
<1> QED
  BY <1>1, <1>2, <1>3, FS_EmptySet DEF AreLegs

\* No plan was made yet, or an empty one.
LEMMA PlanningStartsTied == Init => SearchIsSound /\ PlansAreTied
<1> SUFFICES ASSUME Init PROVE SearchIsSound /\ PlansAreTied
  OBVIOUS
<1>1. PICK m \in Maps : \E r : SearchInit(m, QueryOf(r, r.start, 1))
  BY DEF Init
<1>2. SearchIsSound
  BY <1>1, NothingSearchedYet DEF SearchInit, SearchIsSound
<1>3. /\ legs = << >> /\ best = None
      /\ plan = EmptyRoute("Undefined") \/ plan = None
  BY DEF Init
<1>4. PlansAreTied
  BY <1>3, NothingSearchedYet, EmptyRouteIsTied DEF PlansAreTied
<1> QED
  BY <1>2, <1>4

\* The invariant holds at the start.
LEMMA DriveInvHoldsFirst == DriveInit => DriveInv
BY PlanningStartsTied, EmptyRouteIsTied DEF DriveInit, DriveInv, RouteIsTied

\* The steps of a search, and the start of a new one.
LEMMA NewSearchIsSound ==
  ASSUME SearchIsSound, NEW q, NewSearch(q)
  PROVE  SearchIsSound'
BY NothingSearchedYet DEF SearchIsSound, NewSearch

LEMMA SearchingIsSound ==
  ASSUME SearchIsSound, SearchNext
  PROVE  SearchIsSound'
<1>0. IsFiniteSet(map.lanes)
  BY RequestAssumption DEF SearchIsSound
<1>1. ASSUME NEW p \in DOMAIN open, Expand(p) PROVE SearchIsSound'
  <2> DEFINE targets == {n.to : n \in ExpandNeighbors(map, query, p, open[p])}
             new == {n.to : n \in Improved(map, query, open, closed, p)}
  <2>1. IsFiniteSet(targets)
    BY <1>0, StepsAreFinite
  <2>2. new \in SUBSET targets
    BY DEF Improved
  <2>3. DOMAIN cameFrom' = DOMAIN cameFrom \cup new
    BY <1>1 DEF Expand
  <2> HIDE DEF targets, new
  <2>4. IsFiniteSet(new)
    BY <2>1, <2>2, FS_Subset
  <2>5. IsFiniteSet(DOMAIN cameFrom \cup new)
    BY <2>4, FS_Union DEF SearchIsSound
  <2> QED
    BY <1>1, <2>3, <2>5 DEF Expand, SearchIsSound
<1>2. ASSUME NEW p \in DOMAIN open, Reach(p) PROVE SearchIsSound'
  <2>1. IsList(WayTo(cameFrom, p))
    BY WayIsAList DEF SearchIsSound
  <2>2. rawRoute'.points = WayTo(cameFrom, p) /\ cameFrom' = << >> /\ map' = map
    BY <1>2 DEF Reach
  <2> QED
    BY <2>1, <2>2, NothingSearchedYet DEF SearchIsSound
<1>3. ASSUME NEW p \in DOMAIN open, Throw(p) PROVE SearchIsSound'
  BY <1>3 DEF Throw, SearchIsSound
<1>4. ASSUME GiveUp PROVE SearchIsSound'
  BY <1>4, NothingSearchedYet DEF GiveUp, SearchIsSound
<1> QED
  BY <1>1, <1>2, <1>3, <1>4 DEF SearchNext

\* A step that is not one of the search.
LEMMA SameSearchIsSound ==
  ASSUME SearchIsSound, UNCHANGED <<map, cameFrom, rawRoute>>
  PROVE  SearchIsSound'
BY DEF SearchIsSound

\* A planned route is tied.
LEMMA PlannedRoutesAreTied ==
  ASSUME SearchIsSound, NEW r, NEW points, IsList(points)
  PROVE  TiedRoute(PlannedRoute(map, r, points))
<1>1. IsFiniteSet(map.lanes)
  BY RequestAssumption DEF SearchIsSound
<1> QED
  BY <1>1, CreateFullRouteTies DEF PlannedRoute

\* The steps of planRoute.
LEMMA PlanningKeepsTied ==
  ASSUME SearchIsSound, PlansAreTied, Next
  PROVE  SearchIsSound' /\ PlansAreTied'
<1>1. CASE Search
  <2>1. SearchNext /\ UNCHANGED planVars
    BY <1>1 DEF Search
  <2> QED
    BY <2>1, SearchingIsSound DEF PlansAreTied, planVars
<1>2. CASE NextDestination
  <2>1. AreLegs(legs')
    BY <1>2, LegAppended DEF NextDestination, SearchIsSound, PlansAreTied
  <2>2. best' = best
    BY <1>2 DEF NextDestination
  <2>3. CASE leg < Len(request.dests)
    <3>1. /\ NewSearch(QueryOf(request, StartOfNextLeg, leg + 1))
          /\ plan' = plan
      BY <1>2, <2>3 DEF NextDestination
    <3> QED
      BY <2>1, <2>2, <3>1, NewSearchIsSound DEF PlansAreTied
  <2>4. CASE ~ leg < Len(request.dests)
    <3>1. plan' = PlannedRoute(map, request, MergedPoints(legs')) /\ UNCHANGED searchVars
      BY <1>2, <2>4 DEF NextDestination, Stop
    <3>2. IsList(MergedPoints(legs'))
      BY <2>1, MergedPointsAreAList
    <3>3. TiedRoute(plan')
      BY <3>1, <3>2, PlannedRoutesAreTied
    <3> QED
      BY <2>1, <2>2, <3>1, <3>3, SameSearchIsSound DEF PlansAreTied, searchVars
  <2> QED
    BY <2>3, <2>4
<1>3. CASE NextCandidate
  <2>1. AreLegs(legs')
    BY <1>3, LegAppended DEF NextCandidate, SearchIsSound, PlansAreTied
  <2>2. best' = best \/ best' = PlannedRoute(map, request, rawRoute.points)
    BY <1>3 DEF NextCandidate
  <2>3. best' = best \/ TiedRoute(best')
    BY <2>2, PlannedRoutesAreTied DEF SearchIsSound
  <2>4. CASE leg < Len(request.dests)
    <3>1. NewSearch(QueryOf(request, request.start, leg + 1)) /\ plan' = plan
      BY <1>3, <2>4 DEF NextCandidate
    <3> QED
      BY <2>1, <2>3, <3>1, NewSearchIsSound DEF PlansAreTied
  <2>5. CASE ~ leg < Len(request.dests)
    <3>1. plan' = best' /\ UNCHANGED searchVars
      BY <1>3, <2>5 DEF NextCandidate, Stop
    <3> QED
      BY <2>1, <2>3, <3>1, SameSearchIsSound DEF PlansAreTied, searchVars
  <2> QED
    BY <2>4, <2>5
<1>4. CASE BreakOff
  BY <1>4 DEF BreakOff, planVars, SearchIsSound, PlansAreTied
<1>5. CASE Return
  BY <1>5 DEF Return, vars, planVars, searchVars, SearchIsSound, PlansAreTied
<1> QED
  BY <1>1, <1>2, <1>3, <1>4, <1>5 DEF Next

\* Tied segments name each other both ways.
LEMMA TiedPlansAreLinked ==
  ASSUME PlansAreTied
  PROVE  LinksGoBothWays
<1> SUFFICES ASSUME plan # None, NEW i \in 1 .. Len(plan.segments) - 1,
                    NEW a \in ToSet(plan.segments[i].lanes),
                    NEW b \in ToSet(plan.segments[i + 1].lanes)
             PROVE  LaneOf(b) \in a.succs <=> LaneOf(a) \in b.preds
  BY DEF LinksGoBothWays
<1> DEFINE here == plan.segments[i].lanes
           there == plan.segments[i + 1].lanes
<1>1. IsRoad(plan.segments) /\ Joined(here, there)
  BY DEF PlansAreTied, TiedRoute, Tied, Linked
<1>2. /\ Len(plan.segments) \in Nat
      /\ i \in 1 .. Len(plan.segments) /\ i + 1 \in 1 .. Len(plan.segments)
  BY <1>1, RowsOfRoad
<1>3. IsRow(here) /\ IsRow(there)
  BY <1>1, <1>2, RowsOfRoad
<1>4. DOMAIN here = 1 .. Len(here) /\ DOMAIN there = 1 .. Len(there)
  BY <1>3, RowBasics
<1> HIDE DEF here, there
<1>5. PICK j \in 1 .. Len(here) : a = here[j]
  BY <1>4 DEF ToSet, here
<1>6. PICK k \in 1 .. Len(there) : b = there[k]
  BY <1>4 DEF ToSet, there
<1> QED
  BY <1>1, <1>5, <1>6 DEF Joined

\* Every plan, to one destination, to a list of them or to one of several
\* candidates, has segments that name each other both ways, whatever the
\* contacts of the map are: appendRoadSegmentToRoute links a new segment to the
\* one before it and back, and no end that is aligned undoes it.
THEOREM PlansLinkBothWays == Spec => []LinksGoBothWays
<1>1. Init => SearchIsSound /\ PlansAreTied
  BY PlanningStartsTied
<1>2. SearchIsSound /\ PlansAreTied /\ [Next]_vars => (SearchIsSound /\ PlansAreTied)'
  <2>1. CASE UNCHANGED vars
    BY <2>1 DEF vars, planVars, searchVars, SearchIsSound, PlansAreTied
  <2> QED
    BY <2>1, PlanningKeepsTied
<1>3. PlansAreTied => LinksGoBothWays
  BY TiedPlansAreLinked
<1> QED
  BY <1>1, <1>2, <1>3, PTL DEF Spec

\* An answer whose segments are tied leaves the rest as it was.
LEMMA AnswerKeepsInv ==
  ASSUME DriveInv, task = "drive", NEW segments, Tied(segments), NEW answer,
         Answer(segments, answer)
  PROVE  DriveInv'
<1>1. /\ route' = [route EXCEPT !.segments = segments]
      /\ UNCHANGED <<vars, task>>
  BY DEF Answer
<1>2. TiedRoute(route')
  BY <1>1 DEF DriveInv, RouteIsTied, TiedRoute
<1> QED
  BY <1>1, <1>2 DEF DriveInv, RouteIsTied, SearchIsSound, PlansAreTied, vars, planVars, searchVars

\* The calls on the route, one by one.
LEMMA ShortenRouteKeepsInv ==
  ASSUME DriveInv, ShortenRoute
  PROVE  DriveInv'
<1>1. PICK positions \in Positions(map), mode \in ShortenModes :
        LET w == FindNearestWaypoint(map, route.segments, positions)
            done == Shorten(map, route.segments, w, positions, mode)
        IN  Answer(done.segments, done.result)
  BY DEF ShortenRoute
<1> DEFINE w == FindNearestWaypoint(map, route.segments, positions)
           cut == Shorten(map, route.segments, w, positions, mode)
<1>2. Answer(cut.segments, cut.result)
  BY <1>1
<1>3. task = "drive"
  BY DEF ShortenRoute, Call
<1>4. Tied(route.segments) /\ IsRoad(route.segments)
  BY DEF DriveInv, RouteIsTied, TiedRoute, Tied, Linked
<1>5. IsList(positions)
  BY DriveAssumption, SequencesAreLists DEF DriveInv, SearchIsSound
<1>6. w = NoWaypoint \/ w.segment \in 1 .. Len(route.segments)
  BY <1>4, <1>5, NearestWaypointIsOnRoute
<1> HIDE DEF w
<1>7. Tied(cut.segments)
  BY <1>4, <1>6, ShortenTies
<1> HIDE DEF cut
<1> QED
  BY <1>2, <1>3, <1>7, AnswerKeepsInv

LEMMA ShortenRouteByLengthKeepsInv ==
  ASSUME DriveInv, ShortenRouteByLength
  PROVE  DriveInv'
<1>1. PICK distance \in Distances(map), mode \in ShortenModes :
        LET w == FindWaypointAtLength(map, route.segments, distance)
            done == Shorten(map, route.segments, w, <<>>, mode)
        IN  Answer(done.segments, done.result)
  BY DEF ShortenRouteByLength
<1> DEFINE w == FindWaypointAtLength(map, route.segments, distance)
           cut == Shorten(map, route.segments, w, <<>>, mode)
<1>2. Answer(cut.segments, cut.result)
  BY <1>1
<1>3. task = "drive"
  BY DEF ShortenRouteByLength, Call
<1>4. Tied(route.segments) /\ IsRoad(route.segments)
  BY DEF DriveInv, RouteIsTied, TiedRoute, Tied, Linked
<1>5. w = NoWaypoint \/ w.segment \in 1 .. Len(route.segments)
  BY <1>4, WaypointAtLengthIsOnRoute
<1> HIDE DEF w
<1>6. Tied(cut.segments)
  BY <1>4, <1>5, ShortenTies
<1> HIDE DEF cut
<1> QED
  BY <1>2, <1>3, <1>6, AnswerKeepsInv

LEMMA ShortenRouteToDistanceKeepsInv ==
  ASSUME DriveInv, ShortenRouteToDistance
  PROVE  DriveInv'
<1>1. PICK distance \in Distances(map), mode \in CutModes :
        Answer(CutToDistance(map, route.segments, distance, mode), "none")
  BY DEF ShortenRouteToDistance
<1>2. task = "drive"
  BY DEF ShortenRouteToDistance, Call
<1>3. distance \in Nat
  BY DriveAssumption DEF DriveInv, SearchIsSound
<1>4. Tied(CutToDistance(map, route.segments, distance, mode))
  BY <1>3, CutToDistanceTies DEF DriveInv, RouteIsTied, TiedRoute
<1> QED
  BY <1>1, <1>2, <1>4, AnswerKeepsInv

\* A new route and nothing else.
LEMMA NewRouteKeepsInv ==
  ASSUME DriveInv, task = "drive", TiedRoute(route'), UNCHANGED <<vars, task>>
  PROVE  DriveInv'
BY DEF DriveInv, RouteIsTied, SearchIsSound, PlansAreTied, vars, planVars, searchVars

LEMMA ExpandRouteKeepsInv ==
  ASSUME DriveInv, ExpandRoute
  PROVE  DriveInv'
<1>1. PICK mode : route' = GetRouteExpandedTo(map, route, mode)
  BY DEF ExpandRoute
<1>2. task = "drive" /\ UNCHANGED <<vars, task>>
  BY DEF ExpandRoute, Call
<1>3. IsFiniteSet(map.lanes)
  BY RequestAssumption DEF DriveInv, SearchIsSound
<1>4. TiedRoute(route')
  BY <1>1, <1>3, ExpandedTies DEF DriveInv, RouteIsTied
<1> QED
  BY <1>2, <1>4, NewRouteKeepsInv

LEMMA AddOpposingLaneKeepsInv ==
  ASSUME DriveInv, OpposingLanesAreNew, AddOpposingLaneToRoute
  PROVE  DriveInv'
<1>1. PICK p \in OpposingPoints(map), distance \in Distances(map) :
        route' = AddOpposingLane(map, route, p, distance).route
  BY DEF AddOpposingLaneToRoute
<1>2. task = "drive" /\ UNCHANGED <<vars, task>>
  BY DEF AddOpposingLaneToRoute, Call
<1>3. TiedRoute(route) /\ "segments" \in DOMAIN route
  BY DEF DriveInv, RouteIsTied, TiedRoute
<1>4. LET t == AddOpposingLane(map, route, p, distance).route.segments
      IN  \A i \in DOMAIN route.segments :
            t[i] # route.segments[i] =>
              LaneOf(t[i].lanes[OutermostIndex(map, t[i])]) \notin LanesOf(route.segments[i])
  BY DEF OpposingLanesAreNew
<1>5. TiedRoute(route')
  BY <1>1, <1>3, <1>4, OpposingLaneTies
<1> QED
  BY <1>2, <1>5, NewRouteKeepsInv

LEMMA ExtendRouteKeepsInv ==
  ASSUME DriveInv, ExtendRouteToDestinations
  PROVE  DriveInv'
<1> DEFINE kept == WithoutDegeneratedEnd(route.segments)
<1>1. Tied(kept)
  BY WithoutDegeneratedTies DEF DriveInv, RouteIsTied, TiedRoute
<1>2. /\ route' = [route EXCEPT !.segments = kept]
      /\ task = "drive"
      /\ IF kept = << >> THEN UNCHANGED <<vars, task>>
         ELSE /\ \E q : NewSearch(q)
              /\ task' = "extend" /\ UNCHANGED planVars
  BY DEF ExtendRouteToDestinations, Call
<1> HIDE DEF kept
<1>3. TiedRoute(route') /\ route'.segments = kept
  BY <1>1, <1>2 DEF DriveInv, RouteIsTied, TiedRoute
<1>4. CASE kept = << >>
  BY <1>2, <1>3, <1>4, NewRouteKeepsInv
<1>5. CASE kept # << >>
  <2>1. Len(kept) \in Nat /\ Len(kept) # 0
    BY <1>1, <1>5, ListProperties DEF Tied, Linked, IsRoad
  <2>2. RouteIsTied'
    BY <1>3, <2>1 DEF RouteIsTied
  <2>3. SearchIsSound'
    BY <1>2, <1>5, NewSearchIsSound DEF DriveInv
  <2>4. PlansAreTied'
    BY <1>2, <1>5 DEF DriveInv, PlansAreTied, planVars
  <2> QED
    BY <2>2, <2>3, <2>4 DEF DriveInv
<1> QED
  BY <1>4, <1>5

LEMMA TakeExtensionKeepsInv ==
  ASSUME DriveInv, TakeExtension
  PROVE  DriveInv'
<1>1. /\ task = "extend" /\ task' = "drive" /\ UNCHANGED vars
      /\ route' = MergeRouteExtension(map, route, Extension)
  BY DEF TakeExtension, HasSearched
<1>2. IsFiniteSet(map.lanes) /\ IsList(rawRoute.points)
  BY RequestAssumption DEF DriveInv, SearchIsSound
<1>3. TiedRoute(Extension)
  BY <1>2, CreateFullRouteTies DEF Extension
<1>4. TiedRoute(route')
  BY <1>1, <1>2, <1>3, MergeTies DEF DriveInv, RouteIsTied
<1> QED
  BY <1>1, <1>4 DEF DriveInv, RouteIsTied, SearchIsSound, PlansAreTied, vars, planVars, searchVars

\* All steps.
LEMMA DriveNextKeepsInv ==
  ASSUME DriveInv, OpposingLanesAreNew, [DriveNext]_allVars
  PROVE  DriveInv'
<1>1. CASE Plan
  <2>1. Next /\ UNCHANGED driveVars
    BY <1>1 DEF Plan
  <2>2. SearchIsSound' /\ PlansAreTied'
    BY <2>1, PlanningKeepsTied DEF DriveInv
  <2> QED
    BY <2>1, <2>2 DEF DriveInv, RouteIsTied, driveVars
<1>2. CASE TakePlan
  BY <1>2 DEF TakePlan, DriveInv, RouteIsTied, SearchIsSound, PlansAreTied,
              vars, planVars, searchVars
<1>3. CASE Extend
  <2>1. SearchNext /\ UNCHANGED <<planVars, driveVars>>
    BY <1>3 DEF Extend
  <2>2. SearchIsSound'
    BY <2>1, SearchingIsSound DEF DriveInv
  <2> QED
    BY <2>1, <2>2 DEF DriveInv, RouteIsTied, PlansAreTied, planVars, driveVars
<1>4. CASE FailSearch
  BY <1>4 DEF FailSearch, DriveInv, RouteIsTied, SearchIsSound, PlansAreTied,
              vars, planVars, searchVars
<1>5. CASE UNCHANGED allVars
  BY <1>5 DEF allVars, driveVars, DriveInv, RouteIsTied, SearchIsSound, PlansAreTied,
              vars, planVars, searchVars
<1>6. CASE Done
  BY <1>5, <1>6 DEF Done
<1> QED
  BY <1>1, <1>2, <1>3, <1>4, <1>5, <1>6, ShortenRouteKeepsInv, ShortenRouteByLengthKeepsInv,
     ShortenRouteToDistanceKeepsInv, ExpandRouteKeepsInv, AddOpposingLaneKeepsInv,
     ExtendRouteKeepsInv, TakeExtensionKeepsInv DEF DriveNext

\* A tied route is consistent.
LEMMA TiedIsConsistent ==
  ASSUME TiedRoute(route)
  PROVE  RouteIsConsistent
<1> DEFINE segments == route.segments
           Ids(i) == IF i \in DOMAIN segments THEN LanesOf(segments[i]) ELSE {}
           IdAt(row, j) == IF j \in DOMAIN row THEN LaneOf(row[j]) ELSE NoLane
           N == Len(segments)
<1>1. Tied(segments) /\ IsRoad(segments)
  BY DEF TiedRoute, Tied, Linked
<1>2. N \in Nat /\ DOMAIN segments = 1 .. N
  BY <1>1, RowsOfRoad
<1> SUFFICES ASSUME NEW i \in 1 .. N, NEW j \in DOMAIN segments[i].lanes
             PROVE  LET row == segments[i].lanes IN
                    /\ row[j].right = IdAt(row, j - 1) /\ row[j].left = IdAt(row, j + 1)
                    /\ row[j].preds \subseteq Ids(i - 1) /\ row[j].succs \subseteq Ids(i + 1)
                    /\ \A k \in row[j].succs :
                         LaneOf(row[j]) \in SegmentOfLane(segments[i + 1], k).preds
                    /\ \A k \in row[j].preds :
                         LaneOf(row[j]) \in SegmentOfLane(segments[i - 1], k).succs
  BY <1>2, Zenon DEF RouteIsConsistent
<1> DEFINE row == segments[i].lanes
<1>3. IsRow(row) /\ j \in 1 .. Len(row)
  BY <1>1, RowsOfRoad, RowBasics
<1>4. row[j].right = IdAt(row, j - 1) /\ row[j].left = IdAt(row, j + 1)
  BY <1>1, <1>3 DEF Tied, Linked, SideBySide, LaneAt
<1>5. /\ row[j].succs \subseteq Ids(i + 1)
      /\ \A k \in row[j].succs : LaneOf(row[j]) \in SegmentOfLane(segments[i + 1], k).preds
  <2>1. CASE i = N
    <3>1. row[j].succs = {}
      BY <1>1, <1>2, <1>3, <2>1 DEF Tied, Ends
    <3> QED
      BY <3>1
  <2>2. CASE i # N
    <3>1. i \in 1 .. N - 1 /\ i + 1 \in 1 .. N
      BY <1>2, <2>2
    <3> DEFINE next == segments[i + 1].lanes
    <3>2. Joined(row, next) /\ IsRow(next)
      BY <1>1, <3>1, RowsOfRoad DEF Tied, Linked
    <3>3. Ids(i + 1) = IdsOf(next)
      BY <1>2, <3>1 DEF LanesOf, IdsOf
    <3>4. row[j].succs \subseteq IdsOf(next)
      BY <1>3, <3>2 DEF Joined
    <3>5. ASSUME NEW k \in row[j].succs
          PROVE  LaneOf(row[j]) \in SegmentOfLane(segments[i + 1], k).preds
      <4> DEFINE x == SegmentOfLane(segments[i + 1], k)
      <4>1. \E n \in 1 .. Len(next) : LaneOf(next[n]) = k
        BY <3>2, <3>4, RowBasics DEF IdsOf
      <4>2. \E n \in 1 .. Len(next) : x = next[n] /\ LaneOf(next[n]) = k
        BY <3>2, <4>1, RowBasics DEF SegmentOfLane
      <4> HIDE DEF x
      <4> QED
        BY <1>3, <3>2, <4>2 DEF Joined, x
    <3> QED
      BY <3>3, <3>4, <3>5
  <2> QED
    BY <2>1, <2>2
<1>6. /\ row[j].preds \subseteq Ids(i - 1)
      /\ \A k \in row[j].preds : LaneOf(row[j]) \in SegmentOfLane(segments[i - 1], k).succs
  <2>1. CASE i = 1
    <3>1. row[j].preds = {}
      BY <1>1, <1>2, <1>3, <2>1 DEF Tied, Begins
    <3> QED
      BY <3>1
  <2>2. CASE i # 1
    <3>1. i - 1 \in 1 .. N - 1 /\ i - 1 \in 1 .. N /\ (i - 1) + 1 = i
      BY <1>2, <2>2
    <3> DEFINE back == segments[i - 1].lanes
    <3>2. Joined(back, row) /\ IsRow(back)
      BY <1>1, <3>1, RowsOfRoad DEF Tied, Linked
    <3>3. Ids(i - 1) = IdsOf(back)
      BY <1>2, <3>1 DEF LanesOf, IdsOf
    <3>4. row[j].preds \subseteq IdsOf(back)
      BY <1>3, <3>2 DEF Joined
    <3>5. ASSUME NEW k \in row[j].preds
          PROVE  LaneOf(row[j]) \in SegmentOfLane(segments[i - 1], k).succs
      <4> DEFINE x == SegmentOfLane(segments[i - 1], k)
      <4>1. \E n \in 1 .. Len(back) : LaneOf(back[n]) = k
        BY <3>2, <3>4, RowBasics DEF IdsOf
      <4>2. \E n \in 1 .. Len(back) : x = back[n] /\ LaneOf(back[n]) = k
        BY <3>2, <4>1, RowBasics DEF SegmentOfLane
      <4> HIDE DEF x
      <4> QED
        BY <1>3, <3>2, <4>2 DEF Joined, x
    <3> QED
      BY <3>3, <3>4, <3>5
  <2> QED
    BY <2>1, <2>2
<1> QED
  BY <1>4, <1>5, <1>6

\* Whatever is called on a route in whatever order, it stays consistent: the
\* neighbours its lanes name are the lanes beside them, and predecessors and
\* successors name each other across the segments.  Only addOpposingLaneToRoute
\* could add a lane its segment has already.
THEOREM RoutesStayConsistent ==
  DriveSpec /\ []OpposingLanesAreNew => []RouteIsConsistent
<1>1. DriveInit => DriveInv
  BY DriveInvHoldsFirst
<1>2. DriveInv /\ OpposingLanesAreNew /\ [DriveNext]_allVars => DriveInv'
  BY DriveNextKeepsInv
<1>3. DriveInv => RouteIsConsistent
  BY TiedIsConsistent DEF DriveInv, RouteIsTied
<1> QED
  BY <1>1, <1>2, <1>3, PTL DEF DriveSpec

-----------------------------------------------------------------------------
(* An extension leaves the way to the last segment as it was.              *)

\* A list of segments that begins with the lanes of another.
Keeps(s, t) ==
  /\ IsRoad(s) /\ IsRoad(t) /\ Len(s) <= Len(t)
  /\ \A i \in 1 .. Len(s) :
       /\ Len(t[i].lanes) = Len(s[i].lanes)
       /\ \A j \in 1 .. Len(s[i].lanes) : t[i].lanes[j].interval = s[i].lanes[j].interval

\* What is kept of what was kept.
LEMMA KeepingOnKeeps ==
  ASSUME NEW s, NEW t, NEW u, Keeps(s, t), Keeps(t, u)
  PROVE  Keeps(s, u)
<1>1. Len(s) \in Nat /\ Len(t) \in Nat /\ Len(u) \in Nat
  BY RowsOfRoad DEF Keeps
<1>2. Len(s) <= Len(u) /\ \A i \in 1 .. Len(s) : i \in 1 .. Len(t)
  BY <1>1 DEF Keeps
<1> QED
  BY <1>2 DEF Keeps

\* A new segment, made of lanes or of an interval, leaves those before it.
LEMMA AppendedLanesKeep ==
  ASSUME NEW s, IsRoad(s), NEW lanes, IsRoad(AppendLanes(s, lanes))
  PROVE  Keeps(s, AppendLanes(s, lanes))
<1> DEFINE N == Len(s)
           segment == [lanes |-> lanes, fromDest |-> 0]
           known == WithSuccessors(s, ToSet(lanes))
           t == Append(known, segment)
<1>1. /\ N \in Nat /\ DOMAIN s = 1 .. N
      /\ \A i \in 1 .. N : "lanes" \in DOMAIN s[i] /\ IsRow(s[i].lanes)
  BY RowsOfRoad
<1>2. AppendLanes(s, lanes) = t
  BY DEF AppendLanes
<1>3. IsList(known) /\ Len(known) = N
  <2>1. known = [i \in 1 .. N |-> known[i]]
    BY <1>1 DEF WithSuccessors
  <2> HIDE DEF known
  <2> QED
    BY <1>1, <2>1, ListsAreFunctions
<1>4. Len(t) = N + 1 /\ \A i \in 1 .. N : t[i] = known[i]
  <2> HIDE DEF known, segment
  <2> QED
    BY <1>3, ListAppended
<1>5. ASSUME NEW i \in 1 .. N
      PROVE  /\ Len(known[i].lanes) = Len(s[i].lanes)
             /\ \A j \in 1 .. Len(s[i].lanes) : known[i].lanes[j].interval = s[i].lanes[j].interval
  <2> DEFINE row == s[i].lanes
             new == [j \in DOMAIN row |-> Knowing(row[j], ToSet(lanes))]
  <2>1. /\ DOMAIN row = 1 .. Len(row) /\ Len(row) \in Nat
        /\ \A j \in 1 .. Len(row) : IsLane(row[j])
    BY <1>1, RowBasics DEF IsRow
  <2>2. known[i] = IF i < N THEN s[i] ELSE [s[i] EXCEPT !.lanes = new]
    BY <1>1, Zenon DEF WithSuccessors
  <2>3. known[i].lanes = row \/ known[i].lanes = new
    <3> HIDE DEF new, known
    <3> QED
      BY <1>1, <2>2
  <2>4. new = [j \in 1 .. Len(row) |-> new[j]]
    BY <2>1
  <2>5. \A j \in 1 .. Len(row) : new[j].interval = row[j].interval
    BY <2>1 DEF Knowing, IsLane
  <2> HIDE DEF new, row, known
  <2>6. Len(new) = Len(row)
    BY <2>1, <2>4, ListsAreFunctions
  <2> QED
    BY <2>3, <2>5, <2>6 DEF row
<1> HIDE DEF known, segment, t
<1> QED
  BY <1>1, <1>2, <1>4, <1>5 DEF Keeps

LEMMA AppendedSegmentKeeps ==
  ASSUME NEW m, IsFiniteSet(m.lanes), NEW r, TiedRoute(r),
         NEW v, IsStretch(v), NEW offset, NEW relevant
  PROVE  Keeps(r.segments, AppendRoadSegment(m, r, v, offset, relevant).segments)
<1> DEFINE done == AppendRoadSegment(m, r, v, offset, relevant)
           a == MovedOffset(TRUE, offset, Len(Tail(SideLanes(m, r.mode, v.lane,
                  IF IsRouteDirectionPositive(m, v) THEN "RIGHT" ELSE "LEFT", relevant))))
           b == MovedOffset(FALSE, offset, Len(Tail(SideLanes(m, r.mode, v.lane,
                  IF IsRouteDirectionPositive(m, v) THEN "LEFT" ELSE "RIGHT", relevant))))
           moved == WithOffset(WithOffset(WithOffset(r, offset), a), b)
<1>1. \E joined : done = [moved EXCEPT !.segments = AppendLanes(@, joined)]
  BY Zenon DEF AppendRoadSegment
<1>2. "segments" \in DOMAIN moved /\ moved.segments = r.segments
  <2>1. "segments" \in DOMAIN r
    BY DEF TiedRoute
  <2> HIDE DEF a, b
  <2> QED
    BY <2>1, AllOffsetsLeaveSegments
<1>3. IsRoad(r.segments) /\ IsRoad(done.segments)
  BY AppendRoadSegmentTies DEF TiedRoute, Tied, Linked
<1> HIDE DEF moved
<1>4. PICK joined : done.segments = AppendLanes(r.segments, joined)
  <2> HIDE DEF done
  <2> QED
    BY <1>1, <1>2
<1> QED
  BY <1>3, <1>4, AppendedLanesKeep

\* The first lane of a segment has an interval.
LEMMA FrontHasLane ==
  ASSUME NEW segments, IsRoad(segments), NEW i \in 1 .. Len(segments)
  PROVE  IsStretch(FrontInterval(segments[i]))
<1>1. IsRow(segments[i].lanes)
  BY RowsOfRoad
<1>2. IsList(segments[i].lanes) /\ Len(segments[i].lanes) > 0
  BY <1>1 DEF IsRow
<1>3. Head(segments[i].lanes) = segments[i].lanes[1] /\ 1 \in 1 .. Len(segments[i].lanes)
  BY <1>1, <1>2, ListTail, RowBasics
<1> QED
  BY <1>1, <1>3 DEF IsRow, IsLane, FrontInterval

\* All segments of an extension leave the route before them.
LEMMA AppendedSegmentsKeep ==
  ASSUME NEW m, IsFiniteSet(m.lanes), NEW base, TiedRoute(base), NEW segments, IsRoad(segments),
         NEW offset
  PROVE  Keeps(base.segments, AppendSegments(m, base, segments, offset).segments)
<1> DEFINE N == Len(segments)
           made == CHOOSE t : RoutesWith(t, m, base, segments, offset, N)
<1>1. N \in Nat
  BY RowsOfRoad
<1>2. RoutesWith(made, m, base, segments, offset, N)
  <2> HIDE DEF N
  <2>1. \E t : RoutesWith(t, m, base, segments, offset, N)
    BY <1>1, AppendingIsRepeated
  <2> QED
    BY <2>1
<1>3. AppendSegments(m, base, segments, offset) = made[N]
  BY Zenon DEF AppendSegments, RoutesWith
<1> DEFINE At2(i) == offset + Head(segments[i].lanes).offset
<1> HIDE DEF made, At2
<1>4. /\ made[0] = base
      /\ \A i \in 1 .. N :
           made[i] = AppendRoadSegment(m, made[i - 1], FrontInterval(segments[i]), At2(i), {})
  <2> HIDE DEF N
  <2> QED
    BY <1>1, <1>2 DEF RoutesWith, At2
<1>5. \A i \in 1 .. N : IsStretch(FrontInterval(segments[i]))
  BY FrontHasLane
<1> HIDE DEF N
<1> DEFINE Good == {i \in 0 .. N : TiedRoute(made[i]) /\ Keeps(base.segments, made[i].segments)}
<1>6. 0 \in Good
  <2>1. IsRoad(base.segments) /\ Len(base.segments) \in Nat
    BY RowsOfRoad DEF TiedRoute, Tied, Linked
  <2>2. Keeps(base.segments, base.segments)
    BY <2>1 DEF Keeps
  <2> QED
    BY <1>1, <1>4, <2>2
<1>7. ASSUME NEW k \in 0 .. N - 1, k \in Good PROVE k + 1 \in Good
  <2>1. k + 1 \in 1 .. N /\ k + 1 - 1 = k /\ k + 1 \in 0 .. N
    BY <1>1
  <2>2. TiedRoute(made[k]) /\ IsStretch(FrontInterval(segments[k + 1]))
    BY <1>5, <1>7, <2>1
  <2> DEFINE new == AppendRoadSegment(m, made[k], FrontInterval(segments[k + 1]), At2(k + 1), {})
  <2>3. TiedRoute(new) /\ Keeps(made[k].segments, new.segments)
    BY <2>2, AppendRoadSegmentTies, AppendedSegmentKeeps
  <2>4. made[k + 1] = new
    BY <1>4, <2>1
  <2> HIDE DEF new
  <2>5. Keeps(base.segments, new.segments)
    BY <1>7, <2>3, KeepingOnKeeps
  <2> QED
    BY <2>1, <2>3, <2>4, <2>5
<1>8. \A k \in 0 .. N : k \in Good
  <2> HIDE DEF Good
  <2> QED
    BY <1>1, <1>6, <1>7, UpFromZero
<1> QED
  BY <1>1, <1>3, <1>8

\* removeLastRoadSegment leaves all but the last segment.
LEMMA WithoutLastKeepsRest ==
  ASSUME NEW s, Tied(s), Len(s) > 0
  PROVE  LET t == WithoutLastSegment(s) IN
         /\ Len(t) = Len(s) - 1
         /\ \A i \in 1 .. Len(s) - 1 :
              /\ Len(t[i].lanes) = Len(s[i].lanes)
              /\ \A j \in 1 .. Len(s[i].lanes) : t[i].lanes[j].interval = s[i].lanes[j].interval
<1> DEFINE n == Len(s) - 1
           kept == SubSeq(s, 1, n)
<1>1. IsRoad(s) /\ IsList(s) /\ Len(s) \in Nat /\ n \in 0 .. Len(s)
  <2>1. IsRoad(s)
    BY DEF Tied, Linked
  <2> QED
    BY <2>1, RowsOfRoad DEF IsRoad
<1>2. Linked(kept) /\ Len(kept) = n
  BY <1>1, FrontPart DEF Tied
<1>3. \A i \in 1 .. n : kept[i] = s[i]
  BY <1>1, ListPart
<1> HIDE DEF kept
<1>4. CASE kept = << >>
  BY <1>1, <1>2, <1>3, <1>4 DEF WithoutLastSegment, kept
<1>5. CASE kept # << >>
  <2> DEFINE row == kept[n].lanes
             new == [j \in DOMAIN row |-> [row[j] EXCEPT !.succs = {}]]
             t == [kept EXCEPT ![n].lanes = new]
  <2>1. WithoutLastSegment(s) = t
    BY <1>2, <1>5 DEF WithoutLastSegment, ClearSuccessors, kept
  <2>2. n \in 1 .. n /\ IsRoad(kept) /\ IsRow(row) /\ DOMAIN kept = 1 .. n
    BY <1>1, <1>2, <1>5, RowsOfRoad DEF Linked
  <2>3. /\ Len(row) \in Nat /\ DOMAIN row = 1 .. Len(row)
        /\ \A j \in 1 .. Len(row) : IsLane(row[j])
    BY <2>2, RowBasics DEF IsRow
  <2>4. new = [j \in 1 .. Len(row) |-> new[j]]
    BY <2>3
  <2>5. \A j \in 1 .. Len(row) : new[j].interval = row[j].interval
    BY <2>3 DEF IsLane
  <2>6. Len(new) = Len(row)
    <3> HIDE DEF new, row
    <3> QED
      BY <2>3, <2>4, ListsAreFunctions
  <2> HIDE DEF new
  <2>7. Len(t) = n /\ t[n].lanes = new /\ \A i \in 1 .. n : i # n => t[i] = kept[i]
    BY <1>2, <2>2, RowReplaced
  <2> HIDE DEF t
  <2> QED
    BY <1>3, <2>1, <2>5, <2>6, <2>7
<1> QED
  BY <1>4, <1>5

\* The route and its extension: all but the last segment of the route stays.
LEMMA MergeKeepsTheWay ==
  ASSUME NEW m, IsFiniteSet(m.lanes), NEW r, TiedRoute(r), Len(r.segments) > 0,
         NEW extension, TiedRoute(extension)
  PROVE  WayIsKept(r.segments, MergeRouteExtension(m, r, extension).segments)
<1> DEFINE s == r.segments
           reference == Head(Last(r.segments).lanes).offset
           kept == [r EXCEPT !.segments = WithoutLastSegment(@)]
           whole == AppendSegments(m, kept, extension.segments, reference)
<1>1. MergeRouteExtension(m, r, extension) = WithCounters(whole)
  BY DEF MergeRouteExtension
<1>2. kept.segments = WithoutLastSegment(s) /\ TiedRoute(kept)
  BY WithoutLastTies DEF TiedRoute
<1>3. IsRoad(extension.segments)
  BY DEF TiedRoute, Tied, Linked
<1> HIDE DEF kept, reference
<1>4. TiedRoute(whole) /\ Keeps(kept.segments, whole.segments)
  BY <1>2, <1>3, AppendSegmentsTies, AppendedSegmentsKeep
<1> HIDE DEF whole
<1> DEFINE t == kept.segments
           u == whole.segments
           new == WithCounters(whole).segments
           Alike(a, b) == /\ Len(b) = Len(a)
                          /\ \A j \in 1 .. Len(a) : b[j].interval = a[j].interval
<1>5. /\ IsRoad(s) /\ Len(s) \in Nat /\ DOMAIN s = 1 .. Len(s)
      /\ \A i \in 1 .. Len(s) : DOMAIN s[i].lanes = 1 .. Len(s[i].lanes)
  <2>1. IsRoad(s)
    BY DEF TiedRoute, Tied, Linked
  <2> QED
    BY <2>1, RowsOfRoad, RowBasics
<1>6. Len(t) = Len(s) - 1 /\ \A i \in 1 .. Len(s) - 1 : Alike(s[i].lanes, t[i].lanes)
  BY <1>2, WithoutLastKeepsRest DEF TiedRoute
<1>7. Len(t) <= Len(u) /\ \A i \in 1 .. Len(t) : Alike(t[i].lanes, u[i].lanes)
  BY <1>4 DEF Keeps
<1>8. /\ DOMAIN new = 1 .. Len(u) /\ Len(u) \in Nat
      /\ \A i \in 1 .. Len(u) : new[i].lanes = u[i].lanes
  <2>1. IsRoad(u)
    BY <1>4 DEF TiedRoute, Tied, Linked
  <2>2. Len(u) \in Nat /\ \A i \in 1 .. Len(u) : "lanes" \in DOMAIN u[i]
    BY <2>1, RowsOfRoad
  <2>3. new = [i \in 1 .. Len(u) |-> [u[i] EXCEPT !.fromDest = Len(u) + 1 - i]]
    BY <1>4 DEF WithCounters, TiedRoute
  <2> HIDE DEF new
  <2> QED
    BY <2>2, <2>3
<1> HIDE DEF s, t, u, new
<1>9. ASSUME NEW i \in 1 .. Len(s) - 1
      PROVE  i \in DOMAIN new /\ Alike(s[i].lanes, new[i].lanes)
  <2>1. i \in 1 .. Len(t) /\ i \in 1 .. Len(u)
    BY <1>5, <1>6, <1>7, <1>8
  <2>2. Alike(s[i].lanes, t[i].lanes) /\ Alike(t[i].lanes, u[i].lanes)
    BY <1>6, <1>7, <2>1
  <2> QED
    BY <1>8, <2>1, <2>2
<1>10. \A i \in 1 .. Len(s) - 1 : i \in 1 .. Len(s)
  BY <1>5
<1>11. WayIsKept(s, new)
  BY <1>5, <1>9, <1>10 DEF WayIsKept
<1> QED
  BY <1>1, <1>11 DEF s, new

\* No other step ends an extension well.
LEMMA OnlyTakingExtends ==
  ASSUME DriveNext, IsExtended
  PROVE  TakeExtension
<1>1. task = "extend" /\ result' = "true" /\ task' = "drive" /\ task # task'
  BY DEF IsExtended
<1>2. ~ Plan /\ ~ Extend /\ ~ Done
  BY <1>1 DEF Plan, Extend, Done, driveVars, allVars
<1>3. ~ TakePlan /\ ~ FailSearch
  BY <1>1 DEF TakePlan, FailSearch
<1>4. ~ Call
  BY <1>1 DEF Call
<1> QED
  BY <1>2, <1>3, <1>4 DEF DriveNext, ShortenRoute, ShortenRouteByLength, ShortenRouteToDistance,
     ExpandRoute, AddOpposingLaneToRoute, ExtendRouteToDestinations

\* extendRouteToDestinations leaves all segments but the last as they were: the
\* same lanes, driven along the same stretches.
THEOREM ExtensionsKeepTheWay ==
  DriveSpec /\ []OpposingLanesAreNew => ExtensionKeepsTheWay
<1>1. DriveInit => DriveInv
  BY DriveInvHoldsFirst
<1>2. DriveInv /\ OpposingLanesAreNew /\ [DriveNext]_allVars => DriveInv'
  BY DriveNextKeepsInv
<1>3. DriveInv /\ [DriveNext]_allVars =>
        [IsExtended => WayIsKept(route.segments, route'.segments)]_allVars
  <2> SUFFICES ASSUME DriveInv, DriveNext, IsExtended
               PROVE  WayIsKept(route.segments, route'.segments)
    BY DEF allVars
  <2>1. TakeExtension
    BY OnlyTakingExtends
  <2>2. route' = MergeRouteExtension(map, route, Extension)
    BY <2>1 DEF TakeExtension
  <2>3. IsFiniteSet(map.lanes) /\ IsList(rawRoute.points)
    BY RequestAssumption DEF DriveInv, SearchIsSound
  <2>4. TiedRoute(Extension)
    BY <2>3, CreateFullRouteTies DEF Extension
  <2> QED
    BY <2>2, <2>3, <2>4, MergeKeepsTheWay DEF DriveInv, RouteIsTied, IsExtended
<1> QED
  BY <1>1, <1>2, <1>3, PTL DEF DriveSpec, ExtensionKeepsTheWay

-----------------------------------------------------------------------------
(* A shortened route begins at the vehicle.                                *)

\* findWaypoint returns a lane of the point.
LEMMA FoundPlaceHoldsThePoint ==
  ASSUME NEW m, NEW s, IsRoad(s), NEW p, NEW w, w = FindWaypoint(m, s, p), w # NoWaypoint
  PROVE  /\ w.segment \in 1 .. Len(s) /\ w.lane \in 1 .. Len(s[w.segment].lanes)
         /\ LaneOf(LaneSegment(s, w)) = p.lane /\ w.at = p.offset
<1> DEFINE holds(x) == LET v == LaneSegment(s, x).interval
                       IN  /\ v.lane = p.lane
                           /\ IsWithinInterval(m, ExtendInterval(m, v, Tolerance), p.offset)
           places == {x \in Places(s) : holds(x)}
           S == {x.segment : x \in places}
           first == Min(S)
           L == {x.lane : x \in {y \in places : y.segment = first}}
<1>1. w = FirstPlace(places, p.offset)
  BY DEF FindWaypoint
<1>2. \A x \in places :
        /\ x.segment \in 1 .. Len(s) /\ x.lane \in 1 .. Len(s[x.segment].lanes)
        /\ LaneSegment(s, x).interval.lane = p.lane
  <2>1. DOMAIN s = 1 .. Len(s) /\ \A i \in 1 .. Len(s) : DOMAIN s[i].lanes = 1 .. Len(s[i].lanes)
    BY RowsOfRoad, RowBasics
  <2> QED
    BY <2>1 DEF Places
<1> HIDE DEF places
<1>3. places # {} /\ w = [segment |-> first, at |-> p.offset, lane |-> Min(L)]
  <2>1. places # {}
    BY <1>1 DEF FirstPlace
  <2> QED
    BY <1>1, <2>1, Zenon DEF FirstPlace
<1>4. S \subseteq Nat /\ S # {}
  BY <1>2, <1>3
<1>5. first \in S
  <2> HIDE DEF S
  <2> QED
    BY <1>4, MinOfNaturals
<1> HIDE DEF first
<1>6. L \subseteq Nat /\ L # {}
  BY <1>2, <1>5
<1>7. Min(L) \in L
  <2> HIDE DEF L
  <2> QED
    BY <1>6, MinOfNaturals
<1>8. PICK x \in places : x.segment = first /\ x.lane = Min(L)
  BY <1>7
<1> HIDE DEF L
<1>9. w.segment = x.segment /\ w.lane = x.lane /\ w.at = p.offset
  BY <1>3, <1>8
<1> QED
  BY <1>2, <1>8, <1>9 DEF LaneOf, LaneSegment

\* A route cut at a waypoint begins there, on the lane of the waypoint.
LEMMA CutBeginsAtWaypoint ==
  ASSUME NEW m, NEW s, Tied(s), NEW w, w.segment \in 1 .. Len(s),
         w.lane \in 1 .. Len(s[w.segment].lanes),
         IsWithinInterval(m, LaneSegment(s, w).interval, w.at),
         \A j \in 1 .. Len(s[w.segment].lanes) :
           LET v == s[w.segment].lanes[j].interval
           IN  ~ IsDegenerated(v) /\ w.at # v.end /\ ~ IsAfterInterval(m, v, w.at)
  PROVE  LET cut == CutAt(m, s, w) IN
         /\ IsRoad(cut) /\ Len(cut) > 0 /\ ~ IsDegenerated(FrontInterval(cut[1]))
         /\ w.lane \in 1 .. Len(cut[1].lanes)
         /\ LaneOf(cut[1].lanes[w.lane]) = WaypointLane(s, w)
         /\ cut[1].lanes[w.lane].interval.start = w.at
<1> DEFINE kept == SubSeq(s, w.segment, Len(s))
           row == s[w.segment].lanes
           new == [j \in DOMAIN kept[1].lanes |-> ShorterLane(m, kept[1].lanes[j], w.at)]
           cut == CutAt(m, s, w)
<1>1. Linked(kept) /\ Len(kept) > 0 /\ kept[1] = s[w.segment]
  <2>1. Linked(s) /\ Ends(s) /\ IsRoad(s) /\ IsList(s) /\ Len(s) \in Nat
    BY RowsOfRoad DEF Tied, Linked, IsRoad
  <2>2. Linked(kept) /\ Len(kept) > 0
    BY <2>1, BackPart
  <2>3. kept[1] = s[w.segment + 1 - 1]
    BY <2>1, ListPart
  <2> QED
    BY <2>1, <2>2, <2>3
<1>2. cut = [kept EXCEPT ![1].lanes = [j \in DOMAIN @ |-> ShorterLane(m, @[j], w.at)]]
  BY DEF CutAt
<1>3. Linked(cut) /\ Len(cut) > 0
  BY CutGoesOn DEF Tied
<1> HIDE DEF kept, cut
<1>4. IsRoad(kept) /\ 1 \in 1 .. Len(kept)
  BY <1>1, RowsOfRoad DEF Linked
<1>5. cut = [kept EXCEPT ![1].lanes = new]
  BY <1>2, <1>4, LanesOfRow
<1>6. cut[1].lanes = new
  <2> HIDE DEF new
  <2> QED
    BY <1>4, <1>5, RowReplaced
<1>7. /\ new = [j \in 1 .. Len(row) |-> ShorterLane(m, row[j], w.at)]
      /\ Len(row) \in Nat \ {0} /\ \A j \in 1 .. Len(row) : IsLane(row[j])
  <2>1. IsRow(row)
    BY RowsOfRoad DEF Tied, Linked
  <2> QED
    BY <1>1, <2>1, RowBasics DEF IsRow
<1> HIDE DEF new
<1>8. IsList(new) /\ Len(new) = Len(row) /\ \A j \in 1 .. Len(row) : new[j] = ShorterLane(m, row[j], w.at)
  BY <1>7, ListsAreFunctions
<1>9. ASSUME NEW j \in 1 .. Len(row)
      PROVE  LET v == row[j].interval IN
             /\ ~ IsDegenerated(new[j].interval)
             /\ IsWithinInterval(m, v, w.at) =>
                  new[j].interval.start = w.at /\ LaneOf(new[j]) = LaneOf(row[j])
  <2> DEFINE v == row[j].interval
  <2>1. ~ IsDegenerated(v) /\ w.at # v.end /\ ~ IsAfterInterval(m, v, w.at)
    OBVIOUS
  <2>2. new[j] = IF IsWithinInterval(m, v, w.at) THEN [row[j] EXCEPT !.interval.start = w.at]
                 ELSE row[j]
    BY <1>8, <2>1, Zenon DEF ShorterLane
  <2>3. IsLane(row[j])
    BY <1>7
  <2> QED
    BY <2>1, <2>2, <2>3 DEF IsLane, IsStretch, LaneOf, IsDegenerated
<1>10. FrontInterval(cut[1]) = new[1].interval /\ 1 \in 1 .. Len(row)
  BY <1>6, <1>7, <1>8, ListTail DEF FrontInterval
<1>11. LaneSegment(s, w) = row[w.lane]
  BY DEF LaneSegment
<1> HIDE DEF row
<1>12. /\ w.lane \in 1 .. Len(row) /\ IsWithinInterval(m, row[w.lane].interval, w.at)
       /\ WaypointLane(s, w) = LaneOf(row[w.lane])
  BY <1>11 DEF row, WaypointLane
<1> QED
  BY <1>3, <1>6, <1>8, <1>9, <1>10, <1>12 DEF Linked, cut

\* alignRouteStartingPoints leaves the lane it is asked for.
LEMMA AlignedStartKeepsOwnLane ==
  ASSUME NEW m, NEW s, IsRoad(s), Len(s) > 0, NEW j \in 1 .. Len(s[1].lanes),
         NEW p, LaneOf(s[1].lanes[j]) = p.lane
  PROVE  /\ Len(AlignRouteStartingPoints(m, s, p)) > 0
         /\ AlignRouteStartingPoints(m, s, p)[1].lanes[j] = s[1].lanes[j]
         /\ j \in 1 .. Len(AlignRouteStartingPoints(m, s, p)[1].lanes)
<1> DEFINE t == AlignRouteStartingPoints(m, s, p)
           new == [k \in DOMAIN s[1].lanes |-> AlignedLane(m, s[1].lanes[k], p, TRUE)]
<1>1. Len(s) \in Nat /\ 1 \in 1 .. Len(s) /\ s # << >>
  BY RowsOfRoad
<1>2. t = [s EXCEPT ![1].lanes = new]
  BY <1>1, LanesOfRow DEF AlignSegment, AlignRouteStartingPoints
<1>3. DOMAIN s[1].lanes = 1 .. Len(s[1].lanes) /\ Len(s[1].lanes) \in Nat
  BY <1>1, RowsOfRoad, RowBasics
<1>4. new[j] = s[1].lanes[j]
  <2>1. new[j] = AlignedLane(m, s[1].lanes[j], p, TRUE)
    BY <1>3
  <2> HIDE DEF new
  <2>2. s[1].lanes[j].interval.lane = p.lane
    BY DEF LaneOf
  <2> QED
    BY <2>1, <2>2, Zenon DEF AlignedLane
<1>5. Len(new) = Len(s[1].lanes)
  <2>1. new = [k \in 1 .. Len(s[1].lanes) |-> new[k]]
    BY <1>3
  <2> HIDE DEF new
  <2> QED
    BY <1>3, <2>1, ListsAreFunctions
<1> HIDE DEF new
<1>6. Len(t) = Len(s) /\ t[1].lanes = new
  BY <1>1, <1>2, RowReplaced
<1> QED
  BY <1>4, <1>5, <1>6

\* Nor does anything else shortenRoute does move that begin.
LEMMA ShortenedBeginsAtVehicle ==
  ASSUME NEW m, NEW s, Tied(s), NEW p, NEW w, w = FindWaypoint(m, s, p), w # NoWaypoint,
         IsWithinInterval(m, LaneSegment(s, w).interval, p.offset),
         \A v \in IntervalsOf(<<s[w.segment]>>) :
           ~ IsDegenerated(v) /\ p.offset # v.end /\ ~ IsAfterInterval(m, v, p.offset)
  PROVE  LET done == Shorten(m, s, w, <<p>>, "Normal")
             ls == done.segments[1].lanes[w.lane]
         IN  done.segments # <<>> /\ LaneOf(ls) = p.lane /\ ls.interval.start = p.offset
<1> DEFINE cut == CutAt(m, s, w)
           asked == [lane |-> WaypointLane(s, w), offset |-> w.at]
           kept == AlignRouteStartingPoints(m, cut, asked)
           done == Shorten(m, s, w, <<p>>, "Normal")
<1>1. /\ w.segment \in 1 .. Len(s) /\ w.lane \in 1 .. Len(s[w.segment].lanes)
      /\ WaypointLane(s, w) = p.lane /\ w.at = p.offset /\ IsRoad(s) /\ s # << >>
  <2>1. IsRoad(s)
    BY DEF Tied, Linked
  <2>2. w.segment \in 1 .. Len(s) /\ w.lane \in 1 .. Len(s[w.segment].lanes)
        /\ LaneOf(LaneSegment(s, w)) = p.lane /\ w.at = p.offset
    BY <2>1, FoundPlaceHoldsThePoint
  <2> QED
    BY <2>1, <2>2, RowsOfRoad DEF WaypointLane
<1>2. ASSUME NEW j \in 1 .. Len(s[w.segment].lanes)
      PROVE  s[w.segment].lanes[j].interval \in IntervalsOf(<<s[w.segment]>>)
  <2> DEFINE x == s[w.segment]
             only == <<x>>
  <2>1. DOMAIN x.lanes = 1 .. Len(x.lanes)
    BY <1>1, RowsOfRoad, RowBasics
  <2>2. 1 \in DOMAIN only /\ only[1] = x
    OBVIOUS
  <2> HIDE DEF only, x
  <2>3. x.lanes[j] \in ToSet(only[1].lanes)
    BY <2>1, <2>2 DEF ToSet, x
  <2>4. x.lanes[j].interval \in IntervalsOf(only)
    BY <2>2, <2>3 DEF IntervalsOf
  <2> QED
    BY <2>4 DEF only, x
<1>3. /\ IsRoad(cut) /\ Len(cut) > 0 /\ ~ IsDegenerated(FrontInterval(cut[1]))
      /\ w.lane \in 1 .. Len(cut[1].lanes)
      /\ LaneOf(cut[1].lanes[w.lane]) = p.lane
      /\ cut[1].lanes[w.lane].interval.start = p.offset
  <2>1. IsWithinInterval(m, LaneSegment(s, w).interval, w.at)
    BY <1>1
  <2>2. ASSUME NEW j \in 1 .. Len(s[w.segment].lanes)
        PROVE  LET v == s[w.segment].lanes[j].interval
               IN  ~ IsDegenerated(v) /\ w.at # v.end /\ ~ IsAfterInterval(m, v, w.at)
    <3> DEFINE v == s[w.segment].lanes[j].interval
    <3>1. v \in IntervalsOf(<<s[w.segment]>>)
      BY <1>2
    <3> HIDE DEF v
    <3>2. ~ IsDegenerated(v) /\ p.offset # v.end /\ ~ IsAfterInterval(m, v, p.offset)
      BY <3>1
    <3>3. w.at = p.offset
      BY <1>1
    <3>4. ~ IsDegenerated(v) /\ w.at # v.end /\ ~ IsAfterInterval(m, v, w.at)
      BY <3>2, <3>3
    <3> QED
      BY <3>4, Zenon DEF v
  <2>3. /\ IsRoad(cut) /\ Len(cut) > 0 /\ ~ IsDegenerated(FrontInterval(cut[1]))
        /\ w.lane \in 1 .. Len(cut[1].lanes)
        /\ LaneOf(cut[1].lanes[w.lane]) = WaypointLane(s, w)
        /\ cut[1].lanes[w.lane].interval.start = w.at
    <3>1. w.segment \in 1 .. Len(s) /\ w.lane \in 1 .. Len(s[w.segment].lanes)
      BY <1>1
    <3> QED
      BY <2>1, <2>2, <3>1, CutBeginsAtWaypoint, Zenon
  <2> HIDE DEF cut
  <2> QED
    BY <1>1, <2>3
<1> HIDE DEF cut
<1>4. asked.lane = p.lane
  BY <1>1
<1> HIDE DEF asked
<1>5. /\ Len(kept) > 0 /\ kept[1].lanes[w.lane] = cut[1].lanes[w.lane]
      /\ w.lane \in 1 .. Len(kept[1].lanes)
  BY <1>3, <1>4, AlignedStartKeepsOwnLane
<1>6. IsRoad(kept)
  BY <1>3, AlignedRoad, SameRoadIsLinked
<1> HIDE DEF kept
<1>7. kept # << >>
  BY <1>5, <1>6, RowsOfRoad
<1>8. done.segments = ClearPredecessors(kept)
  <2>1. done = ShortenAtWaypoint(m, s, w, "Normal")
    BY <1>1, Zenon DEF Shorten
  <2>2. ~ KeepsIntersections("Normal")
    BY DEF KeepsIntersections
  <2>3. ShortenAtWaypoint(m, s, w, "Normal")
          = [segments |-> ClearPredecessors(kept), result |-> "Succeeded"]
    BY <1>3, <1>7, <2>2, Zenon DEF ShortenAtWaypoint, kept, asked, cut
  <2> QED
    BY <2>1, <2>3
<1> DEFINE row == kept[1].lanes
           new == [j \in DOMAIN row |-> [row[j] EXCEPT !.preds = {}]]
<1>9. /\ DOMAIN row = 1 .. Len(row) /\ \A j \in 1 .. Len(row) : IsLane(row[j])
      /\ 1 \in 1 .. Len(kept) /\ DOMAIN kept = 1 .. Len(kept)
  BY <1>5, <1>6, RowsOfRoad, RowBasics DEF IsRow
<1>10. ClearPredecessors(kept) = [kept EXCEPT ![1].lanes = new]
  BY <1>9, LanesOfRow DEF ClearPredecessors
<1>11. new[w.lane].interval = cut[1].lanes[w.lane].interval
  BY <1>5, <1>9 DEF IsLane
<1> HIDE DEF new
<1>12. Len(ClearPredecessors(kept)) = Len(kept) /\ ClearPredecessors(kept)[1].lanes = new
  BY <1>6, <1>9, <1>10, RowReplaced
<1>13. ClearPredecessors(kept) # << >>
  BY <1>5, <1>12
<1> QED
  BY <1>3, <1>8, <1>11, <1>12, <1>13 DEF LaneOf

\* After shortenRoute the lane the vehicle was found on begins where the vehicle
\* is, on every route and for every position within the interval of its lane,
\* while no lane beside it has ended there.
THEOREM ShortenedRoutesBeginAtVehicle ==
  DriveSpec /\ []OpposingLanesAreNew => []ShortenedRouteBeginsAtVehicle
<1>1. DriveInit => DriveInv
  BY DriveInvHoldsFirst
<1>2. DriveInv /\ OpposingLanesAreNew /\ [DriveNext]_allVars => DriveInv'
  BY DriveNextKeepsInv
<1>3. DriveInv => ShortenedRouteBeginsAtVehicle
  <2> SUFFICES ASSUME DriveInv, NEW p, NEW w, w = FindWaypoint(map, route.segments, p),
                      w # NoWaypoint,
                      IsWithinInterval(map, LaneSegment(route.segments, w).interval, p.offset),
                      \A v \in IntervalsOf(<<route.segments[w.segment]>>) :
                        /\ ~ IsDegenerated(v) /\ p.offset # v.end
                        /\ ~ IsAfterInterval(map, v, p.offset)
               PROVE  LET done == Shorten(map, route.segments, w, <<p>>, "Normal")
                          ls == done.segments[1].lanes[w.lane]
                      IN  /\ done.segments # <<>>
                          /\ LaneOf(ls) = p.lane /\ ls.interval.start = p.offset
    BY Zenon DEF ShortenedRouteBeginsAtVehicle
  <2>1. Tied(route.segments)
    BY DEF DriveInv, RouteIsTied, TiedRoute
  <2> QED
    BY <2>1, ShortenedBeginsAtVehicle
<1> QED
  BY <1>1, <1>2, <1>3, PTL DEF DriveSpec

-----------------------------------------------------------------------------
(* The legs of a list of destinations follow each other.                   *)

\* Where the next leg has to start.
NextStart(done, start) == IF Len(done) = 0 THEN start ELSE Last(done[Len(done)].points)

\* LegsGoOn of any legs, to destinations before the n-th.
GoOn(done, n, start, dests) ==
  /\ \A i \in 1 .. Len(done) :
       done[i].points[1] \in StartPoints(
         [start |-> IF i = 1 THEN start ELSE Last(done[i - 1].points)])
  /\ \E visited \in [1 .. Len(done) -> 1 .. n - 1] :
       /\ \A i, j \in 1 .. Len(done) : i < j => visited[i] < visited[j]
       /\ \A i \in 1 .. Len(done) : IsDest([dest |-> dests[visited[i]]], Last(done[i].points))

\* The search at hand is for the next leg.
AsksForNextLeg ==
  /\ leg \in 1 .. Len(request.dests)
  /\ query.start = NextStart(legs, request.start)
  /\ outcome \in {"searching", "notFound"} => query.dest = request.dests[leg]
  /\ outcome = "found" => /\ Last(rawRoute.points) = query.dest
                          /\ IsDest([dest |-> request.dests[leg]], query.dest)

\* That, and that the legs so far follow each other, is the invariant.
LegsInv ==
  /\ IsList(request.dests) /\ leg \in Nat /\ leg >= 1
  /\ request.kind # "candidates" => GoOn(legs, leg, request.start, request.dests)
  /\ request.kind # "candidates" /\ plan = None /\ outcome # "threw" => AsksForNextLeg

\* A destination that was not reached leaves the legs as they are.
LEMMA LegLeftOut ==
  ASSUME NEW done, NEW n \in Nat, NEW start, NEW dests, GoOn(done, n, start, dests)
  PROVE  GoOn(done, n + 1, start, dests)
<1>1. PICK visited \in [1 .. Len(done) -> 1 .. n - 1] :
        /\ \A i, j \in 1 .. Len(done) : i < j => visited[i] < visited[j]
        /\ \A i \in 1 .. Len(done) : IsDest([dest |-> dests[visited[i]]], Last(done[i].points))
  BY DEF GoOn
<1>2. visited \in [1 .. Len(done) -> 1 .. (n + 1) - 1]
  OBVIOUS
<1> QED
  BY <1>1, <1>2 DEF GoOn

\* One that was reached adds a leg that starts where the last one ended.
LEMMA LegGoesOn ==
  ASSUME NEW done, IsList(done), NEW n \in Nat, n >= 1, NEW start, NEW dests, NEW raw,
         GoOn(done, n, start, dests),
         raw.points[1] \in StartPoints([start |-> NextStart(done, start)]),
         IsDest([dest |-> dests[n]], Last(raw.points))
  PROVE  GoOn(Append(done, raw), n + 1, start, dests)
<1> DEFINE x == Append(done, raw)
           N == Len(done)
<1>1. /\ N \in Nat /\ Len(x) = N + 1
      /\ \A i \in 1 .. N : x[i] = done[i]
      /\ x[N + 1] = raw
  BY ListAppended, ListProperties
<1>2. PICK visited \in [1 .. N -> 1 .. n - 1] :
        /\ \A i, j \in 1 .. N : i < j => visited[i] < visited[j]
        /\ \A i \in 1 .. N : IsDest([dest |-> dests[visited[i]]], Last(done[i].points))
  BY DEF GoOn
<1>3. \A i \in 1 .. N :
        done[i].points[1] \in StartPoints(
          [start |-> IF i = 1 THEN start ELSE Last(done[i - 1].points)])
  BY DEF GoOn
<1>4. raw.points[1] \in StartPoints(
        [start |-> IF N + 1 = 1 THEN start ELSE Last(done[N].points)])
  <2>1. NextStart(done, start) = IF N + 1 = 1 THEN start ELSE Last(done[N].points)
    <3>1. N + 1 = 1 <=> N = 0
      BY <1>1
    <3> QED
      BY <3>1 DEF NextStart
  <2> QED
    BY <2>1
<1> HIDE DEF x, N
<1>5. ASSUME NEW i \in 1 .. Len(x)
      PROVE  x[i].points[1] \in StartPoints(
               [start |-> IF i = 1 THEN start ELSE Last(x[i - 1].points)])
  <2>1. CASE i \in 1 .. N
    <3>1. i # 1 => i - 1 \in 1 .. N
      BY <1>1, <2>1
    <3>2. i # 1 => x[i - 1] = done[i - 1]
      BY <1>1, <3>1
    <3>3. x[i] = done[i]
      BY <1>1, <2>1
    <3> QED
      BY <1>3, <2>1, <3>2, <3>3
  <2>2. CASE i = N + 1
    <3>1. i # 1 => i - 1 = N /\ N \in 1 .. N
      BY <1>1, <2>2
    <3>2. i # 1 => x[i - 1] = done[N]
      BY <1>1, <3>1
    <3> QED
      BY <1>1, <1>4, <2>2, <3>2
  <2> QED
    BY <1>1, <2>1, <2>2
<1> DEFINE more == [i \in 1 .. N + 1 |-> IF i = N + 1 THEN n ELSE visited[i]]
<1>6. more \in [1 .. Len(x) -> 1 .. (n + 1) - 1]
  <2>1. ASSUME NEW i \in 1 .. N + 1
        PROVE  (IF i = N + 1 THEN n ELSE visited[i]) \in 1 .. (n + 1) - 1
    <3>1. CASE i = N + 1
      BY <3>1
    <3>2. CASE i \in 1 .. N
      <4>1. visited[i] \in 1 .. n - 1 /\ i # N + 1
        BY <1>1, <3>2
      <4> QED
        BY <4>1
    <3> QED
      BY <1>1, <3>1, <3>2
  <2> QED
    BY <1>1, <2>1
<1>7. /\ \A i \in 1 .. N : more[i] = visited[i] /\ visited[i] \in 1 .. n - 1
      /\ more[N + 1] = n
      /\ \A i \in 1 .. Len(x) : i \in 1 .. N \/ i = N + 1
  BY <1>1
<1> HIDE DEF more
<1>8. ASSUME NEW i \in 1 .. Len(x), NEW j \in 1 .. Len(x), i < j
      PROVE  more[i] < more[j]
  <2>1. i \in 1 .. N
    BY <1>1, <1>8
  <2>2. CASE j \in 1 .. N
    BY <1>2, <1>7, <1>8, <2>1, <2>2
  <2>3. CASE j = N + 1
    BY <1>7, <2>1, <2>3
  <2> QED
    BY <1>7, <2>2, <2>3
<1>9. ASSUME NEW i \in 1 .. Len(x)
      PROVE  IsDest([dest |-> dests[more[i]]], Last(x[i].points))
  <2>1. CASE i \in 1 .. N
    BY <1>1, <1>2, <1>7, <2>1
  <2>2. CASE i = N + 1
    BY <1>1, <1>7, <2>2
  <2> QED
    BY <1>7, <2>1, <2>2
<1> QED
  BY <1>5, <1>6, <1>8, <1>9 DEF GoOn, x

\* A tied route is not the plan that was not made yet.
LEMMA TiedIsAPlan ==
  ASSUME NEW r, TiedRoute(r)
  PROVE  r # None
<1>1. "segments" \in DOMAIN r /\ "segments" \notin DOMAIN None
  BY DEF TiedRoute, None
<1> QED
  BY <1>1

\* Before the first leg.
LEMMA PlanningStartsLegs == Init => LegsInv
<1> SUFFICES ASSUME Init PROVE LegsInv
  OBVIOUS
<1>1. PICK m \in Maps : \E a \in Requests(m) :
        /\ SearchInit(m, QueryOf(Resolved(m, a), Resolved(m, a).start, 1))
        /\ request = Resolved(m, a)
        /\ plan = IF Resolved(m, a).dests = << >> THEN EmptyRoute("Undefined") ELSE None
  BY DEF Init
<1>2. PICK a \in Requests(m) :
        /\ query = QueryOf(request, request.start, 1) /\ outcome = "searching"
        /\ request = Resolved(m, a)
        /\ plan = IF request.dests = << >> THEN EmptyRoute("Undefined") ELSE None
  BY <1>1 DEF SearchInit
<1>3. request.dests \in Seq(RoutingPoints(m))
  BY <1>2, RequestAssumption
<1>4. IsList(request.dests)
  BY <1>3, SequencesAreLists
<1>5. leg = 1 /\ legs = << >> /\ Len(<< >>) = 0
  BY DEF Init
<1>6. GoOn(legs, leg, request.start, request.dests)
  <2> DEFINE none == [i \in {} |-> i]
  <2>1. 1 .. Len(legs) = {}
    BY <1>5
  <2>2. none \in [1 .. Len(legs) -> 1 .. leg - 1]
    BY <2>1
  <2> QED
    BY <2>1, <2>2 DEF GoOn
<1>7. plan = None => AsksForNextLeg
  <2> SUFFICES ASSUME plan = None PROVE AsksForNextLeg
    OBVIOUS
  <2>1. EmptyRoute("Undefined") # None
    BY EmptyRouteIsTied, TiedIsAPlan
  <2>2. 1 \in 1 .. Len(request.dests) /\ 1 \in DOMAIN request.dests
    BY <1>2, <1>4, <2>1, ListProperties
  <2>3. query.start = request.start /\ query.dest = request.dests[1]
    BY <1>2, <2>2 DEF QueryOf
  <2> QED
    BY <1>2, <1>5, <2>2, <2>3 DEF AsksForNextLeg, NextStart
<1> QED
  BY <1>4, <1>5, <1>6, <1>7 DEF LegsInv

\* A search ends at the destination it was asked for.
LEMMA SearchingKeepsLegs ==
  ASSUME LegsInv, PlanningInv, WaysInv, Search
  PROVE  LegsInv'
<1>1. SearchNext /\ UNCHANGED <<request, leg, legs, plan>> /\ plan = None
  BY DEF Search, planVars
<1>2. /\ IsList(request'.dests) /\ leg' \in Nat /\ leg' >= 1
      /\ request'.kind # "candidates" => GoOn(legs', leg', request'.start, request'.dests)
  BY <1>1 DEF LegsInv
<1> SUFFICES ASSUME request.kind # "candidates", outcome' # "threw"
             PROVE  AsksForNextLeg'
  BY <1>1, <1>2 DEF LegsInv
<1>3. outcome = "searching"
  BY <1>1 DEF SearchNext, Expand, Reach, Throw, GiveUp
<1>4. AsksForNextLeg
  BY <1>1, <1>3 DEF LegsInv
<1>5. ASSUME NEW p \in DOMAIN open, Expand(p) PROVE AsksForNextLeg'
  <2>1. UNCHANGED <<query, outcome, request, leg, legs>>
    BY <1>1, <1>5 DEF Expand
  <2> QED
    BY <1>3, <1>4, <2>1 DEF AsksForNextLeg
<1>6. ASSUME GiveUp PROVE AsksForNextLeg'
  <2>1. UNCHANGED <<query, request, leg, legs>> /\ outcome' = "notFound"
    BY <1>1, <1>6 DEF GiveUp
  <2> QED
    BY <1>3, <1>4, <2>1 DEF AsksForNextLeg
<1>7. ASSUME NEW p \in DOMAIN open, Reach(p) PROVE AsksForNextLeg'
  <2>1. /\ query' = [query EXCEPT !.dest = p] /\ IsDest(query, p)
        /\ rawRoute'.points = WayTo(cameFrom, p) /\ outcome' = "found"
        /\ UNCHANGED <<request, leg, legs>>
    BY <1>1, <1>7 DEF Reach
  <2>2. {"start", "dest", "ignoreDirection", "relevant"} \subseteq DOMAIN query
    BY DEF PlanningInv, TypeOK
  <2>3. query'.dest = p /\ query'.start = query.start
    BY <2>1, <2>2
  <2>4. PICK g : PricedBy(g)
    BY <1>3 DEF WaysInv
  <2>5. CostsAlong(g, p, WayTo(cameFrom, p))
    BY <1>3, <2>1, <2>4, ReachedWay
  <2>6. Last(rawRoute'.points) = p
    BY <2>1, <2>5 DEF CostsAlong, Last
  <2>7. IsDest([dest |-> request.dests[leg]], p)
    BY <1>3, <1>4, <2>1 DEF AsksForNextLeg, IsDest
  <2> QED
    BY <1>4, <2>1, <2>3, <2>6, <2>7 DEF AsksForNextLeg
<1> QED
  BY <1>1, <1>5, <1>6, <1>7 DEF SearchNext, Throw

\* The next search is asked for from where the last leg ended.
LEMMA NextDestinationKeepsLegs ==
  ASSUME LegsInv, RawRouteIsOneWay, SearchIsSound, PlansAreTied, NextDestination
  PROVE  LegsInv'
<1>1. /\ plan = None /\ request.kind # "candidates" /\ outcome \in {"found", "notFound"}
      /\ legs' = IF outcome = "found" THEN Append(legs, rawRoute) ELSE legs
      /\ leg' = leg + 1 /\ request' = request
  BY DEF NextDestination
<1>2. /\ IsList(request.dests) /\ leg \in Nat /\ leg >= 1
      /\ GoOn(legs, leg, request.start, request.dests)
      /\ AsksForNextLeg
  BY <1>1 DEF LegsInv
<1>3. AreLegs(legs) /\ IsList(legs)
  BY DEF PlansAreTied, AreLegs
<1>4. GoOn(legs', leg', request'.start, request'.dests)
  <2>1. CASE outcome = "found"
    <3>1. rawRoute.points[1] \in StartPoints(query)
      BY <1>1, <2>1 DEF RawRouteIsOneWay, Searched
    <3>2. rawRoute.points[1] \in StartPoints([start |-> NextStart(legs, request.start)])
      BY <1>2, <3>1 DEF AsksForNextLeg, StartPoints
    <3>3. IsDest([dest |-> request.dests[leg]], Last(rawRoute.points))
      BY <1>2, <2>1 DEF AsksForNextLeg
    <3> QED
      BY <1>1, <1>2, <1>3, <2>1, <3>2, <3>3, LegGoesOn
  <2>2. CASE outcome = "notFound"
    BY <1>1, <1>2, <2>2, LegLeftOut
  <2> QED
    BY <1>1, <2>1, <2>2
<1>5. plan' = None => AsksForNextLeg'
  <2>1. CASE leg < Len(request.dests)
    <3>1. query' = QueryOf(request, StartOfNextLeg, leg + 1) /\ outcome' = "searching"
      BY <2>1 DEF NextDestination, NewSearch
    <3>2. leg + 1 \in 1 .. Len(request.dests) /\ leg + 1 \in DOMAIN request.dests
      BY <1>2, <2>1, ListProperties
    <3>3. query'.start = StartOfNextLeg /\ query'.dest = request.dests[leg + 1]
      BY <3>1, <3>2 DEF QueryOf
    <3>4. StartOfNextLeg = NextStart(legs', request.start)
      <4>1. CASE outcome = "found"
        <5>1. /\ Len(legs') = Len(legs) + 1 /\ legs'[Len(legs) + 1] = rawRoute
              /\ Len(legs) \in Nat
          BY <1>1, <1>3, <4>1, ListAppended, ListProperties
        <5>2. NextStart(legs', request.start) = Last(rawRoute.points)
          BY <5>1 DEF NextStart
        <5> QED
          BY <1>2, <4>1, <5>2 DEF StartOfNextLeg, AsksForNextLeg
      <4>2. CASE outcome = "notFound"
        BY <1>1, <1>2, <4>2 DEF StartOfNextLeg, AsksForNextLeg
      <4> QED
        BY <1>1, <4>1, <4>2
    <3> QED
      BY <1>1, <3>1, <3>2, <3>3, <3>4 DEF AsksForNextLeg
  <2>2. CASE ~ (leg < Len(request.dests))
    <3>1. plan' = PlannedRoute(map, request, MergedPoints(legs'))
      BY <2>2 DEF NextDestination, Stop
    <3>2. AreLegs(legs')
      BY <1>1, <1>3, LegAppended DEF SearchIsSound
    <3>3. TiedRoute(plan')
      BY <3>1, <3>2, MergedPointsAreAList, PlannedRoutesAreTied
    <3> QED
      BY <3>3, TiedIsAPlan
  <2> QED
    BY <2>1, <2>2
<1> QED
  BY <1>1, <1>2, <1>4, <1>5 DEF LegsInv

\* All steps of planRoute.
LEMMA NextKeepsLegs ==
  ASSUME LegsInv, PlanningInv, WaysInv, RawRouteIsOneWay, SearchIsSound, PlansAreTied,
         [Next]_vars
  PROVE  LegsInv'
<1>1. CASE Search
  BY <1>1, SearchingKeepsLegs
<1>2. CASE NextDestination
  BY <1>2, NextDestinationKeepsLegs
<1>3. CASE NextCandidate
  <2>1. request.kind = "candidates" /\ request' = request /\ leg' = leg + 1
    BY <1>3 DEF NextCandidate
  <2> QED
    BY <2>1 DEF LegsInv
<1>4. CASE BreakOff
  <2>1. outcome' = "threw" /\ UNCHANGED <<request, leg, legs>>
    BY <1>4 DEF BreakOff, planVars
  <2> QED
    BY <2>1 DEF LegsInv
<1>5. CASE UNCHANGED vars
  <2>1. UNCHANGED <<request, leg, legs, plan, outcome, query, rawRoute>>
    BY <1>5 DEF vars, planVars, searchVars
  <2> QED
    BY <2>1 DEF LegsInv, AsksForNextLeg
<1> QED
  BY <1>1, <1>2, <1>3, <1>4, <1>5 DEF Next, Return

\* For every map and request: the points of a route that was found are steps
\* from a start to the destination, and its distance is what they cost; and of a
\* list of destinations each leg starts where the one before it ended, to a
\* later destination, whichever ones were left out between.
THEOREM FoundRouteIsOneWay == Spec => []RouteIsOneWay
<1>1. Init => LegsInv /\ SearchIsSound /\ PlansAreTied
  BY PlanningStartsLegs, PlanningStartsTied
<1>2. /\ LegsInv /\ SearchIsSound /\ PlansAreTied
      /\ PlanningInv /\ WaysInv /\ RawRouteIsOneWay /\ [Next]_vars
      => (LegsInv /\ SearchIsSound /\ PlansAreTied)'
  <2>1. CASE UNCHANGED vars
    BY <2>1, NextKeepsLegs DEF vars, planVars, searchVars, SearchIsSound, PlansAreTied
  <2> QED
    BY <2>1, NextKeepsLegs, PlanningKeepsTied
<1>3. LegsInv /\ RawRouteIsOneWay => RouteIsOneWay
  <2>1. LegsInv => LegsGoOn
    BY DEF LegsInv, GoOn, LegsGoOn
  <2> QED
    BY <2>1 DEF RouteIsOneWay
<1> QED
  BY <1>1, <1>2, <1>3, InvHolds, WaysHold, PTL DEF Spec
=============================================================================
