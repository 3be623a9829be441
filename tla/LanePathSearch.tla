--------------------------- MODULE LanePathSearch ---------------------------
(***************************************************************************)
(* find_lane_path of scripts/admap_route.py: uniform-cost search over lane *)
(* keys <<lane, has_left_start>> with a binary heap from which outdated    *)
(* entries are not removed but skipped when they surface.                  *)
(*                                                                         *)
(* One step is one iteration of the while loop up to the for loop          *)
(* (PopStale, PopGoal, PopExpand, Exhausted), or one iteration of the for  *)
(* loop over the contact lanes of the popped lane (SkipContact, Relax).    *)
(***************************************************************************)
EXTENDS LaneMap, FiniteSets

CONSTANTS Maps,          \* the maps a query may be asked about
          Queries(_),    \* the queries asked about a map
          Penalty,       \* lane_change_penalty_m
          Inf            \* float('inf'): the cost of a key never reached

ASSUME SearchAssumption ==
  /\ \A m \in Maps : IsLaneMap(m) /\ IsFiniteSet(m.lanes)
  /\ \A m \in Maps : \A q \in Queries(m) :
       /\ q.start \in m.lanes
       /\ q.goal \in m.lanes
       /\ q.startOffset \in Offsets
       /\ q.goalOffset \in Offsets
  /\ Penalty \in Nat
  /\ Inf \notin Nat

VARIABLES map,        \* the loaded map
          query,      \* start and goal lane, with their offsets
          pc,         \* "pop", "relax", or how the call returned
          frontier,   \* the heap: a set of entries
          bestCosts,  \* best_costs, Inf for a key that is not in the dict
          current,    \* the entry popped last
          contact     \* the next contact lane of current to look at

vars == <<map, query, pc, frontier, bestCosts, current, contact>>

Keys == map.lanes \X BOOLEAN

Entries == [cost  : Nat,
            lane  : map.lanes,
            path  : Seq(map.lanes),
            types : Seq({"forward", "lane_change"}),
            hasLeftStart : BOOLEAN]

Key(e) == <<e.lane, e.hasLeftStart>>

\* Start and goal on one lane with the goal ahead: no move is needed.
DirectFinishAllowed ==
  /\ query.start = query.goal
  /\ OffsetsMoveForward(map, query.start, query.startOffset, query.goalOffset)

\* Mutant: the start lane counts as reached before it was left.
IsGoalAtOnce(e) == e.lane = query.goal

IsGoal(e) == e.lane = query.goal /\ (e.hasLeftStart \/ DirectFinishAllowed)

StartEntry(q) == [cost |-> 0, lane |-> q.start, path |-> <<q.start>>,
                  types |-> << >>, hasLeftStart |-> FALSE]

-----------------------------------------------------------------------------
Init ==
  /\ map \in Maps
  /\ query \in Queries(map)
  /\ pc = "pop"
  /\ frontier = {StartEntry(query)}
  /\ bestCosts = [k \in Keys |-> IF k = <<query.start, FALSE>> THEN 0 ELSE Inf]
  /\ current = StartEntry(query)
  /\ contact = 1

\* Mutant: the heap ordered by lane id alone.
IsNextByLane(e) == e \in frontier /\ \A f \in frontier : e.lane <= f.lane

\* The heap orders entries by cost, then by lane id; two entries that agree
\* on both never wait together.
IsNext(e) ==
  /\ e \in frontier
  /\ \A f \in frontier : e.cost < f.cost \/ (e.cost = f.cost /\ e.lane <= f.lane)

PopStale ==
  /\ pc = "pop"
  /\ \E e \in frontier :
       /\ IsNext(e)
       /\ e.cost # bestCosts[Key(e)]
       /\ frontier' = frontier \ {e}
  /\ UNCHANGED <<map, query, pc, bestCosts, current, contact>>

PopGoal ==
  /\ pc = "pop"
  /\ \E e \in frontier :
       /\ IsNext(e)
       /\ e.cost = bestCosts[Key(e)]
       /\ IsGoal(e)
       /\ frontier' = frontier \ {e}
       /\ current' = e
  /\ pc' = "found"
  /\ UNCHANGED <<map, query, bestCosts, contact>>

PopExpand ==
  /\ pc = "pop"
  /\ \E e \in frontier :
       /\ IsNext(e)
       /\ e.cost = bestCosts[Key(e)]
       /\ ~ IsGoal(e)
       /\ frontier' = frontier \ {e}
       /\ current' = e
  /\ contact' = 1
  /\ pc' = "relax"
  /\ UNCHANGED <<map, query, bestCosts>>

Exhausted ==
  /\ pc = "pop"
  /\ frontier = {}
  /\ pc' = "none"
  /\ UNCHANGED <<map, query, frontier, bestCosts, current, contact>>

-----------------------------------------------------------------------------
Contacts == map.contacts[current.lane]

Reached(k) == bestCosts[k] # Inf

Improves(k, cost) == Reached(k) => cost < bestCosts[k]

\* Mutant: the path that came before is not kept in the new entry's cost.
SuccessorOfDict(c) ==
  [cost  |-> bestCosts[<<query.start, FALSE>>]
               + TransitionCost(map, current.lane, c, Penalty),
   lane  |-> c.to,
   path  |-> Append(current.path, c.to),
   types |-> Append(current.types, TransitionType(map, current.lane, c)),
   hasLeftStart |-> TRUE]

\* The entry the current contact lane leads to.
Successor(c) ==
  [cost  |-> current.cost + TransitionCost(map, current.lane, c, Penalty),
   lane  |-> c.to,
   path  |-> Append(current.path, c.to),
   types |-> Append(current.types, TransitionType(map, current.lane, c)),
   hasLeftStart |-> TRUE]

SkipContact ==
  /\ pc = "relax"
  /\ contact <= Len(Contacts)
  /\ LET c == Contacts[contact] IN
       IsTransition(map, current.lane, c) =>
         ~ Improves(<<c.to, TRUE>>, Successor(c).cost)
  /\ contact' = contact + 1
  /\ UNCHANGED <<map, query, pc, frontier, bestCosts, current>>

Relax ==
  /\ pc = "relax"
  /\ contact <= Len(Contacts)
  /\ LET c == Contacts[contact]
         e == Successor(c)
     IN  /\ IsTransition(map, current.lane, c)
         /\ Improves(Key(e), e.cost)
         /\ bestCosts' = [bestCosts EXCEPT ![Key(e)] = e.cost]
         /\ frontier' = frontier \cup {e}
  /\ contact' = contact + 1
  /\ UNCHANGED <<map, query, pc, current>>

EndExpand ==
  /\ pc = "relax"
  /\ contact > Len(Contacts)
  /\ pc' = "pop"
  /\ UNCHANGED <<map, query, frontier, bestCosts, current, contact>>

Next == \/ PopStale \/ PopGoal \/ PopExpand \/ Exhausted
        \/ SkipContact \/ Relax \/ EndExpand

\* The search is one sequential call: it keeps running until it returns.
Spec == Init /\ [][Next]_vars /\ WF_vars(Next)

-----------------------------------------------------------------------------
(* What the search keeps.                                                  *)

\* The costs and the entries stay in their domains, the contact cursor stays
\* within the contact lanes of the lane being expanded.
TypeOK ==
  /\ map \in Maps
  /\ query \in Queries(map)
  /\ pc \in {"pop", "relax", "found", "none"}
  /\ frontier \subseteq Entries
  /\ bestCosts \in [Keys -> Nat \cup {Inf}]
  /\ current \in Entries
  /\ contact \in Nat \ {0}
  /\ pc = "relax" => contact <= Len(Contacts) + 1

\* A key whose best cost no waiting entry carries has been popped: dict and
\* heap are kept apart, so this is the only record of what was expanded.
Waiting(k) == \E e \in frontier : Key(e) = k /\ e.cost = bestCosts[k]
Settled(k) == Reached(k) /\ ~ Waiting(k)

\* The key of the i-th lane of a path, and its cost on the way to e.
PathKey(e, i) == <<e.path[i], i > 1>>
CostAt(e, i) == IF i = Len(e.path) THEN e.cost ELSE bestCosts[PathKey(e, i)]

\* Entry e describes a drivable lane path from the start lane to its own
\* lane, and its cost is what driving that path costs.
DescribesPath(e) ==
  /\ Len(e.path) >= 1
  /\ Len(e.types) = Len(e.path) - 1
  /\ e.path[1] = query.start
  /\ e.path[Len(e.path)] = e.lane
  /\ e.hasLeftStart = (Len(e.path) > 1)
  /\ CostAt(e, 1) = 0
  /\ \A i \in 1 .. Len(e.path) - 1 :
       \E j \in 1 .. Len(map.contacts[e.path[i]]) :
          LET c == map.contacts[e.path[i]][j] IN
          /\ c.to = e.path[i + 1]
          /\ IsTransition(map, e.path[i], c)
          /\ TransitionType(map, e.path[i], c) = e.types[i]
          /\ Settled(PathKey(e, i))
          /\ CostAt(e, i + 1) =
               CostAt(e, i) + TransitionCost(map, e.path[i], c, Penalty)

\* Every path that waits in the heap or was popped from it is drivable as
\* get_allowed_lane_transitions defines it, starts at the start lane, and
\* still costs, after all later improvements, what its entry says.
PathsAreLegal == \A e \in frontier \cup {current} : DescribesPath(e)

\* Once a key is popped no later step finds a cheaper way to it: skipping
\* outdated heap entries never skips a path the search needed.
SettledCostsAreFinal ==
  [][\A k \in Keys : Settled(k) => bestCosts'[k] = bestCosts[k]]_vars

\* (None, None) is returned only when the lanes that were reached are closed
\* under the legal transitions and the goal can be finished on none of them.
NoPathIsJustified ==
  pc = "none" =>
    /\ ~ DirectFinishAllowed
    /\ ~ Reached(<<query.goal, TRUE>>)
    /\ Reached(<<query.start, FALSE>>)
    /\ \A k \in Keys : Reached(k) =>
         \A i \in 1 .. Len(map.contacts[k[1]]) :
            LET c == map.contacts[k[1]][i] IN
            IsTransition(map, k[1], c) => Reached(<<c.to, TRUE>>)

\* The cost of a key, capped by the cost of the path that was returned.
Potential(k) ==
  IF Reached(k) /\ bestCosts[k] < current.cost
  THEN bestCosts[k] ELSE current.cost

\* When a path is returned, the capped costs certify that none is cheaper:
\* they start at 0, no legal transition raises them by more than it costs,
\* and at the goal they equal the cost of the returned path.
CostIsCertified ==
  pc = "found" =>
    /\ IsGoal(current)
    /\ Potential(<<query.start, FALSE>>) = 0
    /\ Potential(<<query.goal, TRUE>>) = current.cost
    /\ \A k \in Keys : \A i \in 1 .. Len(map.contacts[k[1]]) :
         LET c == map.contacts[k[1]][i] IN
         IsTransition(map, k[1], c) =>
           Potential(<<c.to, TRUE>>) <=
             Potential(k) + TransitionCost(map, k[1], c, Penalty)

-----------------------------------------------------------------------------
(* The search implements the query of LanePath.                            *)

LP == INSTANCE LanePath WITH
  answer <- IF pc = "found" THEN [path |-> current.path, types |-> current.types]
            ELSE IF pc = "none" THEN [path |-> << >>, types |-> << >>]
            ELSE [path |-> << >>, types |-> <<"pending">>]

\* find_lane_path returns, and what it returns is a least-cost legal path
\* among all legal paths, or no path when there is no legal path.
ImplementsLanePath == LP!Spec
=============================================================================
