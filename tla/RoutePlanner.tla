---------------------------- MODULE RoutePlanner ----------------------------
(***************************************************************************)
(* find_shortest_route of scripts/admap_route.py: matches start and goal   *)
(* to candidate lanes, plans a route for every pair of candidates, and     *)
(* keeps the one with the best score.                                      *)
(*                                                                         *)
(* find_lane_path is one step here: it answers with one of the cheapest    *)
(* legal paths (LanePathSearch implements that).  build_custom_route runs  *)
(* step by step, as RouteBuilder models it.                                *)
(*                                                                         *)
(* Positions are abstracted to what scores compare: the distance between a *)
(* point and a lane centre belongs to the match, and the way from lane to  *)
(* lane is the lane width plus the way along the lane.                     *)
(***************************************************************************)
EXTENDS LegalLanePaths, Integers, Functions

CONSTANTS Maps,             \* the maps a route may be planned on
          Requests(_),      \* the matches of start and goal point on a map
          ChangeDistance,   \* lane_change_distance_m
          LaneWidth         \* the distance between neighbour lane centres

Matches(m) == [lane : m.lanes, offset : Offsets, snap : Nat, inLane : BOOLEAN,
               probability : Nat]

ASSUME PlannerAssumption ==
  /\ \A m \in Maps : IsLaneMap(m) /\ IsFiniteSet(m.lanes)
  /\ \A m \in Maps : \A r \in Requests(m) :
       r.starts \in Seq(Matches(m)) /\ r.goals \in Seq(Matches(m))
  /\ ChangeDistance \in Nat \ {0}
  /\ LaneWidth \in Nat

VARIABLES map,            \* the loaded map
          request,        \* what the matcher finds near start and goal point
          starts, goals,  \* start_candidates and goal_candidates
          pair,           \* the loop positions in starts and goals
          pc,             \* where the call is, or how it ended
          best,           \* best_route and best_score, or None
          outcomes,       \* history: what came of each pair that was tried
          task, index, currentOffset, steps, result   \* of the builder

loopVars == <<request, starts, goals, pair, pc, best, outcomes>>
buildVars == <<task, index, currentOffset, steps, result>>
vars == <<map, loopVars, buildVars>>

Builder == INSTANCE RouteBuilder WITH Tasks <- LAMBDA m : {}

\* What came of a pair: how it ended, and the score if a route was built.
Outcome(how, score) == [how |-> how, score |-> score]

None == [pair |-> <<0, 0>>, score |-> << >>]

-----------------------------------------------------------------------------
(* Candidates and scores.                                                  *)

\* Lexicographic order of equally long sequences of numbers, as of tuples.
Before(a, b) ==
  \E i \in 1 .. Len(a) :
     /\ a[i] < b[i]
     /\ \A j \in 1 .. i - 1 : a[j] = b[j]

Flag(b) == IF b THEN 1 ELSE 0

\* Mutant: the probability comes before the distance to the lane centre.
KeyByProbability(c) == << 0 - c.probability, c.snap, Flag(~ c.inLane), c.lane >>

CandidateKey(c) == << c.snap, Flag(~ c.inLane), 0 - c.probability, c.lane >>

\* The matches on drivable lanes, the nearest lane centre first; those with one
\* key in any order.
Candidates(m, matches) ==
  LET drivable == { i \in DOMAIN matches : Routeable(m, matches[i].lane) }
      places == 1 .. Cardinality(drivable)
  IN { [k \in places |-> matches[order[k]]] :
         order \in { f \in Bijection(places, drivable) :
                       \A k, l \in places :
                          k < l => ~ Before(CandidateKey(matches[f[l]]),
                                            CandidateKey(matches[f[k]])) } }

Distance(a, b) == IF a <= b THEN b - a ELSE a - b

\* In 1 / Scale metres.
StepLength(m, s) ==
  Distance(s.fromOffset, s.toOffset) * m.length[s.toLane]
    + (IF s.type = "lane_change" THEN LaneWidth * Scale ELSE 0)

RouteLength(m, route) ==
  LET sum[i \in 0 .. Len(route)] ==
        IF i = 0 THEN 0 ELSE sum[i-1] + StepLength(m, route[i])
  IN  sum[Len(route)]

Start == starts[pair[1]]
Goal == goals[pair[2]]

Score ==
  << Start.snap + Goal.snap, RouteLength(map, steps), Flag(~ Start.inLane),
     Flag(~ Goal.inLane), 0 - (Start.probability + Goal.probability) >>

-----------------------------------------------------------------------------
Init ==
  /\ map \in Maps
  /\ request \in Requests(map)
  /\ starts \in Candidates(map, request.starts)
  /\ goals \in Candidates(map, request.goals)
  /\ pair = <<1, 1>>
  /\ pc = "candidates"
  /\ best = None
  /\ outcomes = [p \in (1 .. Len(starts)) \X (1 .. Len(goals)) |-> Outcome("untried", << >>)]
  /\ task = None /\ index = 1 /\ currentOffset = 0 /\ steps = << >>
  /\ result = "built"

End(how) ==
  /\ pc' = how
  /\ UNCHANGED <<map, request, starts, goals, pair, best, outcomes, buildVars>>

NoStartLane ==
  /\ pc = "candidates"
  /\ starts = << >>
  /\ End("no start lane")

NoGoalLane ==
  /\ pc = "candidates"
  /\ starts # << >>
  /\ goals = << >>
  /\ End("no goal lane")

EnterLoop ==
  /\ pc = "candidates"
  /\ starts # << >>
  /\ goals # << >>
  /\ End("search")

Query == [start |-> Start.lane, goal |-> Goal.lane,
          startOffset |-> Start.offset, goalOffset |-> Goal.offset]

NextPair(p) ==
  IF p[2] < Len(goals) THEN <<p[1], p[2] + 1>> ELSE <<p[1] + 1, 1>>

\* The outcome of the pair is known, and the loops go on with the next one.
PairDone(outcome) ==
  /\ outcomes' = [outcomes EXCEPT ![pair] = outcome]
  /\ pair' = NextPair(pair)
  /\ pc' = IF NextPair(pair)[1] > Len(starts) THEN "choose" ELSE "search"
  /\ UNCHANGED <<map, request, starts, goals, buildVars>>

PathFound ==
  /\ pc = "search"
  /\ \E p \in CheapestPaths(map, Query) :
       task' = [path |-> p.path, types |-> p.types,
                startOffset |-> Start.offset, goalOffset |-> Goal.offset]
  /\ index' = 1
  /\ currentOffset' = Start.offset
  /\ steps' = << >>
  /\ result' = "building"
  /\ pc' = "build"
  /\ UNCHANGED <<map, request, starts, goals, pair, best, outcomes>>

NoPath ==
  /\ pc = "search"
  /\ CheapestPaths(map, Query) = {}
  /\ PairDone(Outcome("no path", << >>))
  /\ UNCHANGED best

Build ==
  /\ pc = "build"
  /\ Builder!Next
  /\ UNCHANGED loopVars

\* except RuntimeError: continue
BuildFailed ==
  /\ pc = "build"
  /\ result \in {"goal behind", "change behind"}
  /\ PairDone(Outcome(result, << >>))
  /\ UNCHANGED best

\* Mutant: the last route that was built is kept.
AlwaysBetter == TRUE

Better == best = None \/ Before(Score, best.score)

Compare ==
  /\ pc = "build"
  /\ result = "built"
  /\ best' = IF Better THEN [pair |-> pair, score |-> Score] ELSE best
  /\ PairDone(Outcome("built", Score))

Return ==
  /\ pc = "choose"
  /\ best # None
  /\ End("returned")

NoRoute ==
  /\ pc = "choose"
  /\ best = None
  /\ End("no route")

Next ==
  \/ NoStartLane
  \/ NoGoalLane
  \/ EnterLoop
  \/ PathFound
  \/ NoPath
  \/ Build
  \/ BuildFailed
  \/ Compare
  \/ Return
  \/ NoRoute

Spec == Init /\ [][Next]_vars

-----------------------------------------------------------------------------
(* What the planner keeps.                                                 *)

Built(p) == outcomes[p].how = "built"

\* The route that is returned has the best score of all that were built, and
\* the planner gives up only when no pair of candidates led to a route: a
\* pair that fails never hides one that does not.
BestOfAllPairs ==
  pc \in {"returned", "no route"} =>
    /\ \A p \in DOMAIN outcomes : outcomes[p].how # "untried"
    /\ pc = "returned" =>
         /\ outcomes[best.pair] = Outcome("built", best.score)
         /\ \A p \in DOMAIN outcomes :
              Built(p) => ~ Before(outcomes[p].score, best.score)
    /\ pc = "no route" => \A p \in DOMAIN outcomes : ~ Built(p)

\* The snap points handed back are those of the first candidates.  They lie
\* on the lanes of the returned route if the first pair led to a route, and
\* no other pair is as near.
SnapPointsOnRoute ==
  /\ pc = "returned"
  /\ Built(<<1, 1>>)
  /\ \A p \in DOMAIN outcomes \ {<<1, 1>>} :
       \/ starts[p[1]].snap # starts[1].snap
       \/ goals[p[2]].snap # goals[1].snap
  => best.pair = <<1, 1>>
=============================================================================
