--------------------------- MODULE LegalLanePaths ---------------------------
(***************************************************************************)
(* The legal lane paths of a query, built one legal move at a time: the    *)
(* reference the search of find_lane_path is held against.                 *)
(***************************************************************************)
EXTENDS LaneMap, FiniteSets

CONSTANT Penalty        \* lane_change_penalty_m

\* Start and goal on one lane with the goal ahead: no move is needed.
DirectFinishAllowed(m, q) ==
  /\ q.start = q.goal
  /\ OffsetsMoveForward(m, q.start, q.startOffset, q.goalOffset)

Steps(m, l) ==
  { <<c.to, TransitionType(m, l, c), TransitionCost(m, l, c, Penalty)>> :
      c \in { m.contacts[l][i] : i \in { j \in 1 .. Len(m.contacts[l]) :
                                   IsTransition(m, l, m.contacts[l][j]) } } }

\* The paths with one legal move more.  A cheapest path enters no lane twice (it
\* may come back to its first lane once), so no others are built.
Extended(m, paths) ==
  UNION { { [path  |-> Append(p.path, t[1]),
             types |-> Append(p.types, t[2]),
             cost  |-> p.cost + t[3]] :
               t \in { u \in Steps(m, p.path[Len(p.path)]) :
                        \A i \in 2 .. Len(p.path) : p.path[i] # u[1] } } :
            p \in paths }

\* The legal paths from lane s with exactly n moves, with their cost.  There are
\* at most as many moves as lanes.
PathsOfLength(m, s) ==
  LET P[n \in 0 .. Cardinality(m.lanes)] ==
        IF n = 0 THEN { [path |-> <<s>>, types |-> << >>, cost |-> 0] }
        ELSE Extended(m, P[n-1])
  IN  P

LegalPaths(m, q) ==
  { p \in UNION { PathsOfLength(m, q.start)[n] : n \in 0 .. Cardinality(m.lanes) } :
      /\ p.path[Len(p.path)] = q.goal
      /\ Len(p.path) > 1 \/ DirectFinishAllowed(m, q) }

\* What find_lane_path may answer: a least-cost legal path.
CheapestPaths(m, q) ==
  LET paths == LegalPaths(m, q) IN
  { p \in paths : \A r \in paths : p.cost <= r.cost }
=============================================================================
