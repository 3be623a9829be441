------------------------------ MODULE LanePath ------------------------------
(***************************************************************************)
(* What a lane-path query promises, without the search that answers it:    *)
(* the answer to a query is a least-cost legal lane path from the start    *)
(* lane to the goal lane, and "no path" only when there is none.           *)
(*                                                                         *)
(* The paths are built one legal move at a time, so the definitions here   *)
(* share nothing with the priority queue of find_lane_path.                *)
(***************************************************************************)
EXTENDS LegalLanePaths

CONSTANTS Maps,          \* the maps a query may be asked about
          Queries(_)     \* the queries asked about a map

VARIABLES map,       \* the loaded map
          query,     \* start and goal lane, with their offsets
          answer     \* Pending, NoPath or the path found

vars == <<map, query, answer>>

Pending == [path |-> << >>, types |-> <<"pending">>]
NoPath  == [path |-> << >>, types |-> << >>]

-----------------------------------------------------------------------------
Init ==
  /\ map \in Maps
  /\ query \in Queries(map)
  /\ answer = Pending

AnswerPath ==
  /\ answer = Pending
  /\ \E p \in LegalPaths(map, query) :
       /\ answer' = [path |-> p.path, types |-> p.types]
       /\ \A r \in LegalPaths(map, query) : p.cost <= r.cost
  /\ UNCHANGED <<map, query>>

AnswerNone ==
  /\ answer = Pending
  /\ LegalPaths(map, query) = {}
  /\ answer' = NoPath
  /\ UNCHANGED <<map, query>>

Next == AnswerPath \/ AnswerNone

Spec == Init /\ [][Next]_vars /\ WF_vars(Next)
=============================================================================
