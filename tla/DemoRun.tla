------------------------------ MODULE DemoRun ------------------------------
(***************************************************************************)
(* main of scripts/run_map_test.py: reads the positions of start and goal  *)
(* through the bridge, has CARLA's planner find a route to compare with,   *)
(* plans its own route, and has both drawn.                                *)
(*                                                                         *)
(* The demo and the processes it starts hand each other files in           *)
(* temporary/, which outlive a run: a run may fail at any call, it may be  *)
(* killed at any time, and the next one finds the files as they are.       *)
(*                                                                         *)
(* What a file, a route or a drawing contains is told by the positions it  *)
(* was made from and the run that read them.                               *)
(***************************************************************************)
EXTENDS ComparisonRoute

CONSTANTS Places,    \* where the start and goal objects may be
          MaxRuns,   \* bound on the number of runs
          None,      \* no file, no data
          Cut        \* a file that was not written to its end

ASSUME DemoAssumption ==
  /\ MaxRuns \in Nat \ {0}
  /\ None # Cut
  /\ None \notin {"completed", "failed", "killed"}

VARIABLES files,       \* what is in temporary/
          run,         \* the number of this run
          show,        \* show_carla_route and show_ad_map_route
          pc, outcome,
          call, callOutput,   \* the get-objects process, as BridgeCall has it
                              \* (ComparisonRoute has the one of get_carla_route)
          landmarks,   \* the positions this run works with
          carlaRoute,  \* carla_route
          adMap,       \* whether the map is loaded
          route,       \* route_points, and the snap points that go with them
          drawn        \* what this run has drawn, whole or in part

memory == <<landmarks, carlaRoute, route>>
process == <<call, callOutput, comparison>>
vars == <<files, run, show, pc, outcome, process, memory, adMap, drawn>>

Files == {"carla_landmarks", "carla_global_route_points", "admap_route_points",
          "admap_snap_points"}

Call == INSTANCE BridgeCall WITH status <- call, output <- callOutput

\* Where an error leaves main: close_map is in a finally that is entered only
\* after the map was loaded.
Unguarded == {"get", "read", "compare", "save_carla", "write_carla", "draw_carla", "load"}
Guarded == {"plan", "save_admap", "write_admap", "save_snap", "write_snap",
            "draw_admap", "draw_snap", "describe"}

-----------------------------------------------------------------------------
Init ==
  /\ files = [f \in Files |-> None]
  /\ run = 0
  /\ show \in [carla : BOOLEAN, ad_map : BOOLEAN]
  /\ pc = "idle"
  /\ outcome = None
  /\ call = None
  /\ callOutput = "old"
  /\ ComparisonInit
  /\ fromFile = TRUE
  /\ landmarks = None
  /\ carlaRoute = None
  /\ adMap = "unloaded"
  /\ route = None
  /\ drawn = {}

StartRun ==
  /\ pc = "idle"
  /\ run < MaxRuns
  /\ run' = run + 1
  /\ pc' = "get"
  /\ outcome' = None
  /\ call' = "running"
  /\ callOutput' = "old"
  /\ landmarks' = None
  /\ carlaRoute' = None
  /\ route' = None
  /\ drawn' = {}
  /\ UNCHANGED <<files, show, comparison, adMap>>

\* An error at some place of main.
Raise ==
  /\ outcome' = "failed"
  /\ pc' = IF pc \in Guarded THEN "close" ELSE "ended"

\* The get-objects process goes on.  It may write positions the objects have
\* left since.
GetObjects ==
  /\ pc = "get"
  /\ Call!Next
  /\ UNCHANGED comparison
  /\ CASE callOutput' = callOutput -> UNCHANGED files
       [] callOutput' # callOutput /\ callOutput' = "partial" ->
            files' = [files EXCEPT !["carla_landmarks"] = Cut]
       [] callOutput' # callOutput /\ callOutput' = "whole" ->
            \E p \in Places :
               files' = [files EXCEPT !["carla_landmarks"] = [run |-> run, place |-> p]]
  /\ UNCHANGED <<run, show, pc, outcome, memory, adMap, drawn>>

\* Mutant: the process is started again.
RetryForever ==
  /\ pc = "get"
  /\ call = "failed"
  /\ call' = "running"
  /\ callOutput' = "old"
  /\ UNCHANGED <<files, run, show, pc, outcome, comparison, memory, adMap, drawn>>

\* run_bridge raises when the process failed.
GetFailed ==
  /\ pc = "get"
  /\ call = "failed"
  /\ Raise
  /\ call' = None
  /\ UNCHANGED <<files, run, show, callOutput, comparison, memory, adMap, drawn>>

GetSucceeded ==
  /\ pc = "get"
  /\ call = "succeeded"
  /\ pc' = "read"
  /\ call' = None
  /\ UNCHANGED <<files, run, show, outcome, callOutput, comparison, memory, adMap, drawn>>

IsWhole(content) == content \notin {None, Cut}

\* read_json raises on a file that is missing or cut off.
ReadLandmarks ==
  /\ pc = "read"
  /\ IF IsWhole(files["carla_landmarks"])
     THEN /\ landmarks' = files["carla_landmarks"]
          /\ pc' = IF show.carla THEN "compare" ELSE "load"
          /\ UNCHANGED outcome
     ELSE Raise /\ UNCHANGED landmarks
  /\ UNCHANGED <<files, run, show, process, carlaRoute, adMap, route, drawn>>

\* The planner's process goes on.
Compare ==
  /\ pc = "compare"
  /\ ComparisonNext
  /\ UNCHANGED <<files, run, show, pc, outcome, call, callOutput, memory, adMap, drawn>>

\* The process is gone, and its memory with it.
EndComparison ==
  /\ stage' = "load"
  /\ routeError' = "none"
  /\ trace' = << >>
  /\ next' = 1
  /\ kept' = << >>
  /\ UNCHANGED fromFile

CompareFound ==
  /\ pc = "compare"
  /\ stage = "built"
  /\ EndComparison
  /\ carlaRoute' = landmarks
  /\ pc' = "save_carla"
  /\ UNCHANGED <<files, run, show, outcome, call, callOutput, landmarks, adMap, route, drawn>>

\* Mutant: when CARLA's planner fails, the route that is there is drawn.
CompareWithOldRoute ==
  /\ pc = "compare"
  /\ EndComparison
  /\ pc' = "draw_carla"
  /\ UNCHANGED <<files, run, show, outcome, call, callOutput, memory, adMap, drawn>>

\* get_carla_route turns every error, of the process or in starting it, into no
\* route.
CompareSkipped ==
  /\ pc = "compare"
  /\ EndComparison
  /\ pc' = "load"
  /\ UNCHANGED <<files, run, show, outcome, call, callOutput, memory, adMap, drawn>>

\* save_route: the file is emptied and then written.
Open(at, file, after) ==
  /\ pc = at
  /\ files' = [files EXCEPT ![file] = Cut]
  /\ pc' = after
  /\ UNCHANGED <<run, show, outcome, process, memory, adMap, drawn>>

Write(at, file, content, after) ==
  /\ pc = at
  /\ files' = [files EXCEPT ![file] = content]
  /\ pc' = after
  /\ UNCHANGED <<run, show, outcome, process, memory, adMap, drawn>>

Drawing(color, content, whole) == [color |-> color, of |-> content, whole |-> whole]

\* The draw-route process: it reads the file and draws all of it or fails,
\* when a part may have been drawn.
Draw(at, file, color, after) ==
  /\ pc = at
  /\ \/ /\ IsWhole(files[file])
        /\ drawn' = drawn \cup { Drawing(color, files[file], TRUE) }
        /\ pc' = after
        /\ UNCHANGED outcome
     \/ /\ IsWhole(files[file])
        /\ drawn' = drawn \cup { Drawing(color, files[file], FALSE) }
        /\ Raise
     \/ /\ ~ IsWhole(files[file])
        /\ Raise
        /\ UNCHANGED drawn
  /\ UNCHANGED <<files, run, show, process, memory, adMap>>

LoadMap ==
  /\ pc = "load"
  /\ adMap' = "loaded"
  /\ pc' = "plan"
  /\ UNCHANGED <<files, run, show, outcome, process, memory, drawn>>

\* find_shortest_route, sample_route_centerline, find_adjacent_points.
Plan ==
  /\ pc = "plan"
  /\ route' = landmarks
  /\ pc' = "save_admap"
  /\ UNCHANGED <<files, run, show, outcome, process, landmarks, carlaRoute, adMap, drawn>>

AfterSaving == IF show.ad_map THEN "draw_admap" ELSE "describe"

SaveCarla ==
  \/ Open("save_carla", "carla_global_route_points", "write_carla")
  \/ Write("write_carla", "carla_global_route_points", carlaRoute, "draw_carla")

DrawCarla == Draw("draw_carla", "carla_global_route_points", "blue", "load")

SaveAdMap ==
  \/ Open("save_admap", "admap_route_points", "write_admap")
  \/ Write("write_admap", "admap_route_points", route, "save_snap")

SaveSnap ==
  \/ Open("save_snap", "admap_snap_points", "write_snap")
  \/ Write("write_snap", "admap_snap_points", route, AfterSaving)

\* Mutant: the snap points are not drawn.
DrawAdMapOnly == Draw("draw_admap", "admap_route_points", "yellow", "describe")

DrawAdMap == Draw("draw_admap", "admap_route_points", "yellow", "draw_snap")

DrawSnap == Draw("draw_snap", "admap_snap_points", "green", "describe")

\* The ends of the route are described, and main is through.
Describe ==
  /\ pc = "describe"
  /\ outcome' = "completed"
  /\ pc' = "close"
  /\ UNCHANGED <<files, run, show, process, memory, adMap, drawn>>

\* Any other step may raise: no map file, no lane, no route, a full disk.
Fail ==
  /\ pc \in (Unguarded \cup Guarded) \ {"get", "compare"}
  /\ Raise
  /\ UNCHANGED <<files, run, show, process, memory, adMap, drawn>>

CloseMap ==
  /\ pc = "close"
  /\ adMap' = "unloaded"
  /\ pc' = "ended"
  /\ UNCHANGED <<files, run, show, outcome, process, memory, drawn>>

EndRun ==
  /\ pc = "ended"
  /\ pc' = "idle"
  /\ UNCHANGED <<files, run, show, outcome, process, memory, adMap, drawn>>

\* The user ends the demo, and with it the process it waits for.
Kill ==
  /\ pc \notin {"idle", "ended"}
  /\ pc' = "idle"
  /\ outcome' = "killed"
  /\ call' = None
  /\ EndComparison
  /\ adMap' = "unloaded"
  /\ UNCHANGED <<files, run, show, callOutput, memory, drawn>>

Step ==
  \/ GetObjects
  \/ GetFailed
  \/ GetSucceeded
  \/ ReadLandmarks
  \/ Compare
  \/ CompareFound
  \/ CompareSkipped
  \/ SaveCarla
  \/ DrawCarla
  \/ LoadMap
  \/ Plan
  \/ SaveAdMap
  \/ SaveSnap
  \/ DrawAdMap
  \/ DrawSnap
  \/ Describe
  \/ Fail
  \/ CloseMap
  \/ EndRun

Next == StartRun \/ Step \/ Kill

Spec == Init /\ [][Next]_vars

\* A run goes on: each process it waits for ends.
FairSpec == Spec /\ WF_vars(Step)

-----------------------------------------------------------------------------

\* A run works with positions that it has read itself, and everything it
\* draws, CARLA's route and its own, is made from these positions: never from
\* a file that an earlier run has left.
DrawnIsOfThisRun ==
  /\ landmarks # None => landmarks.run = run
  /\ \A d \in drawn : d.of = landmarks

IsDrawn(color) == \E d \in drawn : d.color = color /\ d.whole

\* A run that says "Route completed" has drawn all it was to draw.
CompletedMeansDrawn ==
  outcome = "completed" =>
    /\ show.ad_map => IsDrawn("yellow") /\ IsDrawn("green")
    /\ carlaRoute # None => IsDrawn("blue")

\* Every run comes to an end.
RunsEnd == (pc # "idle") ~> (pc = "idle")
=============================================================================
