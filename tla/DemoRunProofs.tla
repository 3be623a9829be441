--------------------------- MODULE DemoRunProofs ---------------------------
(***************************************************************************)
(* Theorems about DemoRun and ComparisonRoute, for any number of runs, any  *)
(* places, traces of any length and any notion of nearness.                 *)
(***************************************************************************)
EXTENDS DemoRun, TLAPS

-----------------------------------------------------------------------------
(* The comparison route: what each step of its process preserves.            *)

\* A trace is a sequence of points.
LEMMA TracesAreSequences ==
  ASSUME NEW t \in Traces
  PROVE  t \in Seq(Points)
<1>1. PICK n \in 0 .. MaxTrace : t \in [1 .. n -> Points]
  BY DEF Traces
<1> QED
  BY <1>1, RouteAssumption

\* Before the points are looked at nothing is kept, and then the first is.
FirstKept ==
  /\ stage \in {"load", "trace"} => next = 1 /\ trace = << >>
  /\ next = 1 => kept = << >>
  /\ next > 1 => kept # << >>

\* The state as the provers need it.
LEMMA StateFacts ==
  ASSUME ComparisonTypeOK
  PROVE  /\ trace \in Seq(Points)
         /\ Len(trace) \in Nat
         /\ next \in Nat
         /\ next >= 1
         /\ next <= Len(trace) + 1
         /\ kept \in Seq(Nat)
         /\ Len(kept) \in Nat
<1>1. trace \in Seq(Points) /\ Len(trace) \in Nat
  <2>1. trace \in Traces
    BY DEF ComparisonTypeOK
  <2>2. trace \in Seq(Points)
    BY <2>1, TracesAreSequences
  <2> QED
    BY <2>2
<1>2. kept \in Seq(Nat) /\ Len(kept) \in Nat
  <2>1. kept \in Seq(Nat)
    BY DEF ComparisonTypeOK
  <2> QED
    BY <2>1
<1>3. next \in 1 .. Len(trace) + 1
  BY DEF ComparisonTypeOK
<1> QED
  BY <1>1, <1>2, <1>3

\* What a step that keeps a point appends.
LEMMA KeepAppends ==
  ASSUME ComparisonTypeOK, Keep
  PROVE  /\ kept' \in Seq(Nat)
         /\ Len(kept') = Len(kept) + 1
         /\ \A k \in 1 .. Len(kept) : kept'[k] = kept[k]
         /\ kept'[Len(kept) + 1] = next
         /\ next' = next + 1
         /\ trace' = trace
<1>1. kept' = Append(kept, next) /\ next' = next + 1 /\ trace' = trace
  BY DEF Keep
<1> QED
  BY <1>1, StateFacts

\* Where the process starts: nothing is kept yet.
LEMMA NothingKeptYet ==
  ASSUME stage = "load", routeError = "none", fromFile \in BOOLEAN,
         trace = << >>, next = 1, kept = << >>
  PROVE  ComparisonTypeOK /\ FirstKept /\ NoRepeats /\ NothingLost
<1>1. << >> \in Traces
  BY RouteAssumption DEF Traces
<1> QED
  BY <1>1 DEF ComparisonTypeOK, FirstKept, NoRepeats, NothingLost

\* What is kept stays places of the trace, and the first point is kept.
LEMMA PlacesStayKept ==
  ASSUME ComparisonTypeOK, FirstKept, [ComparisonNext]_comparison
  PROVE  ComparisonTypeOK' /\ FirstKept'
<1>0. /\ Len(trace) \in Nat /\ next \in Nat /\ Len(kept) \in Nat
      /\ next >= 1 /\ next <= Len(trace) + 1
      /\ \A k \in 1 .. Len(kept) : kept[k] \in 1 .. next - 1
  BY StateFacts DEF ComparisonTypeOK
<1>1. CASE LoadRouteMap
  BY <1>1 DEF LoadRouteMap, StopWith, ComparisonTypeOK, FirstKept
<1>2. CASE Trace
  <2>1. trace' \in Traces /\ next = 1 /\ kept = << >> /\ next' = next /\ kept' = kept
    BY <1>2 DEF Trace, FirstKept
  <2>2. trace' \in Seq(Points)
    BY <2>1, TracesAreSequences
  <2>3. next' \in 1 .. Len(trace') + 1
    BY <2>1, <2>2
  <2>4. /\ stage' \in {"drop", "failed"}
        /\ routeError' \in {routeError, "no route"}
        /\ fromFile' = fromFile
    BY <1>2 DEF Trace, StopWith
  <2>5. kept' \in Seq(Nat) /\ Len(kept') = 0
    BY <2>1
  <2> QED
    BY <2>1, <2>3, <2>4, <2>5 DEF ComparisonTypeOK, FirstKept
<1>3. CASE Drop
  <2>1. next' = next + 1 /\ kept' = kept /\ kept # << >> /\ trace' = trace
    BY <1>3 DEF Drop, IsRepeat
  <2>2. next' \in 1 .. Len(trace') + 1
    BY <2>1, <1>3, <1>0 DEF Drop
  <2>3. \A k \in 1 .. Len(kept') : kept'[k] \in 1 .. next' - 1
    BY <2>1, <1>0
  <2>4. stage' = stage /\ routeError' = routeError /\ fromFile' = fromFile /\ stage = "drop"
    BY <1>3 DEF Drop
  <2>5. ComparisonTypeOK'
    BY <2>1, <2>2, <2>3, <2>4 DEF ComparisonTypeOK
  <2> QED
    BY <2>1, <2>4, <2>5, <1>0 DEF FirstKept
<1>4. CASE Keep
  <2>1. /\ kept' \in Seq(Nat)
        /\ Len(kept') = Len(kept) + 1
        /\ \A k \in 1 .. Len(kept) : kept'[k] = kept[k]
        /\ kept'[Len(kept) + 1] = next
        /\ next' = next + 1
        /\ trace' = trace
    BY <1>4, KeepAppends
  <2>2. next' \in 1 .. Len(trace') + 1
    BY <2>1, <1>4, <1>0 DEF Keep
  <2>3. ASSUME NEW k \in 1 .. Len(kept') PROVE kept'[k] \in 1 .. next' - 1
    <3>1. k \in 1 .. Len(kept) \/ k = Len(kept) + 1
      BY <2>1, <1>0
    <3> QED
      BY <3>1, <2>1, <1>0
  <2>4. stage' = stage /\ routeError' = routeError /\ fromFile' = fromFile /\ stage = "drop"
    BY <1>4 DEF Keep
  <2>5. ComparisonTypeOK'
    BY <2>1, <2>2, <2>3, <2>4 DEF ComparisonTypeOK
  <2>6. kept' # << >>
    BY <2>1, <1>0
  <2> QED
    BY <2>1, <2>4, <2>5, <2>6, <1>0 DEF FirstKept
<1>5. CASE Finish
  BY <1>5 DEF Finish, StopWith, ComparisonTypeOK, FirstKept
<1>6. CASE UNCHANGED comparison
  BY <1>6 DEF comparison, ComparisonTypeOK, FirstKept
<1> QED
  BY <1>1, <1>2, <1>3, <1>4, <1>5, <1>6 DEF ComparisonNext

\* Neighbours of the comparison route stay apart.
LEMMA NeighboursStayApart ==
  ASSUME ComparisonTypeOK, FirstKept, NoRepeats, [ComparisonNext]_comparison
  PROVE  NoRepeats'
<1>0. Len(kept) \in Nat
  BY StateFacts
<1>1. CASE Keep
  <2>1. /\ Len(kept') = Len(kept) + 1
        /\ \A k \in 1 .. Len(kept) : kept'[k] = kept[k]
        /\ kept'[Len(kept) + 1] = next
        /\ trace' = trace
    BY <1>1, KeepAppends
  <2> SUFFICES ASSUME NEW k \in 1 .. Len(kept') - 1
               PROVE  ~ Near(trace[kept'[k]], trace[kept'[k + 1]])
    BY <2>1 DEF NoRepeats
  <2>2. CASE k < Len(kept)
    BY <1>0, <2>1, <2>2 DEF NoRepeats
  <2>3. CASE k = Len(kept)
    <3>1. kept # << >> /\ ~ Near(Last, trace[next])
      BY <1>0, <1>1, <2>3 DEF Keep, IsRepeat
    <3> QED
      BY <3>1, <2>1, <2>3, <1>0 DEF Last
  <2> QED
    BY <1>0, <2>1, <2>2, <2>3
<1>2. CASE Trace
  <2>1. kept' = << >>
    BY <1>2 DEF Trace, FirstKept
  <2>2. Len(kept') = 0
    BY <2>1
  <2> QED
    BY <2>2 DEF NoRepeats
<1>3. CASE UNCHANGED <<trace, kept>>
  BY <1>3 DEF NoRepeats
<1> QED
  BY <1>1, <1>2, <1>3 DEF ComparisonNext, LoadRouteMap, Drop, Finish, comparison

\* Each point of the trace stays near the kept point that stands for it.
LEMMA TraceStaysCovered ==
  ASSUME ComparisonTypeOK, FirstKept, NothingLost, [ComparisonNext]_comparison
  PROVE  NothingLost'
<1>0. /\ Len(kept) \in Nat /\ next \in Nat /\ next >= 1
      /\ trace \in Seq(Points) /\ Len(trace) \in Nat
      /\ \A k \in 1 .. Len(kept) : kept[k] \in 1 .. next - 1
  BY StateFacts DEF ComparisonTypeOK
<1>1. CASE Keep
  <2>1. /\ Len(kept') = Len(kept) + 1
        /\ \A k \in 1 .. Len(kept) : kept'[k] = kept[k]
        /\ kept'[Len(kept) + 1] = next
        /\ next' = next + 1
        /\ trace' = trace
    BY <1>1, KeepAppends
  <2> SUFFICES ASSUME NEW i \in 1 .. next' - 1
               PROVE  \E k \in 1 .. Len(kept') :
                         StandsFor(kept', k, i) /\ Near(trace[kept'[k]], trace[i])
    BY <2>1 DEF NothingLost
  <2>2. CASE i = next
    <3>1. trace[next] \in Points
      BY <1>0, <1>1 DEF Keep
    <3>2. Near(trace[next], trace[next])
      BY <3>1, RouteAssumption
    <3>3. Len(kept) + 1 \in 1 .. Len(kept')
      BY <1>0, <2>1
    <3>4. StandsFor(kept', Len(kept) + 1, i)
      BY <1>0, <2>1, <2>2 DEF StandsFor
    <3> QED
      BY <2>1, <2>2, <3>2, <3>3, <3>4
  <2>3. CASE i # next
    <3>1. i \in 1 .. next - 1
      BY <1>0, <2>1, <2>3
    <3>2. PICK k \in 1 .. Len(kept) : StandsFor(kept, k, i) /\ Near(trace[kept[k]], trace[i])
      BY <3>1 DEF NothingLost
    <3>3. kept'[k] = kept[k] /\ kept[k] <= i /\ Len(kept') = Len(kept) + 1
      BY <2>1, <3>2 DEF StandsFor
    <3>4. ASSUME k < Len(kept) PROVE StandsFor(kept', k, i)
      <4>1. kept'[k + 1] = kept[k + 1]
        BY <1>0, <2>1, <3>4
      <4>2. i < kept[k + 1]
        BY <3>2, <3>4 DEF StandsFor
      <4> QED
        BY <3>3, <4>1, <4>2 DEF StandsFor
    <3>5. ASSUME k = Len(kept) PROVE StandsFor(kept', k, i)
      <4>1. kept'[k + 1] = next
        BY <2>1, <3>5
      <4>2. i < next
        BY <1>0, <3>1
      <4> QED
        BY <3>3, <4>1, <4>2 DEF StandsFor
    <3>6. StandsFor(kept', k, i)
      BY <1>0, <3>4, <3>5
    <3> QED
      BY <1>0, <2>1, <3>2, <3>6
  <2> QED
    BY <2>2, <2>3
<1>2. CASE Drop
  <2>1. /\ next' = next + 1 /\ kept' = kept /\ trace' = trace
        /\ kept # << >> /\ Near(trace[kept[Len(kept)]], trace[next])
    BY <1>2 DEF Drop, IsRepeat, Last
  <2>2. Len(kept) \in 1 .. Len(kept)
    <3>1. kept \in Seq(Nat)
      BY StateFacts
    <3> QED
      BY <2>1, <3>1
  <2> SUFFICES ASSUME NEW i \in 1 .. next' - 1
               PROVE  \E k \in 1 .. Len(kept) :
                         StandsFor(kept, k, i) /\ Near(trace[kept[k]], trace[i])
    BY <2>1 DEF NothingLost, StandsFor
  <2>3. CASE i = next
    <3>1. StandsFor(kept, Len(kept), i)
      BY <1>0, <2>2, <2>3 DEF StandsFor
    <3> QED
      BY <2>1, <2>2, <2>3, <3>1
  <2>4. CASE i # next
    <3>1. i \in 1 .. next - 1
      BY <1>0, <2>1, <2>4
    <3> QED
      BY <3>1 DEF NothingLost
  <2> QED
    BY <2>3, <2>4
<1>3. CASE Trace
  <2>1. next' = 1
    BY <1>3 DEF Trace, FirstKept
  <2> QED
    BY <2>1 DEF NothingLost
<1>4. CASE UNCHANGED <<trace, next, kept>>
  BY <1>4 DEF NothingLost, StandsFor
<1> QED
  BY <1>1, <1>2, <1>3, <1>4 DEF ComparisonNext, LoadRouteMap, Finish, comparison

-----------------------------------------------------------------------------
(* The demo run.                                                             *)

\* Until the positions are read nothing is drawn and there is no route of
\* CARLA's.
NothingYet ==
  /\ pc \in {"get", "read"} => drawn = {}
  /\ pc \in {"get", "read", "compare"} => carlaRoute = None

\* The file of positions is of this run as soon as the process has written it.
PositionsAreNew ==
  /\ pc = "get" /\ call = "succeeded" => callOutput = "whole"
  /\ pc = "get" /\ callOutput = "whole" => files["carla_landmarks"].run = run
  /\ pc = "read" => files["carla_landmarks"].run = run

\* Each file is written again before it is drawn.
FilesAreNew ==
  /\ pc \in {"save_carla", "write_carla", "draw_carla"} => carlaRoute = landmarks
  /\ pc = "draw_carla" => files["carla_global_route_points"] = landmarks
  /\ pc \in {"save_admap", "write_admap", "save_snap", "write_snap"} => route = landmarks
  /\ pc \in {"save_snap", "write_snap", "draw_admap"} => files["admap_route_points"] = landmarks
  /\ pc \in {"draw_admap", "draw_snap"} => files["admap_snap_points"] = landmarks

\* What a run has drawn by the place it has come to.
DrawnSoFar ==
  /\ pc \in {"load"} \cup Guarded /\ carlaRoute # None => IsDrawn("blue")
  /\ pc \in {"draw_snap", "describe"} /\ show.ad_map => IsDrawn("yellow")
  /\ pc = "describe" /\ show.ad_map => IsDrawn("green")
  /\ pc \in Unguarded \cup Guarded => outcome = None

DemoInv ==
  /\ DOMAIN files = Files
  /\ NothingYet
  /\ PositionsAreNew
  /\ FilesAreNew
  /\ DrawnSoFar
  /\ DrawnIsOfThisRun
  /\ CompletedMeansDrawn

\* What is whole on the paper stays on the paper.
LEMMA DrawnStaysDrawn ==
  ASSUME NEW color, IsDrawn(color), drawn \subseteq drawn'
  PROVE  IsDrawn(color)'
BY DEF IsDrawn

\* A drawing process that is through has drawn the file it read; one that
\* failed may have drawn a part of it.
LEMMA DrawDraws ==
  ASSUME NEW at, NEW file, NEW color, NEW after, Draw(at, file, color, after)
  PROVE  /\ pc = at
         /\ drawn \subseteq drawn'
         /\ \A d \in drawn' : d \in drawn \/ d.of = files[file]
         /\ \/ pc' = after /\ outcome' = outcome /\ IsDrawn(color)'
            \/ Raise
         /\ UNCHANGED <<files, run, show, process, memory, adMap>>
<1>1. CASE /\ drawn' = drawn \cup { Drawing(color, files[file], TRUE) }
           /\ pc' = after
           /\ UNCHANGED outcome
  <2>1. Drawing(color, files[file], TRUE) \in drawn'
    BY <1>1
  <2>2. IsDrawn(color)'
    BY <2>1 DEF IsDrawn, Drawing
  <2> QED
    BY <1>1, <2>2 DEF Draw, Drawing
<1>2. CASE drawn' = drawn \cup { Drawing(color, files[file], FALSE) } /\ Raise
  BY <1>2 DEF Draw, Drawing
<1>3. CASE Raise /\ UNCHANGED drawn
  BY <1>3 DEF Draw
<1> QED
  BY <1>1, <1>2, <1>3 DEF Draw

\* An error in main spoils nothing: what was drawn is of this run, and the run
\* does not complete.
LEMMA RaiseSpoilsNothing ==
  ASSUME DemoInv, Raise,
         drawn \subseteq drawn', \A d \in drawn' : d.of = landmarks,
         UNCHANGED <<files, run, show, landmarks, carlaRoute, route>>
  PROVE  DemoInv'
<1>1. pc' \in {"close", "ended"} /\ outcome' = "failed"
  BY DEF Raise
<1> QED
  BY <1>1 DEF DemoInv, NothingYet, PositionsAreNew, FilesAreNew, DrawnSoFar, DrawnIsOfThisRun,
              CompletedMeansDrawn, Guarded, Unguarded

LEMMA DemoStarts == Init => DemoInv
BY DemoAssumption DEF Init, DemoInv, NothingYet, PositionsAreNew, FilesAreNew, DrawnSoFar,
       DrawnIsOfThisRun, CompletedMeansDrawn, Guarded, Unguarded

\* Each step of the demo keeps the invariant.
LEMMA DemoGoesOn ==
  ASSUME DemoInv, [Next]_vars
  PROVE  DemoInv'
<1> USE DEF DemoInv, NothingYet, PositionsAreNew, FilesAreNew, DrawnSoFar, DrawnIsOfThisRun,
            CompletedMeansDrawn, Guarded, Unguarded, memory, process
<1>1. CASE StartRun
  <2>1. /\ pc' = "get" /\ call' = "running" /\ callOutput' = "old" /\ outcome' = None
        /\ landmarks' = None /\ carlaRoute' = None /\ drawn' = {} /\ files' = files
    BY <1>1 DEF StartRun
  <2>2. DrawnIsOfThisRun' /\ CompletedMeansDrawn'
    BY <2>1, DemoAssumption
  <2>3. NothingYet' /\ PositionsAreNew' /\ FilesAreNew'
    BY <2>1
  <2>4. DrawnSoFar'
    BY <2>1
  <2> QED
    BY <2>1, <2>2, <2>3, <2>4
<1>2. CASE GetObjects
  <2>1. /\ pc = "get"
        /\ UNCHANGED <<run, show, pc, outcome, memory, adMap, drawn>>
    BY <1>2 DEF GetObjects
  <2>2. CASE Call!Open
    <3>1. callOutput' = "partial" /\ call' = "running" /\ callOutput = "old"
      BY <2>2 DEF Call!Open
    <3>2. files' = [files EXCEPT !["carla_landmarks"] = Cut]
      BY <1>2, <3>1 DEF GetObjects
    <3> QED
      BY <2>1, <3>1, <3>2 DEF IsDrawn
  <2>3. CASE Call!Complete
    <3>1. callOutput' = "whole" /\ call' = "running" /\ callOutput = "partial"
      BY <2>3 DEF Call!Complete
    <3>2. PICK p \in Places :
             files' = [files EXCEPT !["carla_landmarks"] = [run |-> run, place |-> p]]
      BY <1>2, <3>1 DEF GetObjects
    <3>3. files'["carla_landmarks"].run = run /\ DOMAIN files' = DOMAIN files
      BY <3>2 DEF Files
    <3> QED
      BY <2>1, <3>1, <3>3 DEF IsDrawn
  <2>4. CASE Call!Succeed \/ Call!Fail
    <3>1. callOutput' = callOutput /\ (call' = "succeeded" => callOutput = "whole")
      BY <2>4 DEF Call!Succeed, Call!Fail
    <3>2. files' = files
      BY <1>2, <3>1 DEF GetObjects
    <3> QED
      BY <2>1, <3>1, <3>2 DEF IsDrawn
  <2> QED
    BY <1>2, <2>2, <2>3, <2>4 DEF GetObjects, Call!Next
<1>3. CASE GetFailed
  <2>1. DemoInv
    OBVIOUS
  <2> QED
    BY <1>3, <2>1, RaiseSpoilsNothing DEF GetFailed
<1>4. CASE GetSucceeded
  BY <1>4 DEF GetSucceeded, IsDrawn
<1>5. CASE ReadLandmarks
  BY <1>5 DEF ReadLandmarks, IsDrawn, Raise
<1>6. CASE Compare
  <2>1. UNCHANGED <<files, run, show, pc, outcome, call, callOutput, memory, adMap, drawn>>
    BY <1>6 DEF Compare
  <2> QED
    BY <2>1 DEF IsDrawn
<1>7. CASE CompareFound
  <2>1. /\ pc = "compare" /\ pc' = "save_carla" /\ carlaRoute' = landmarks
        /\ UNCHANGED <<files, run, show, outcome, landmarks, route, drawn>>
    BY <1>7 DEF CompareFound
  <2>2. DrawnIsOfThisRun'
    BY <2>1
  <2>3. CompletedMeansDrawn'
    BY <2>1, DemoAssumption
  <2>4. NothingYet' /\ PositionsAreNew' /\ FilesAreNew'
    BY <2>1
  <2>5. DrawnSoFar'
    BY <2>1
  <2> QED
    BY <2>1, <2>2, <2>3, <2>4, <2>5
<1>8. CASE CompareSkipped
  BY <1>8 DEF CompareSkipped, IsDrawn
<1>9. CASE SaveCarla
  <2>1. CASE Open("save_carla", "carla_global_route_points", "write_carla")
    BY <2>1 DEF Open, Files, IsDrawn
  <2>2. CASE Write("write_carla", "carla_global_route_points", carlaRoute, "draw_carla")
    BY <2>2 DEF Write, Files, IsDrawn
  <2> QED
    BY <1>9, <2>1, <2>2 DEF SaveCarla
<1>10. CASE DrawCarla
  <2>1. /\ pc = "draw_carla"
        /\ drawn \subseteq drawn'
        /\ \A d \in drawn' : d \in drawn \/ d.of = files["carla_global_route_points"]
        /\ \/ pc' = "load" /\ outcome' = outcome /\ IsDrawn("blue")'
           \/ Raise
        /\ UNCHANGED <<files, run, show, process, memory, adMap>>
    BY <1>10, DrawDraws DEF DrawCarla
  <2>2. \A d \in drawn' : d.of = landmarks
    BY <2>1
  <2>3. CASE Raise
    <3>1. DemoInv
      OBVIOUS
    <3> QED
      BY <2>1, <2>2, <2>3, <3>1, RaiseSpoilsNothing
  <2>4. CASE pc' = "load" /\ outcome' = outcome /\ IsDrawn("blue")'
    BY <2>1, <2>2, <2>4, DrawnStaysDrawn
  <2> QED
    BY <2>1, <2>3, <2>4
<1>11. CASE LoadMap
  BY <1>11 DEF LoadMap, IsDrawn
<1>12. CASE Plan
  BY <1>12 DEF Plan, IsDrawn
<1>13. CASE SaveAdMap
  BY <1>13 DEF SaveAdMap, Open, Write, Files, IsDrawn
<1>14. CASE SaveSnap
  <2>1. CASE Open("save_snap", "admap_snap_points", "write_snap")
    BY <2>1 DEF Open, Files, IsDrawn
  <2>2. CASE Write("write_snap", "admap_snap_points", route, AfterSaving)
    BY <2>2 DEF Write, Files, IsDrawn, AfterSaving
  <2> QED
    BY <1>14, <2>1, <2>2 DEF SaveSnap
<1>15. CASE DrawAdMap
  <2>1. /\ pc = "draw_admap"
        /\ drawn \subseteq drawn'
        /\ \A d \in drawn' : d \in drawn \/ d.of = files["admap_route_points"]
        /\ \/ pc' = "draw_snap" /\ outcome' = outcome /\ IsDrawn("yellow")'
           \/ Raise
        /\ UNCHANGED <<files, run, show, process, memory, adMap>>
    BY <1>15, DrawDraws DEF DrawAdMap
  <2>2. \A d \in drawn' : d.of = landmarks
    BY <2>1
  <2>3. CASE Raise
    <3>1. DemoInv
      OBVIOUS
    <3> QED
      BY <2>1, <2>2, <2>3, <3>1, RaiseSpoilsNothing
  <2>4. CASE pc' = "draw_snap" /\ outcome' = outcome /\ IsDrawn("yellow")'
    BY <2>1, <2>2, <2>4, DrawnStaysDrawn
  <2> QED
    BY <2>1, <2>3, <2>4
<1>16. CASE DrawSnap
  <2>1. /\ pc = "draw_snap"
        /\ drawn \subseteq drawn'
        /\ \A d \in drawn' : d \in drawn \/ d.of = files["admap_snap_points"]
        /\ \/ pc' = "describe" /\ outcome' = outcome /\ IsDrawn("green")'
           \/ Raise
        /\ UNCHANGED <<files, run, show, process, memory, adMap>>
    BY <1>16, DrawDraws DEF DrawSnap
  <2>2. \A d \in drawn' : d.of = landmarks
    BY <2>1
  <2>3. CASE Raise
    <3>1. DemoInv
      OBVIOUS
    <3> QED
      BY <2>1, <2>2, <2>3, <3>1, RaiseSpoilsNothing
  <2>4. CASE pc' = "describe" /\ outcome' = outcome /\ IsDrawn("green")'
    BY <2>1, <2>2, <2>4, DrawnStaysDrawn
  <2> QED
    BY <2>1, <2>3, <2>4
<1>17. CASE Describe
  BY <1>17 DEF Describe, IsDrawn
<1>18. CASE Fail
  BY <1>18, RaiseSpoilsNothing DEF Fail
<1>19. CASE CloseMap
  BY <1>19 DEF CloseMap, IsDrawn
<1>20. CASE EndRun
  BY <1>20 DEF EndRun, IsDrawn
<1>21. CASE Kill
  BY <1>21 DEF Kill, IsDrawn
<1>22. CASE UNCHANGED vars
  BY <1>22 DEF vars, IsDrawn
<1> QED
  BY <1>1, <1>2, <1>3, <1>4, <1>5, <1>6, <1>7, <1>8, <1>9, <1>10, <1>11, <1>12, <1>13, <1>14,
     <1>15, <1>16, <1>17, <1>18, <1>19, <1>20, <1>21, <1>22 DEF Next, Step

\* Everything a run draws is made from the positions it has read itself.
THEOREM NothingStaleIsDrawn == Spec => []DrawnIsOfThisRun
<1>1. DemoInv => DrawnIsOfThisRun
  BY DEF DemoInv
<1> QED
  BY <1>1, DemoStarts, DemoGoesOn, PTL DEF Spec

\* A run that says it is completed has drawn all it was to draw.
THEOREM CompletedRunHasDrawn == Spec => []CompletedMeansDrawn
<1>1. DemoInv => CompletedMeansDrawn
  BY DEF DemoInv
<1> QED
  BY <1>1, DemoStarts, DemoGoesOn, PTL DEF Spec

\* The comparison's process keeps all of this in a run, which starts it anew
\* each time.
LEMMA ComparisonKeepsPlaces ==
  Spec => [](ComparisonTypeOK /\ FirstKept /\ NoRepeats /\ NothingLost)
<1> DEFINE Kept == ComparisonTypeOK /\ FirstKept /\ NoRepeats /\ NothingLost
<1>1. Init => Kept
  BY NothingKeptYet DEF Init, ComparisonInit
<1>2. ASSUME Kept, [Next]_vars PROVE Kept'
  <2>1. CASE Compare
    <3>1. [ComparisonNext]_comparison
      BY <2>1 DEF Compare
    <3> QED
      BY <1>2, <3>1, PlacesStayKept, NeighboursStayApart, TraceStaysCovered
  <2>2. CASE EndComparison
    <3>1. fromFile' \in BOOLEAN
      BY <1>2, <2>2 DEF EndComparison, ComparisonTypeOK
    <3>2. /\ stage' = "load" /\ routeError' = "none" /\ trace' = << >>
          /\ next' = 1 /\ kept' = << >>
      BY <2>2 DEF EndComparison
    <3>3. << >> \in Traces
      BY RouteAssumption DEF Traces
    <3> QED
      BY <3>1, <3>2, <3>3 DEF ComparisonTypeOK, FirstKept, NoRepeats, NothingLost
  <2>3. CASE UNCHANGED comparison
    <3>1. [ComparisonNext]_comparison
      BY <2>3
    <3> QED
      BY <1>2, <3>1, PlacesStayKept, NeighboursStayApart, TraceStaysCovered
  <2>4. Compare \/ EndComparison \/ UNCHANGED comparison
    BY <1>2 DEF Next, Step, StartRun, GetObjects, GetFailed, GetSucceeded, ReadLandmarks,
       CompareFound, CompareSkipped, SaveCarla, DrawCarla, LoadMap, Plan, SaveAdMap, SaveSnap,
       DrawAdMap, DrawSnap, Describe, Fail, CloseMap, EndRun, Kill, Open, Write, Draw, process, vars
  <2> QED
    BY <2>1, <2>2, <2>3, <2>4
<1> QED
  BY <1>1, <1>2, PTL DEF Spec

\* In each run, what is kept are points of the trace that were looked at.
THEOREM ComparisonTypeCorrect == Spec => []ComparisonTypeOK
BY ComparisonKeepsPlaces, PTL

\* In each run, no two neighbours of the comparison route are near each other.
THEOREM NeighboursApart == Spec => []NoRepeats
BY ComparisonKeepsPlaces, PTL

\* In each run, each point of the trace has the kept point that stands for it
\* near it.
THEOREM TraceCovered == Spec => []NothingLost
BY ComparisonKeepsPlaces, PTL
=============================================================================
