# Verification of the lane planner

This directory holds TLA+ models of the planner in `scripts/` and of the parts of
`map_repo/` its answers rest on, TLC configurations that check them on small instances,
and proofs TLAPS checks for every value of the constants.

The planner takes the position of a start and a goal object out of a CARLA simulator,
finds the lanes near them in an OpenDRIVE map held by the `ad_map_access` library, searches
a legal path from lane to lane, turns it into a route of lane offsets, samples that route
into points, and has it drawn.

## 1. Inventory

| part | code | state | operations |
|---|---|---|---|
| Lane graph queries | `scripts/admap_route.py` 180–310 | none (reads the map) | direction, drivability, legal moves of a lane |
| Lane path search | `find_lane_path` | heap, cost dictionary | one iteration per heap entry |
| Route builder | `build_custom_route`, `choose_lane_change_offsets` | route steps, current offset | one iteration per lane of the path |
| Route planner | `build_route_candidates`, `find_shortest_route` | candidates, best route and score | two nested loops over candidates |
| Route sampling | `sample_route_centerline` and helpers | points and their records | one append per sample |
| Parallel lanes | `get_parallel_lane_ids` | visited lanes, two lists | a walk to each side |
| Adjacent points | `find_adjacent_points` | none (reads the samples) | select a sample, walk, sample the neighbours |
| Lane numbers | `laneId`, `initializeLaneMap` (C++), `get_opendrive_lane_info` | the importer's lane map | number, drop repeats, describe |
| Connection | `connect_to_carla` | a clock, the attempt | try, sleep, give up |
| CARLA bridge | `scripts/carla_bridge.py` | world read, map, output file | `get-objects`, `draw-route` |
| Comparison route | `scripts/carla_global_planner.py` | trace, cleaned points | trace, drop repeats |
| Demo run | `scripts/run_map_test.py`, `scripts/common.py` | files in `temporary/`, child processes, loaded map | a run, its failures and its end |
| OpenDRIVE topology | `ad_map_opendrive_reader/src/geometry/GeometryGenerator.cpp`, `LaneUtils.cpp` | the importer's lane map, lanes per intersection | number, draw, connect, check, join |
| Lane store and factory | `ad_map_access/src/opendrive/AdMapFactory.cpp`, `access/Store.cpp` | the lanes of the process | add lanes, add contacts |
| Library route search | `ad_map_access` `route/RouteAStar.cpp`, `RouteExpander.hpp` | processing map, processed points, predecessors | one iteration per point taken off |
| Library route planning | `route/Planning.cpp`, `route/Route.cpp` | none between calls | plan to one destination, a list, matched points, candidates; make a full route |
| Library route operations | `route/RouteOperation.cpp`, `LaneIntervalOperation.cpp` | the route that is handed in | shorten, cut, expand, extend, add opposing lanes, find a lane change, take a section |
| Rest of the map library | `map_repo/ad_map_access` | a process-wide store, a coordinate transform | matching, prediction, intersections, serialisation, ... |

How they interact. `run_map_test.py` starts `carla_bridge.py get-objects` as a process and
reads the file it writes, calls CARLA's own planner in another process for a comparison
route, loads the map, calls `find_shortest_route` and `sample_route_centerline` in its own
process, writes the results to files, and starts `carla_bridge.py draw-route` for each of
them. Between processes there are exit codes and files only. `find_shortest_route` calls
`find_lane_path` and then `build_custom_route` for each pair of candidates; the sampler
walks over the route steps the builder made; `find_adjacent_points` looks the lanes beside
a sample up through `get_parallel_lane_ids`. Everything reads the map through the
library's store, which is filled once by the OpenDRIVE import. The library has a route
search and routes of its own, which the scripts do not use: `planRoute` runs the search
once or several times and makes a full route of the points, and the operations on routes
take such a route and change it while a vehicle drives along.

What is hard here, and hard to test (each item at its line is in `PROJECT.json`, hazards):

* *Ordering and stale entries in the search.* Heap entries are never removed, only
  outdated. A lane has two keys, as the start lane may be left and reached again.
* *Arithmetic at boundaries*, written twice, for lanes driven with and against their
  offsets: places of lane changes, steps of the sampler, the digits of a lane number.
* *Partial failure.* A pair of candidates, a comparison route, a drawing may fail on its
  own; errors are swallowed in one place and reported under another name.
* *Processes, files, kills.* A run may be killed while a file is empty; the next finds it.
* *Time and a changing world.* The simulator comes up late, the clock is looked at
  between attempts only, and objects move between two reads.
* *Maps that are not as one expects.* Neighbours of intersection lanes are set pair by
  pair and need not be mutual; lanes may form rings. Lanes are turned round after they
  were linked, and lane ends are moved in the order of a hashed map.
* *Routes edited in place.* The lanes of a route name those beside, before and after them
  by number; every cut, expansion and merge must change both sides, and several change
  the route before they know whether they can go on.

There are no threads. What runs concurrently are the processes, the simulator and the
user. No other crash recovery exists than starting the demo again.

## 2. Modules

    LaneMap ── LegalLanePaths ── LanePath          (promise)
       │              └───────── LanePathSearch    implements LanePath
       ├── LegalDrive                              (promise)
       ├── RoutePlanner      composes RouteBuilder and LegalLanePaths
       ├── RouteBuilder                            implements LegalDrive
       │       └── RouteSampler     goes on where RouteBuilder ends
       │              └── AdjacentPoints   composes RouteSampler and ParallelLanes
       ├── ParallelLanes
       └── LibraryLanes ── RouteExpander ── RouteAstar ──┐
                     └─── FullRoute ─────────────────────┴── RoutePlanning ──┐
                             └── Waypoints ── RouteQueries ──────────────────┴── RouteOperation
    LaneIds ── LaneTopology  makes maps as LaneMap has them
    BridgeCall                                     (promise)
    CarlaConnection ── CarlaBridge                 implements BridgeCall
    ComparisonRoute ── DemoRun                     composes BridgeCall, ComparisonRoute

`MC<Module>.tla` gives the constants of a module their values for TLC; `<Module>Proofs.tla`
holds the theorems about it and about the modules it goes on from: `RouteSamplerProofs` those
about the builder, the sampler and the points beside a route, `CarlaBridgeProofs` those about
the connection and the bridge, `DemoRunProofs` those about the demo and the comparison route,
`RouteOperationProofs` those about the library's search and about the routes it plans, as they are used.
`\* Mutant:` marks an operator that changes the definition after it as a plausible bug
would; no specification uses one, and each shows that a property can fail.

### Lane map (LaneMap)

A map is a record of lanes with type, direction, length and the sequence of contacts, as
`lane.contact_lanes` has them. Offsets `0.0 .. 1.0` are `0 .. Scale`; the tolerance `1e-6` is
below one unit. The operators are the questions of `admap_route.py` under their names.
`IsForward` and `IsLaneChange` keep the order of the tests of
`get_allowed_lane_transitions`: a contact at the travel end is a forward move whatever
else it is, and every direction but `POSITIVE` counts as negative.

### Lane path search (LanePathSearch; LegalLanePaths, LanePath)

State: the map, the query, `frontier` (a sequence in heap order with the entry's cost, lane,
path, types and flag), `bestCosts`, and the entry that is relaxed with a cursor over its
contacts. Actions: popping an outdated entry, popping one that is expanded, relaxing one
contact, returning, and running out of entries. Ties in the heap are broken as Python
compares tuples, as far as that decides anything.
`LegalLanePaths` defines the legal lane paths of a query independently of the search, one
move at a time; `LanePath` is a one-step specification that answers with a cheapest one of
them, or with none when there is none.

### Route builder (RouteBuilder; LegalDrive)

One action per branch of the loop of `build_custom_route`: the last lane, a forward move,
a lane change (lateral when it is one of the last two, diagonal otherwise) and the two
errors. Offsets are computed as in `choose_lane_change_offsets`, in integers: products and
quotients are rounded down. `LegalDrive` is a vehicle that only rolls forward, crosses into
a following lane or changes to a neighbour; `ImplementsLegalDrive` maps the builder's state
to it.

### Route planner (RoutePlanner)

The candidates are sorted by the code's key, those with one key in any order, the two loops
run over all pairs, the search
is one step that answers as `LanePath` promises (any cheapest legal path), and the builder
runs step by step through an instance of `RouteBuilder`. `outcomes` remembers what became
of each pair, for the properties. The probability is a number of a small range.

### Route sampling and the points beside it (RouteSampler, AdjacentPoints)

The builder runs first; then each step of its route is sampled, one
`append_sampled_point` at a time, with the snap points put at the ends. Positions are pairs
of integers; `Centre` (external: `getENULanePoint`) gives the centre of a lane. A route may go
round a circle and enter a lane a second time, so a record names a place and not a step, and
`RecordsFollowRoute` asks for a step of the route in order (`StandsFor`) at each record.
`AdjacentPoints` goes on from a sampled route: a sample is
selected by any index, `ParallelLanes` walks to both sides of the lane in its record, and
the lanes found are sampled at the record's offset. A sample on a lane change has the record
of the place where the lane change lands, so the points beside it lie up to a lane change
ahead of it; a snap point that was put in front may lie on a lane beside the route, and is
then one of its own adjacent points.

### Parallel lanes (ParallelLanes), lane numbers (LaneIds)

One action per iteration of the walk to the left and to the right with their shared
visited set. `LaneIds` adds one lane of a file at a time to the lane map, with the repeat
the importer refuses, and describes one lane as `describe_enu_position` does.

### OpenDRIVE import (LaneTopology)

`GenerateGeometry` and `convertToAdMap` from the first lane that is numbered to the stored
lane graph. One action numbers a lane (an action of `LaneIds`), draws the roads, connects
a road (neighbours and links, in the order of the file), checks a lane, joins the lanes of
an intersection, stores the map. The checks run over a hashed map, so lanes are checked in
any order, and junctions joined in any order. A file is a `drawing`: its lanes, types,
links and the corners of each lane, four integer points in units of half the tolerance of
`near()`; the code looks at no other points of a lane in these stages. `GoesOn`, `HeadOn`,
`SidesMatch` and `ContactPlace` are the tests of `checkAddSuccessor` and `contactPlace`;
a link that names a lane the map does not have is left out where the code looks for it
first, and ends the import where it does not (`CrashAtMissingLane`, see Findings).
`Mend` is one link in `checkLaneConsistency`, with the end that is moved and the neighbours
that move along; `InvertedWithNeighbors` is `invertLaneAndNeighbors`. `LaneGraph` is the
record the planner's modules have as a map, and `ForwardMovesMeet` asks `LaneMap`'s
`MayMove` about it.

### Library search and planning (LibraryLanes, RouteExpander, RouteAstar, FullRoute, RoutePlanning)

`RouteAstar` is `RouteAStar::calculate`: one step takes one cheapest point off the processing
map, closes it and relaxes the neighbours `RouteExpander` gives; of several with one
estimate it may be any. `LeastDistancesTo` is what a search is measured by: the least distance
to each point over as many steps as there are points, one step more at a time
(`OneStepMore`), with no order of points in it. `FullRoute` makes a route of the points, segment by segment, with
`appendRoadSegmentToRoute`. `RoutePlanning` has the requests: a list of destinations, the
matches of a list of points, the candidates of one point. A map gets the centre points,
the pace and the shift along the road of each lane in addition; `BIDIRECTIONAL` counts as
both directions here, as it does in the library and not in the scripts.

### Routes in use (Waypoints, RouteQueries, RouteOperation)

`Waypoints` and `RouteQueries` have the pure parts: finding a place on a route, cutting
there, the first lane change, a section. `RouteOperation` goes on from
`RoutePlanning`: a request is planned there, with all its searches, `TakePlan` takes its full route,
and then each operation that changes a route is an action, in any order. An extension of the
route is planned by one more search of `RouteAstar`, step by step, and merged at its end.

### Connection and bridge (CarlaConnection, CarlaBridge, BridgeCall)

`CarlaConnection` counts time in whole units: each call takes up to `Timeout` and the
simulator is ready in one period chosen at the start. `CarlaBridge` continues from there
with every call of `handle_get_objects` an action that may fail, in a world that may change
between two calls. `BridgeCall` is what the demo relies on: success only with a whole file.

### Demo and comparison route (DemoRun, ComparisonRoute)

`DemoRun` is `main` of `run_map_test.py` over several runs that share `temporary/`. Each call
is an action; each may raise; `Kill` ends the demo and its child at any time. The
get-objects process behaves as `BridgeCall` allows (which `CarlaBridge` is shown to
implement), the comparison process as `ComparisonRoute` has it. A file's content is told by
the run and the position it was made from, which is what the properties are about.

## 3. Runs

| run | what it shows | instance | states |
|---|---|---|---|
| `lane_path_search` | paths legal, settled costs final, implements `LanePath`: cheapest path or none when there is none (with its liveness) | every successor relation on three lanes with two length patterns, and a road of nine lanes with changes, a crossing, a shoulder and oncoming lanes; every query | 25 k |
| `route_builder` | never drives back, every failure one of two kinds, implements `LegalDrive` | seven lanes with or against the offsets, four length pairs, every path without a detour, offsets at the ends, the middle and about 95 % | 27 k |
| `route_planner` | every pair tried, best score returned, snap points on the route when they can be | two road lengths; points beside none, one or two lanes, shoulder and oncoming lanes among them | 2 k |
| `parallel_lanes` | the whole carriageway on mutual maps, the walks end | every road of four lanes by type and direction; every neighbour relation on three lanes | 11 k |
| `map_import` | no lane dropped but a repeat, numbers taken apart correctly; in the stored graph forward moves lead where the pavement goes on, links are answered, neighbours lie side by side and are mutual | bare files with lanes at the ends of each digit range; streets of two roads and two sections, drawn either way, shifted by 0, 1 or 3 half tolerances, with shoulders and lanes for both directions; the same streets without an outermost lane that links name, 40 of 48 of which end the import; intersections of three lanes straight on, diverging or merging, read in any order and direction | 182 k |
| `route_sampler` | no gap above the spacing, records follow the route, no step without a sample; the points found beside a sample are on all other lanes of the road, at the place the sample stands for | two lanes of a few spacings, below one, below the tolerance, with or against the offsets, a third lane and a shoulder beside them; a circle of two lanes; every sample asked about | 66 k |
| `carla_bridge` | connection in time, right objects, whole file on success, always ends | every period the simulator may be ready in; five objects, two actors, one change of the world | 277 k |
| `demo_run` | nothing stale is drawn, a completed run has drawn all, every run ends; nothing of a trace lost | three runs, two places, traces of four points on a line of three | 336 k |
| `route_planning` | the search finds a shortest way, raw routes go one way and the legs of a list follow each other, whichever destinations are left out, segments are linked, a plan keeps its ends, lane counts right, every step advances | eight roads with merges, splits, lanes for both directions and a broken contact; all requests between a few points | 66 k |
| `route_operation` | routes stay consistent; a shortened route begins at the vehicle; a cut has its length; sections stay on the route; no interval is turned; an extension goes on | five roads: lanes of unequal length side by side, a pocket lane, a lane that becomes two and one again, an intersection, traffic on the left and on the right, a broken contact; three starts, every destination ahead, two ways to make the full route; then any two calls | 71 k |
| `printed_ids` | *violated*: see finding 1 | bare files | |
| `lane_change` | *violated*: see finding 2 | as `route_operation`, one call | |

Why the bounds are enough. The search has no arithmetic but sums of lengths, so three
lanes with every successor relation contain every shape of loop, tie and detour of two
moves, and the road adds every kind of contact. The builder's choices depend on whether a
lane is shorter or longer than a lane change and on the 95 % mark, which the lengths and
offsets straddle. Two sides and four lanes contain every interruption of a walk, and three
lanes every ring. Three runs let a file of a killed run be met by one that fails before it
writes and then by one that completes. In the connection, the time allows for four
attempts that fail late and more that fail at once. The roads of `route_planning` are one per
hazard: a merge and a split where points have two predecessors, lanes for both directions
where the direction is guessed, a contact without its counterpart, neighbours of unequal
length. Two calls after a plan are the least in which one operation meets what another has
left, and a third adds no new kind of route. In `map_import` the lanes of an intersection
are three, the least in which turning one lane must take another along; roads have three
strips, so that a middle lane has neighbours that move on both sides. The proofs below
lift most of these bounds.

Two of the conditions in `map_import` are part of the properties. `ForwardMovesMeet` asks
that the links of the file join lanes of one way of driving, and leaves out lanes for both
directions. `NeighborsLieSideBySide` asks that no side of an intersection lane is a side of
two others: where lanes fork, the neighbour is the one that was read last, and is not
mutual (`GeometryGenerator.cpp:728`). With four lanes even the sides need not match: of two
lanes with one shape only one is turned with its neighbour. Linked ends need not coincide
after the check either: a lane end moved onto its successor takes the neighbour's corner
along, although that lane was fitted to its own successor before.

Deadlock checking is off where a call returns: the process is over. In `route_planning`
and `route_operation` it is on, the end being a step of its own, so a search that cannot
go on would be found.

### Findings

1. `printed_ids`: lanes of road 0 have numbers up to 9999, which
   `get_opendrive_lane_info` takes for foreign ones (`admap_route.py:616`), although its
   docstring says that it reverses the numbering. The maps that come with the repository
   have a road 0 with driving lanes.
2. `lane_change`: `findFirstLaneChange` hands out a lane change that is valid and leads from
   a lane to itself, when the lane to change to opens ahead of the vehicle; the comment at
   the return (`RouteOperation.cpp:1854`) and `RouteOperation.hpp:771` say that the result is
   invalid then.

Met while modelling, without a run. The models behave as the code does here:

* `admap_route.py:574`, `589`: no legal route is reported although the builder, not the
  search, gave up for want of room. `577`: the score compares snap distances before
  lengths, although the README promises the shortest route.
* `carla_bridge.py:142`: two objects with names that begin with the wanted one are
  reported as none. `271`: the message that the map is unavailable is printed although a
  second try got it. `carla_global_planner.py:88`: the error for a route of repeated points
  can never be raised. `run_map_test.py:197`: drawing the optional comparison route is not
  guarded as finding it is.
* `GeometryGenerator.cpp:862`, `922`: for lanes that meet head on the check counts the links
  at the wrong end of the other lane, so an end with several links may be moved, and one
  with a single link be reported; the comment at 819 says that one of the two has a single
  connection. The lanes without length that the check collects (`808`) are never deleted.
  `596`, `495`, `526`: only a predecessor on the same road is looked for before it is linked
  (`576`). A successor that is not in the map, or a lane of another road, is created as an
  empty lane, the first points of whose edges are then read, which ends the process
  (`CrashAtMissingLane`).
* `Planning.cpp:562`: the plan to a candidate that cannot be reached is empty, has length 0
  and wins. `393`: a destination on the lane of the one before replaces it and may lie
  behind the one before that. `928`: the filter of duplicated routes replaces the first of
  several only.
* `RouteAStar.cpp:197`: a shorter way keeps the duration of the old one.
* `Route.cpp:66`: on a ring of neighbours the walk to the rightmost lane does not end.
* `RouteOperation.cpp:2202`: an error in the middle leaves the opposing lanes added so far.
  `2186`: whether an opposing lane can be added is decided by where its point lies on the route, not
  by the lanes the segment has, so nothing there keeps a lane from being added to a segment that
  has it already.
  `331`-`353`: the neighbours of a section are named in the order of the old segment. `294`-`300`:
  the speed limits of a connecting route are read from the first route twice.
* `AdMapAccess.cpp:109`: a second load in one process is accepted or refused by the checksum
  kept from the first.

### Fairness

The planner is sequential code: a call that has started goes on until it returns, so weak
fairness of its next-state relation is all that is assumed (`LanePathSearch`,
`RouteBuilder`, `ParallelLanes`). In `CarlaBridge` and `DemoRun` it is weak fairness of the
process's own steps, a failing call being one of them: the CARLA client ends every call
by its timeout, and the demo waits for processes that end. Nothing is assumed of the world, the
user, or of the time a call takes. The import and the library modules state none: each of
their loops runs over a finite set that shrinks (`todo`, the points not yet closed), which
`SearchesAdvance` states for the search as an action property that is proved, and the
deadlock check shows that each of them goes on to its end.

## 4. Proofs

`tlapm` checks every leaf; nothing is assumed but the named assumptions of the modules:
`Scale` and `Penalty` positive numbers, maps as `IsLaneMap` describes them, queries and
tasks on lanes of the map, finitely many lanes, matches that lie on lanes and have natural
distances, lane centres that are pairs of integers, times natural numbers, nearness and the
test of a name's beginning reflexive, lanes of a file within the digits of a number, library
requests between points of the map with a natural limit of distance, positions of a vehicle
that are lists of places on lanes of the map, natural distances to cut a route to. Each is the weakest form
the code or the library guarantees, and TLC evaluates each on the instance of a run.

The proofs need facts about sequences and least elements by induction, which they take from
the well-foundedness of `<` (`LeastNatural`: a set of naturals that is not empty has a least
element) and look at the first place where a claim fails.

* **LanePathSearchProofs.** `TypeCorrect`; `SettledCostsFinal`; `NoPathJustified`;
  `CostCertified`; `PathsLegal`; and `ReturnsAreOptimal`, that a returned path costs no more
  than *any* legal path of any length. The properties are not inductive: that a settled
  key is never improved needs that the heap holds an entry with the best cost for every
  unsettled key (`HeapInv`), that no entry is cheaper than a settled key (`SettledInv`), that
  every contact of a settled key was relaxed, up to the cursor (`RelaxedInv`), and that a
  goal key that was settled has ended the search (`GoalInv`). Optimality then follows by
  looking at the first key of a cheaper path that is not settled. `AnswersAsLanePath` is the
  safety half of the refinement: the search starts as `LanePath` does and each of its steps is
  one of `LanePath` or a stutter. It needs that a path in the heap enters no lane twice after
  its start (`PathsEnterNew`), so that it is one of the paths `LanePath` chooses among, and that
  each of those is one of the drives `ReturnsAreOptimal` compares with
  (`LegalPathsAreDrives`).
* **RouteSamplerProofs.** Of the builder: `BuilderTypeCorrect`, `UnbrokenRoute`, `NoStepBack`,
  `GivingUpExplained`, `LastChangesLateral`, and `RouteIsLegalDrive`: every step of the builder
  is a step of `LegalDrive` or a stutter. The invariant says where the current offset
  comes from (`PlaceExplained`): the start, the travel start of a lane, or the end of a lane
  change that moved forward; a chain of lemmas about rounding shows that a change computed
  from such a place stays on the lane and does not run back. Of the sampler, for every
  route the builder can make: `RecordsFollow` (the records of the samples stand for places
  along the route in its order) and `StepsSampled` (no step is without a sample). The
  invariant `SamplerInv` says that there is a record for each point (`Recorded`), which steps
  the records were made for, in order (`RecordsPlaced`), how far the sampler is (`Sampling`),
  and that the finished route is built along the lanes of its path (`BuiltAlong`).
* **RoutePlannerProofs.** `BestRouteReturned`: the route returned has the best score of *all*
  pairs that led to one, and there is none only when no pair did; every pair was tried.
  `SnapPointsKept`: when the first pair led to a route and no other pair is as near, the
  route is the one between the snap points that are handed back with it.
  `BuilderIsAskedRight`: each call of the builder meets what the builder's theorems assume,
  so they hold for the planner's routes. `PlannerInv` has the state of the builder while it
  runs (`BuilderInv`), which pairs have an outcome and with which score (`OutcomesInv`), and
  that none of them is better than the best so far (`BestInv`).
* **ParallelLanesProofs.** `WalksTypeCorrect`, `LanesReturnedOnce` for every map, mutual
  neighbours or not, and `CarriagewayFound`: on mutual maps the result is the smallest set
  closed under neighbourhood. The invariant has the bookkeeping of the lists and the
  visited set, that every visited lane is needed, and which ends are closed.
* **LaneIdsProofs.** `LaneIdsTypeCorrect`, `OnlyRepeatsDropped`, `LaneDescribed`, from the
  lemma that `LaneId` is injective on lanes within the digits and `Info` its inverse.
* **CarlaBridgeProofs.** `GiveUpBounded` and `ReadyFound` for every timeout: the invariant
  `Clock` bounds the time at each place of the loop, `Progress` says how far an attempt can
  be while the simulator is ready. `PositionsAreOfTheNamed` for every world and every change
  of it between two calls: what is written for the start is an object or actor named as the
  start, and likewise for the goal. `BridgeCallKept`: the bridge implements `BridgeCall`,
  on which the demo relies.
* **DemoRunProofs.** For any number of runs, kills and failures: `NothingStaleIsDrawn` (what
  is drawn was made in the same run, from the positions this run read) and
  `CompletedRunHasDrawn`. `DemoInv` says, for each place in the run, which files are of this
  run (`FilesAreNew`), that the positions in use are (`PositionsAreNew`), and what was drawn up
  to there (`DrawnSoFar`). Of the comparison route, for every trace and every reflexive
  notion of nearness: `ComparisonTypeCorrect`, `NeighboursApart`, `TraceCovered`; the
  invariant adds that the first point is kept (`FirstKept`).
* **RouteOperationProofs**, of the searches. For every finite map and every request, over all the searches of a
  planning call: `SearchesStayOnTheMap` (types), `WaysLeadBack` (every point that is open or
  closed is a start or was entered from a closed point it is a neighbour of, so a
  reconstructed route is a way on the map), `PointsAreClosedForGood`, and `EveryStepAdvances`:
  each step closes a point, ends a search or moves to the next leg. As the points of a
  map are finitely many and closed for good, every planning call ends. The invariant
  `PlanningInv` joins the types, `EveryPointWasEntered`, that no point is open and closed at
  once, and that a new search starts with nothing left of the one before (`Cleared`).
  `FoundRouteIsOneWay`: the points of a route that was found are steps from a start to the
  destination, and its distance is what they cost; and of a list of destinations each leg
  starts where the one before it ended, to a later destination of the list, whichever ones
  were left out between. `LegsInv` says for the latter where the search at hand starts and
  which destination it is for. `WaysInv` adds that some
  distance of each point explains the search (`PricedBy`): it rises along `cameFrom`.
  `FoundRouteIsShortest` is the correctness of A*: a route that was found is a shortest one,
  and none was found only where there is none. `FrontierInv` says of the same distances that
  estimates are kept, that no closed point is estimated behind an open one (`Ordered`), that
  all neighbours of a closed point are known and no nearer through it (`Explored`), and that
  the limit of distance allowed the points on the way to be expanded; the first point of a
  shorter way that is not closed then contradicts the choice of the cheapest.
  The theorem has two premises, because the code is right only under them. `EndsMeet`: a lane
  begins within `MinDistance` of where the one before it ends; the library charges a step
  from lane to lane `MinDistance`, so across a larger gap the straight line would be an
  overestimate. `DurationsInLimit`: no way to an open point takes as long as the limit; an
  expansion is refused by duration, which belongs to whichever way came first and is not
  renewed (`RouteAStar.cpp:197`). `RoadsMeet` evaluates the first on the roads of
  `route_planning`; both, added to its invariants, hold in each of its states.
* **RouteOperationProofs**, of the routes in use. `RoutesStayConsistent`: for every finite map,
  mutual contacts or not, every request and every number of calls in any order,
  `RouteIsConsistent` holds: the error "Route inconsistent" is never thrown, which
  `RouteOperation.cpp` looks for in several places because every operation changes the lists of
  lanes and the names in them separately. The invariant `DriveInv` says that the routes of
  all plans (`PlansAreTied`) and the route in use (`RouteIsTied`) are tied, and keeps what the
  proofs of the search need of the searches that plan and extend them (`SearchIsSound`). A list of
  segments is `Tied` when the lanes of each segment name those beside them (`SideBySide`), two segments that follow each other name each other both ways (`Joined`), and
  nothing is named before the first and after the last (`Begins`, `Ends`). That is more than
  `RouteIsConsistent` says, which is what makes it inductive: a segment that is cut off, or a
  lane dropped from one, leaves the rest tied only because names go both ways. There is a
  lemma for each thing the operations do to a list: making a row of neighbours, joining a
  row to the one before it, dropping rows and lanes with `MakeConsistent`, moving ends of intervals,
  adding a lane at the outer side. The folds of `FullRoute` and `RouteOperation` are recursive
  functions over the lists; that every value of theirs is tied is shown by looking at the first
  that would not be.
  On the same invariant rest three more. `PlansLinkBothWays`: in every plan two segments that follow
  each other name each other both ways, with no premise, on any map. `ExtensionsKeepTheWay`:
  `extendRouteToDestinations` leaves every segment but the last with its lanes and intervals; the
  segment it takes off and puts back is the last one, and aligning reaches no further.
  `ShortenedRoutesBeginAtVehicle`: cut where the vehicle is, a route is not empty and begins
  there. The waypoint that is found has the point's lane; `CutAt` moves the begin of that lane's
  interval to the point; the lane is not used up by it, so the segment stays; aligning the begins of
  the lanes beside it leaves the lane it starts from alone.

  `RoutesStayConsistent` and the last two have one premise, `OpposingLanesAreNew`. `addOpposingLaneToRoute` looks at where its point lies on the
  route and not at the lanes a segment has (`RouteOperation.cpp:2186`), so on a map on which the two
  disagree it could add a lane twice, and the rows would name it on both sides. Added to the
  invariants of `route_operation`, the premise holds in each of its states.

Model-checked only:

* liveness (`Terminates`, `Ends`, `RunsEnd`, and the fairness part of `ImplementsLanePath` and
  `ImplementsLegalDrive`), which needs `ENABLED` and is out of the prover's reach;
* `NoGaps` and `AdjacentPointsAreBeside`, which rest on the geometry of lane centres: what
  `Centre` gives between the places that were looked at is known of the instance only, and
  the second combines the samples with the walks of an instance of `ParallelLanes`, whose
  theorems tlapm cannot apply to an instance;
* `PlanKeepsItsEnds`, `OffsetsCountLanes` and of `SegmentsAreLinked` that a link exists (that links
  go both ways is proved). They hold only of maps whose neighbours and links are mutual and do not
  cross; `OneNeighborEachSide` is enough for the maps of the runs and not for every map, and the
  weakest conditions on a map that carry them through changes of lane are not worked out;
* `CutRouteHasItsLength` and `SectionStaysOnRoute`, which relate the outcome of an operation to
  lengths and intervals along the whole route: they hold of roads where nothing is rounded and
  lanes meet at their ends, and need sums along a list of segments; `NoIntervalIsReversed`, which
  needs an order on the intervals that only plans between points of this kind have, and of
  `ExtendedRouteGoesOn` what comes after the way that is kept: it needs the ends of plans;
* `ForwardMovesMeet`, `LinksAreAnswered` and `NeighborsLieSideBySide` of the import: they hold of
  drawings whose links agree with their geometry, and the conditions on a drawing that would
  carry an invariant through turning and mending lanes are not worked out.

## 5. Abstractions and what is not modelled

* Numbers are integers: offsets, lengths and positions in fixed units, divisions rounded
  down. Floating-point error is not modelled; comparisons in the code have tolerances
  that are finer than a unit here.
* Map matching, curve geometry and lane centres are inputs.
* Texts, colours, logging and CARLA's reversed y axis are left out. Messages are modelled
  where a property is about them.
* Distances in the library modules are integers on a grid, its operations round down where
  the code divides; the properties about lengths are stated for lanes where nothing is
  rounded (`IsEven`).
* A lane's border in the import is its four corners. Overlaps, signals, speeds and the
  contacts landmarks give are left out.
* Not modelled, with the reason in `PROJECT.json`: the OpenDRIVE parser and the sampling of
  curves; the library's route prediction and what is built on it (merging and connecting
  routes, extending a route to a distance, the filter of duplicates); bypassing routes,
  para points, borders, durations and speed limits of routes; intersections, landmarks
  and restrictions; matching; serialisation, projections, map tools and bindings. The
  vendored libraries (PROJ4 above all) and numerical geometry have no states a finite
  model would tell apart, and they are the greater part of the lines of the repository.

## 6. Plan

Done: lane map, search, builder, planner, parallel lanes, lane numbers, the import,
sampling, the points beside a route, connection, bridge, comparison route, demo; the library's search, planning and
operations on routes. Proofs for all of them but the import; of the full route and the
operations on it, that the names in a route stay consistent and go both ways, that an
extension keeps the way before it, and that a shortened route begins at the vehicle.

Next, in this order:

1. `RoutePrediction`: the tree of routes ahead of a vehicle, and `extendRouteToDistance`,
   merging and connecting routes, which rest on it.
2. Map lifecycle (`load_xodr_map`, `close_map`, `AdMapAccess`): what a second load may meet.
3. Proofs: the conditions on a map under which `SegmentsAreLinked`, `PlanKeepsItsEnds` and
   `OffsetsCountLanes` hold of every plan, on the lemmas about `FullRoute`'s rows that
   `RouteOperationProofs` has; the properties of `RouteOperation` about lengths; `LinksAreAnswered` of the import for drawings whose links go with their
   geometry; `NoGaps` of the sampler.
4. `draw-route` in detail.
