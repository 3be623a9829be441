----------------------------- MODULE CarlaBridge -----------------------------
(***************************************************************************)
(* The get-objects command of scripts/carla_bridge.py (handle_get_objects): *)
(* connects to the simulator as CarlaConnection has it, finds the start and *)
(* the goal object in its world, and writes their positions to a file.     *)
(*                                                                         *)
(* Every call to the simulator may fail, and the world may change between   *)
(* two of them.  A name is a record of its text as clean_name leaves it    *)
(* (lower case, without blanks around it and without a final _sm_<number>)  *)
(* and of what clean_name takes off.                                       *)
(***************************************************************************)
EXTENDS CarlaConnection, FiniteSets

CONSTANTS Objects,           \* the environment objects there may be
          Actors,            \* the actors there may be
          ObjectName(_),     \* the name of an environment object
          ActorNames(_),     \* id, role_name, name and type_id of an actor
          StartsWith(_, _),  \* startswith, on cleaned names
          NameOf(_),         \* start_name and goal_name
          MaxChanges         \* bound on the changes of the world

ASSUME BridgeAssumption ==
  /\ MaxChanges \in Nat
  /\ \A o \in Objects : StartsWith(ObjectName(o).text, ObjectName(o).text)

VARIABLES objects, actors, changes,   \* the simulator's world
          pc, output, error,
          map,       \* what try_get_world_map gave handle_get_objects
          mapUsed,   \* the world_map get_start_and_goal works with
          role,      \* the object that is looked for
          pool,      \* the environment objects as find_object read them
          found,     \* what find_object returned
          hasRoad,   \* whether object_to_dict added a road and a lane
          message    \* what is printed about the map

simulator == <<objects, actors, changes, connection>>
landmarks == <<role, pool, found, hasRoad>>
vars == <<simulator, pc, output, error, map, mapUsed, landmarks, message>>

Roles == {"start", "goal"}
None == "none"
MapAnswers == {"available", "unavailable"}
Calls == {"connect", "map", "landmarks", "objects", "actors", "describe", "draw",
          "open", "write", "report"}

CleanName(name) == name.text

Exact(objs, wanted) == { o \in objs : CleanName(ObjectName(o)) = wanted }
Prefixed(objs, wanted) == { o \in objs : StartsWith(CleanName(ObjectName(o)), wanted) }
Named(acts, wanted) == { a \in acts : \E n \in ActorNames(a) : CleanName(n) = wanted }

-----------------------------------------------------------------------------
Init ==
  /\ ConnectionInit
  /\ objects = {}
  /\ actors = {}
  /\ changes = 0
  /\ pc = "connect"
  /\ output = "old"
  /\ error = None
  /\ map = None
  /\ mapUsed = None
  /\ role = "start"
  /\ pool = {}
  /\ found = [r \in Roles |-> None]
  /\ hasRoad = [r \in Roles |-> FALSE]
  /\ message = None

\* Levels are loaded, actors come and go.  What they did before the connection
\* is told by the world that is found then, and what they do after the end of
\* the process nobody sees.
WorldChanges ==
  /\ pc \in Calls \ {"connect"}
  /\ changes < MaxChanges
  /\ objects' \in SUBSET Objects
  /\ actors' \in SUBSET Actors
  /\ changes' = changes + 1
  /\ UNCHANGED <<connection, pc, output, error, map, mapUsed, landmarks, message>>

Stop(why) ==
  /\ pc' = "failed"
  /\ error' = why

\* The simulator does not answer, or the process is ended.
CallFails ==
  /\ pc \in Calls
  /\ Stop("call")
  /\ UNCHANGED <<simulator, output, map, mapUsed, landmarks, message>>

Connecting ==
  /\ pc = "connect"
  /\ ConnectionNext
  /\ UNCHANGED <<objects, actors, changes>>
  /\ UNCHANGED <<pc, output, error, map, mapUsed, landmarks, message>>

\* The clock is read no more.
Connected ==
  /\ pc = "connect"
  /\ loop = "connected"
  /\ pc' = "map"
  /\ objects' \in SUBSET Objects
  /\ actors' \in SUBSET Actors
  /\ now' = 0
  /\ readyFrom' = 0
  /\ readyUntil' = 0
  /\ UNCHANGED <<loop, changes, output, error, map, mapUsed, landmarks, message>>

ConnectionTimedOut ==
  /\ pc = "connect"
  /\ loop = "timed_out"
  /\ Stop("timed out")
  /\ UNCHANGED <<simulator, output, map, mapUsed, landmarks, message>>

\* try_get_world_map turns a failure into no map.
GetMap ==
  /\ pc = "map"
  /\ map' \in MapAnswers
  /\ pc' = "landmarks"
  /\ UNCHANGED <<simulator, output, error, mapUsed, landmarks, message>>

\* get_start_and_goal asks once more when it was given no map.
StartLandmarks ==
  /\ pc = "landmarks"
  /\ IF map = "available" THEN mapUsed' = map ELSE mapUsed' \in MapAnswers
  /\ pc' = "objects"
  /\ UNCHANGED <<simulator, output, error, map, landmarks, message>>

Take(item) ==
  /\ found' = [found EXCEPT ![role] = item]
  /\ pc' = "describe"
  /\ UNCHANGED error

\* Mutant: the goal is looked for under the name of the start.
FindStartObject ==
  LET exact == Exact(objects, NameOf("start")) IN
  /\ pc = "objects"
  /\ pool' = objects
  /\ \/ Cardinality(exact) = 1 /\ \E o \in exact : Take(o)
     \/ Cardinality(exact) # 1 /\ pc' = "actors" /\ UNCHANGED <<error, found>>
  /\ UNCHANGED <<simulator, output, map, mapUsed, role, hasRoad, message>>

\* find_object, as far as it goes without the actors.
FindObject ==
  LET exact == Exact(objects, NameOf(role))
      prefixed == Prefixed(objects, NameOf(role))
  IN
  /\ pc = "objects"
  /\ pool' = objects
  /\ \/ Cardinality(exact) = 1 /\ \E o \in exact : Take(o)
     \/ Cardinality(exact) > 1 /\ Stop("several objects") /\ UNCHANGED found
     \/ exact = {} /\ Cardinality(prefixed) = 1 /\ \E o \in prefixed : Take(o)
     \/ exact = {} /\ Cardinality(prefixed) # 1 /\ pc' = "actors" /\ UNCHANGED <<error, found>>
  /\ UNCHANGED <<simulator, output, map, mapUsed, role, hasRoad, message>>

\* Mutant: a missing object is waited for.
FindActorForever ==
  LET named == Named(actors, NameOf(role)) IN
  /\ pc = "actors"
  /\ \/ Cardinality(named) = 1 /\ \E a \in named : Take(a)
     \/ Cardinality(named) > 1 /\ Stop("several actors") /\ UNCHANGED found
     \/ named = {} /\ pc' = "objects" /\ UNCHANGED <<error, found>>
  /\ UNCHANGED <<simulator, output, map, mapUsed, role, pool, hasRoad, message>>

\* find_actor, and the end of find_object.
FindActor ==
  LET named == Named(actors, NameOf(role)) IN
  /\ pc = "actors"
  /\ \/ Cardinality(named) = 1 /\ \E a \in named : Take(a)
     \/ Cardinality(named) > 1 /\ Stop("several actors") /\ UNCHANGED found
     \/ named = {} /\ Stop("not found") /\ UNCHANGED found
  /\ UNCHANGED <<simulator, output, map, mapUsed, role, pool, hasRoad, message>>

\* object_to_dict: with a map, the road and lane at the place of the object are
\* added, if there are any.
Describe ==
  /\ pc = "describe"
  /\ \E r \in IF mapUsed = "available" THEN BOOLEAN ELSE {FALSE} :
        hasRoad' = [hasRoad EXCEPT ![role] = r]
  /\ IF role = "start" THEN role' = "goal" /\ pc' = "objects"
     ELSE pc' = "draw" /\ UNCHANGED role
  /\ UNCHANGED <<simulator, output, error, map, mapUsed, pool, found, message>>

Draw ==
  /\ pc = "draw"
  /\ pc' = "open"
  /\ UNCHANGED <<simulator, output, error, map, mapUsed, landmarks, message>>

OpenOutput ==
  /\ pc = "open"
  /\ output' = "partial"
  /\ pc' = "write"
  /\ UNCHANGED <<simulator, error, map, mapUsed, landmarks, message>>

\* Mutant: a write that was cut short is taken for done.
WriteOutputLazily ==
  /\ pc = "write"
  /\ output' \in {"partial", "whole"}
  /\ pc' = "report"
  /\ UNCHANGED <<simulator, error, map, mapUsed, landmarks, message>>

WriteOutput ==
  /\ pc = "write"
  /\ output' = "whole"
  /\ pc' = "report"
  /\ UNCHANGED <<simulator, error, map, mapUsed, landmarks, message>>

Report ==
  /\ pc = "report"
  /\ message' = IF map = "available" THEN "map name" ELSE "using object positions only"
  /\ pc' = "succeeded"
  /\ UNCHANGED <<simulator, output, error, map, mapUsed, landmarks>>

Step ==
  \/ Connecting
  \/ Connected
  \/ ConnectionTimedOut
  \/ GetMap
  \/ StartLandmarks
  \/ FindObject
  \/ FindActor
  \/ Describe
  \/ Draw
  \/ OpenOutput
  \/ WriteOutput
  \/ Report

Next == Step \/ CallFails \/ WorldChanges

Spec == Init /\ [][Next]_vars

\* The process goes on: every call to the simulator ends by its timeout.
FairSpec == Spec /\ WF_vars(Step \/ CallFails)

-----------------------------------------------------------------------------

\* What is written as the start is named as the start, and the goal as the
\* goal, whatever the world did while they were looked for.
PositionsOfTheNamed ==
  output = "whole" =>
    \A r \in Roles :
       \/ found[r] \in Prefixed(Objects, NameOf(r))
       \/ found[r] \in Named(Actors, NameOf(r))

\* Seen from the demo, the process keeps the promise of a bridge call: it
\* succeeds only with a whole file.
Call == INSTANCE BridgeCall WITH
  status <- IF pc \in {"succeeded", "failed"} THEN pc ELSE "running",
  output <- output

ImplementsBridgeCall == Call!Spec

\* The process ends, whatever the simulator does.
Ends == <>(pc \in {"succeeded", "failed"})
=============================================================================
