-------------------------- MODULE CarlaBridgeProofs --------------------------
(***************************************************************************)
(* Theorems about CarlaBridge and CarlaConnection, for every timeout and    *)
(* interval, any objects, actors and names, and a world that changes as     *)
(* often as it likes.                                                       *)
(***************************************************************************)
EXTENDS CarlaBridge, TLAPS

-----------------------------------------------------------------------------
(* The connection.                                                           *)

\* The loop stays at one of its calls, at a time.
LEMMA ConnectionStaysTyped ==
  ASSUME ConnectionTypeOK, [ConnectionNext]_connection
  PROVE  ConnectionTypeOK'
BY ConnectionAssumption
DEF ConnectionTypeOK, ConnectionNext, connection, Ended, StartAttempt, GiveUp, Answered, Failed, Wait

\* How far the clock can be at each place of the loop: it is looked at only at
\* the top, and each call adds at most its timeout.
Clock ==
  /\ loop = "get_world" => now < ReadyTimeout
  /\ loop = "get_actors" => now < ReadyTimeout + Timeout
  /\ loop = "sleep" => now < ReadyTimeout + 2 * Timeout
  /\ loop = "check" => \/ now = 0
                     \/ now < ReadyTimeout + 2 * Timeout + RetryInterval

LEMMA ClockStaysBounded ==
  ASSUME ConnectionTypeOK, Clock, GivesUpInTime, [ConnectionNext]_connection
  PROVE  Clock' /\ GivesUpInTime'
<1> USE ConnectionAssumption
<1>1. CASE StartAttempt
  BY <1>1 DEF StartAttempt, ConnectionTypeOK, Clock, GivesUpInTime
<1>2. CASE GiveUp
  BY <1>2 DEF GiveUp, ConnectionTypeOK, Clock, GivesUpInTime
<1>3. CASE Answered("get_world", "get_actors")
  BY <1>3 DEF Answered, ConnectionTypeOK, Clock, GivesUpInTime
<1>4. CASE Answered("get_actors", "connected")
  BY <1>4 DEF Answered, ConnectionTypeOK, Clock, GivesUpInTime
<1>5. CASE Failed("get_world")
  BY <1>5 DEF Failed, ConnectionTypeOK, Clock, GivesUpInTime
<1>6. CASE Failed("get_actors")
  BY <1>6 DEF Failed, ConnectionTypeOK, Clock, GivesUpInTime
<1>7. CASE Wait
  BY <1>7 DEF Wait, ConnectionTypeOK, Clock, GivesUpInTime
<1>8. CASE UNCHANGED connection
  BY <1>8 DEF connection, Clock, GivesUpInTime
<1> QED
  BY <1>1, <1>2, <1>3, <1>4, <1>5, <1>6, <1>7, <1>8 DEF ConnectionNext

\* While the simulator is ready long enough, an attempt starts less than a call
\* and an interval after it became ready: only an attempt that started before
\* can fail.
Progress ==
  ReadyLongEnough =>
    /\ loop = "check" => now < readyFrom + Timeout + RetryInterval
    /\ loop = "get_world" => now < readyFrom + Timeout + RetryInterval
    /\ loop = "get_actors" => now < readyFrom + 2 * Timeout + RetryInterval
    /\ loop = "sleep" => now < readyFrom + Timeout

LEMMA AttemptsProgress ==
  ASSUME ConnectionTypeOK, Progress, ReadyServerIsFound, [ConnectionNext]_connection
  PROVE  Progress' /\ ReadyServerIsFound'
<1> USE ConnectionAssumption
    DEF ConnectionTypeOK, Progress, ReadyServerIsFound, ReadyLongEnough
<1>1. CASE StartAttempt
  BY <1>1 DEF StartAttempt
<1>2. CASE GiveUp
  BY <1>2 DEF GiveUp
<1>3. CASE Answered("get_world", "get_actors")
  BY <1>3 DEF Answered
<1>4. CASE Answered("get_actors", "connected")
  BY <1>4 DEF Answered
<1>5. CASE Failed("get_world")
  BY <1>5 DEF Failed, ReadyThroughout
<1>6. CASE Failed("get_actors")
  BY <1>6 DEF Failed, ReadyThroughout
<1>7. CASE Wait
  BY <1>7 DEF Wait
<1>8. CASE UNCHANGED connection
  BY <1>8 DEF connection
<1> QED
  BY <1>1, <1>2, <1>3, <1>4, <1>5, <1>6, <1>7, <1>8 DEF ConnectionNext

ConnectionInv ==
  ConnectionTypeOK /\ Clock /\ GivesUpInTime /\ Progress /\ ReadyServerIsFound

LEMMA ConnectionStarts == ConnectionInit => ConnectionInv
BY ConnectionAssumption
DEF ConnectionInit, ConnectionInv, ConnectionTypeOK, Ended, Clock, GivesUpInTime, Progress,
    ReadyServerIsFound, ReadyLongEnough

LEMMA ConnectionGoesOn ==
  ASSUME ConnectionInv, [ConnectionNext]_connection
  PROVE  ConnectionInv'
BY ConnectionStaysTyped, ClockStaysBounded, AttemptsProgress DEF ConnectionInv

\* The connection keeps this as a part of get-objects, which puts the clock back
\* when it is read no more.
LEMMA BridgeConnects == Spec => []ConnectionInv
<1>1. Init => ConnectionInv
  BY ConnectionStarts DEF Init
<1>2. ASSUME ConnectionInv, [Next]_vars PROVE ConnectionInv'
  <2>1. CASE Connecting
    BY <1>2, <2>1, ConnectionGoesOn DEF Connecting
  <2>2. CASE Connected
    <3>1. now' = 0 /\ readyFrom' = 0 /\ readyUntil' = 0 /\ loop' = "connected"
      BY <2>2 DEF Connected
    <3> QED
      BY <3>1 DEF ConnectionInv, ConnectionTypeOK, Ended, Clock, GivesUpInTime, Progress,
                  ReadyServerIsFound
  <2>3. CASE UNCHANGED connection
    BY <1>2, <2>3, ConnectionGoesOn
  <2>4. Connecting \/ Connected \/ UNCHANGED connection
    BY <1>2 DEF Next, Step, ConnectionTimedOut, GetMap, StartLandmarks, FindObject, FindActor,
       Describe, Draw, OpenOutput, WriteOutput, Report, CallFails, WorldChanges, simulator, vars
  <2> QED
    BY <2>1, <2>2, <2>3, <2>4
<1> QED
  BY <1>1, <1>2, PTL DEF Spec

\* The loop is always at one of its calls, at a time.
THEOREM ConnectionTypeCorrect == Spec => []ConnectionTypeOK
<1>1. ConnectionInv => ConnectionTypeOK
  BY DEF ConnectionInv
<1> QED
  BY <1>1, BridgeConnects, PTL

\* The error "Timed out after ..." comes less than one attempt, two calls and
\* an interval, after the time is over.
THEOREM GiveUpBounded == Spec => []GivesUpInTime
<1>1. ConnectionInv => GivesUpInTime
  BY DEF ConnectionInv
<1> QED
  BY <1>1, BridgeConnects, PTL

\* No timeout is reported though the simulator has been ready for three calls
\* and an interval, and was so a call and an interval before the time was over.
THEOREM ReadyFound == Spec => []ReadyServerIsFound
<1>1. ConnectionInv => ReadyServerIsFound
  BY DEF ConnectionInv
<1> QED
  BY <1>1, BridgeConnects, PTL

-----------------------------------------------------------------------------
(* The positions.                                                            *)

\* What was found for a role has its name, whether it is an object or an actor.
NamedAs(r) ==
  \/ found[r] \in Prefixed(Objects, NameOf(r))
  \/ found[r] \in Named(Actors, NameOf(r))

\* Where the process is, and what it has found and written by then.
BridgeInv ==
  /\ objects \subseteq Objects
  /\ actors \subseteq Actors
  /\ DOMAIN found = Roles
  /\ pc \in Calls \cup {"succeeded", "failed"}
  /\ role \in Roles
  /\ role = "goal" => NamedAs("start")
  /\ pc = "describe" => NamedAs(role)
  /\ pc \in {"draw", "open", "write", "report", "succeeded"} => role = "goal" /\ NamedAs("goal")
  /\ pc \in Calls \ {"write", "report"} => output = "old"
  /\ pc = "write" => output = "partial"
  /\ pc \in {"report", "succeeded"} => output = "whole"
  /\ output = "whole" => NamedAs("start") /\ NamedAs("goal")

LEMMA BridgeStarts == Init => BridgeInv
BY DEF Init, BridgeInv, Roles, None, Calls

\* A step that fails leaves the invariant: there is no more to find.
LEMMA StopKeepsWhatIsFound ==
  ASSUME BridgeInv, NEW why, Stop(why), pc \in Calls,
         UNCHANGED <<objects, actors, found, role, output>>
  PROVE  BridgeInv'
BY DEF BridgeInv, Stop, NamedAs, Calls, Roles

\* Taking an object with the right name, while nothing is written.
LEMMA TakeFindsNamed ==
  ASSUME BridgeInv, NEW item, Take(item), pc \in {"objects", "actors"},
         \/ item \in Prefixed(Objects, NameOf(role))
         \/ item \in Named(Actors, NameOf(role)),
         UNCHANGED <<objects, actors, role, output>>
  PROVE  BridgeInv'
<1>1. /\ found' = [found EXCEPT ![role] = item]
      /\ pc' = "describe"
      /\ output = "old" /\ role \in Roles
  BY DEF Take, BridgeInv, Calls
<1>2. NamedAs(role)'
  BY <1>1 DEF NamedAs, BridgeInv
<1>3. role = "goal" => NamedAs("start")'
  BY <1>1 DEF NamedAs, BridgeInv
<1> QED
  BY <1>1, <1>2, <1>3 DEF BridgeInv, Calls, Roles

\* The exact match is a match of the beginning too.
LEMMA ExactIsPrefixed ==
  ASSUME objects \subseteq Objects, NEW wanted
  PROVE  /\ Exact(objects, wanted) \subseteq Prefixed(Objects, wanted)
         /\ Prefixed(objects, wanted) \subseteq Prefixed(Objects, wanted)
BY BridgeAssumption DEF Exact, Prefixed, CleanName

\* Each step of get-objects keeps the invariant.
LEMMA BridgeGoesOn ==
  ASSUME BridgeInv, [Next]_vars
  PROVE  BridgeInv'
<1> USE DEF simulator, landmarks
<1>1. CASE WorldChanges
  BY <1>1 DEF WorldChanges, BridgeInv, NamedAs, Calls, Roles
<1>2. CASE CallFails
  BY <1>2, StopKeepsWhatIsFound DEF CallFails
<1>3. CASE Connecting
  BY <1>3 DEF Connecting, BridgeInv, NamedAs, Calls, Roles
<1>4. CASE Connected
  BY <1>4 DEF Connected, BridgeInv, NamedAs, Calls, Roles
<1>5. CASE ConnectionTimedOut
  BY <1>5, StopKeepsWhatIsFound DEF ConnectionTimedOut, Calls
<1>6. CASE GetMap
  BY <1>6 DEF GetMap, BridgeInv, NamedAs, Calls, Roles
<1>7. CASE StartLandmarks
  BY <1>7 DEF StartLandmarks, BridgeInv, NamedAs, Calls, Roles
<1>8. CASE FindObject
  <2>1. /\ pc = "objects"
        /\ UNCHANGED <<objects, actors, output, role>>
    BY <1>8 DEF FindObject
  <2>2. ASSUME NEW o \in Exact(objects, NameOf(role)) \cup Prefixed(objects, NameOf(role)), Take(o)
        PROVE  BridgeInv'
    <3>1. o \in Prefixed(Objects, NameOf(role))
      BY <2>2, ExactIsPrefixed DEF BridgeInv
    <3> QED
      BY <2>1, <2>2, <3>1, TakeFindsNamed
  <2>3. CASE Stop("several objects") /\ UNCHANGED found
    BY <2>1, <2>3, StopKeepsWhatIsFound DEF Calls
  <2>4. CASE pc' = "actors" /\ UNCHANGED <<error, found>>
    BY <2>1, <2>4 DEF BridgeInv, NamedAs, Calls, Roles
  <2> QED
    BY <1>8, <2>2, <2>3, <2>4 DEF FindObject
<1>9. CASE FindActor
  <2>1. /\ pc = "actors"
        /\ UNCHANGED <<objects, actors, output, role>>
    BY <1>9 DEF FindActor
  <2>2. ASSUME NEW a \in Named(actors, NameOf(role)), Take(a)
        PROVE  BridgeInv'
    <3>1. a \in Named(Actors, NameOf(role))
      BY <2>2 DEF Named, BridgeInv
    <3> QED
      BY <2>1, <2>2, <3>1, TakeFindsNamed
  <2>3. ASSUME NEW why, Stop(why), UNCHANGED found
        PROVE  BridgeInv'
    BY <2>1, <2>3, StopKeepsWhatIsFound DEF Calls
  <2> QED
    BY <1>9, <2>2, <2>3 DEF FindActor
<1>10. CASE Describe
  BY <1>10 DEF Describe, BridgeInv, NamedAs, Calls, Roles
<1>11. CASE Draw
  BY <1>11 DEF Draw, BridgeInv, NamedAs, Calls, Roles
<1>12. CASE OpenOutput
  BY <1>12 DEF OpenOutput, BridgeInv, NamedAs, Calls, Roles
<1>13. CASE WriteOutput
  BY <1>13 DEF WriteOutput, BridgeInv, NamedAs, Calls, Roles
<1>14. CASE Report
  BY <1>14 DEF Report, BridgeInv, NamedAs, Calls, Roles
<1>15. CASE UNCHANGED vars
  BY <1>15 DEF vars, BridgeInv, NamedAs
<1> QED
  BY <1>1, <1>2, <1>3, <1>4, <1>5, <1>6, <1>7, <1>8, <1>9, <1>10, <1>11, <1>12, <1>13, <1>14,
     <1>15 DEF Next, Step

LEMMA BridgeInvariant == Spec => []BridgeInv
BY BridgeStarts, BridgeGoesOn, PTL DEF Spec

\* What is written as the start is named as the start, and the goal as the
\* goal, whatever the world did while they were looked for.
THEOREM PositionsAreOfTheNamed == Spec => []PositionsOfTheNamed
<1>1. BridgeInv => PositionsOfTheNamed
  BY DEF BridgeInv, PositionsOfTheNamed, NamedAs, Roles
<1> QED
  BY <1>1, BridgeInvariant, PTL

-----------------------------------------------------------------------------
(* The promise to the demo.                                                  *)

\* Each step of the process is one of a bridge call, or is not seen from outside.
LEMMA BridgeStepIsCallStep ==
  ASSUME BridgeInv, [Next]_vars
  PROVE  [Call!Next]_(Call!vars)
<1> DEFINE Status == IF pc \in {"succeeded", "failed"} THEN pc ELSE "running"
<1>1. CASE /\ pc \in Calls \ {"open", "write", "report"} \/ UNCHANGED pc
           /\ pc' \in Calls \/ UNCHANGED pc
           /\ UNCHANGED output
  BY <1>1 DEF Call!vars, Calls
<1>2. CASE pc \in Calls /\ pc' = "failed" /\ UNCHANGED output
  BY <1>2 DEF Call!Next, Call!Fail, Calls
<1>3. CASE OpenOutput
  BY <1>3 DEF OpenOutput, BridgeInv, Calls, Call!Next, Call!Open
<1>4. CASE WriteOutput
  BY <1>4 DEF WriteOutput, BridgeInv, Calls, Call!Next, Call!Complete
<1>5. CASE Report
  BY <1>5 DEF Report, BridgeInv, Calls, Call!Next, Call!Succeed
<1>6. CASE WorldChanges \/ Connecting \/ Connected \/ GetMap \/ StartLandmarks \/ Describe \/ Draw
           \/ UNCHANGED vars
  BY <1>1, <1>6 DEF WorldChanges, Connecting, Connected, GetMap, StartLandmarks, Describe, Draw,
                    vars, Calls
<1>7. CASE CallFails \/ ConnectionTimedOut
  BY <1>2, <1>7 DEF CallFails, ConnectionTimedOut, Stop, Calls
<1>8. CASE FindObject
  <2>1. pc \in Calls /\ pc = "objects" /\ UNCHANGED output
    BY <1>8 DEF FindObject, Calls
  <2>2. pc' \in {"describe", "actors", "failed"}
    BY <1>8 DEF FindObject, Take, Stop
  <2> QED
    BY <1>1, <1>2, <2>1, <2>2 DEF Calls
<1>9. CASE FindActor
  <2>1. pc \in Calls /\ pc = "actors" /\ UNCHANGED output
    BY <1>9 DEF FindActor, Calls
  <2>2. pc' \in {"describe", "failed"}
    BY <1>9 DEF FindActor, Take, Stop
  <2> QED
    BY <1>1, <1>2, <2>1, <2>2 DEF Calls
<1> QED
  BY <1>3, <1>4, <1>5, <1>6, <1>7, <1>8, <1>9 DEF Next, Step

\* The process succeeds only with a whole file: it implements the bridge call
\* the demo relies on.
THEOREM BridgeCallKept == Spec => ImplementsBridgeCall
<1>1. Init => Call!Init
  BY DEF Init, Call!Init
<1> QED
  BY <1>1, BridgeStepIsCallStep, BridgeInvariant, PTL DEF Spec, ImplementsBridgeCall, Call!Spec
=============================================================================
