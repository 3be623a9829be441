---------------------------- MODULE MCCarlaBridge ----------------------------
(* Instance of CarlaBridge for TLC: objects named as the start, with and     *)
(* without a number the engine added, others whose names only begin as it   *)
(* does, an actor that has the start's name, and one object for the goal.   *)
EXTENDS CarlaBridge

MCObjects == {"object 1", "object 2", "object 3", "object 4", "object 5"}
MCActors == {"actor 1", "actor 2"}

N(text, rest) == [text |-> text, rest |-> rest]

MCObjectName(o) ==
  CASE o = "object 1" -> N("start_1", "")
    [] o = "object 2" -> N("start_1", "_SM_0")
    [] o = "object 3" -> N("start_10", "")
    [] o = "object 4" -> N("start_1_cube", "")
    [] o = "object 5" -> N("goal_1", "_sm_0")

MCActorNames(a) == { N("start_1", "capitals"), N(IF a = "actor 1" THEN "6" ELSE "7", "") }

MCStartsWith(name, wanted) ==
  \/ name = wanted
  \/ wanted = "start_1" /\ name \in {"start_10", "start_1_cube"}

MCNameOf(r) == IF r = "start" THEN "start_1" ELSE "goal_1"
=============================================================================
