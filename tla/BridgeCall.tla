----------------------------- MODULE BridgeCall -----------------------------
(***************************************************************************)
(* What one call of scripts/carla_bridge.py that writes a file promises to *)
(* run_bridge of scripts/run_map_test.py, which runs it as a process and   *)
(* looks at nothing but its exit code: when the call succeeded, the file   *)
(* is whole and from this call.  When it failed, the file may still be the *)
(* one that was there before, or it may be cut off.                        *)
(***************************************************************************)
VARIABLES status, output

vars == <<status, output>>

Init ==
  /\ status = "running"
  /\ output = "old"

\* write_json opens the file, which empties it.
Open ==
  /\ status = "running"
  /\ output = "old"
  /\ output' = "partial"
  /\ UNCHANGED status

Complete ==
  /\ status = "running"
  /\ output = "partial"
  /\ output' = "whole"
  /\ UNCHANGED status

Succeed ==
  /\ status = "running"
  /\ output = "whole"
  /\ status' = "succeeded"
  /\ UNCHANGED output

Fail ==
  /\ status = "running"
  /\ status' = "failed"
  /\ UNCHANGED output

Next == Open \/ Complete \/ Succeed \/ Fail

Spec == Init /\ [][Next]_vars
=============================================================================
