------------------------------ MODULE MCDemoRun ------------------------------
(* Instance of DemoRun for TLC: runs after each other, so that each finds the *)
(* files of one that completed, failed or was killed; the objects may be     *)
(* moved between them.  CARLA's route runs along a line, neighbours on which  *)
(* are near each other, so that its points may creep along or turn back.     *)
EXTENDS DemoRun

MCPoints == 1 .. 3
MCNear(p, q) == p <= q + 1 /\ q <= p + 1
=============================================================================
