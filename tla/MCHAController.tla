---------------------------- MODULE MCHAController ----------------------------
(***************************************************************************)
(* The HA controller with one job that has three pods on one node, so that *)
(* one fault starts three restores of the same job, of which two may hold  *)
(* the semaphore.                                                          *)
(***************************************************************************)
EXTENDS HAController

CONSTANTS n1, j1, p1, p2, p3

JobOfPod == [p \in {p1, p2, p3} |-> j1]
NodeOfPod == [p \in {p1, p2, p3} |-> n1]

================================================================================
