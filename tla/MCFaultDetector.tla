---------------------------- MODULE MCFaultDetector ----------------------------
(***************************************************************************)
(* The fault detector on two nodes: a poll every two time units and a      *)
(* threshold of three, so that the threshold falls between two polls.      *)
(***************************************************************************)
EXTENDS FaultDetector
================================================================================
