---------------------------- MODULE MCSnapshotStore ----------------------------
(* The instance of SnapshotStore that TLC checks.                              *)
EXTENDS SnapshotStore, TLC

AnyName == Permutations(Clients) \cup Permutations(Images) \cup Permutations(Contents)
================================================================================
