--------------------------- MODULE MCOversubManager ---------------------------
(***************************************************************************)
(* Three threads; 3 MiB physical and 5 MiB virtual memory, so that two     *)
(* requests compete for the last of either.                                *)
(***************************************************************************)
EXTENDS OversubManager, TLC

AnyThread == Permutations(Callers)
================================================================================
