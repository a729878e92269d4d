---------------------------- MODULE MCVramQuota ----------------------------
(* A process with two threads and two with one.                            *)
EXTENDS VramQuota, TLC

MCProcOf == [t \in {"t1", "t2", "t3", "t4"} |->
               CASE t = "t3" -> "q" [] t = "t4" -> "r" [] OTHER -> "p"]
=============================================================================
