--------------------------- MODULE MCClusterClient ---------------------------
(* Two requests over two metrics.                                          *)
EXTENDS ClusterClient
=============================================================================
