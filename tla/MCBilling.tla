------------------------------ MODULE MCBilling ------------------------------
(***************************************************************************)
(* A job on half a GPU, with a department or without one; its first record *)
(* reaches exactly 80 percent of the limit.  A second job asks for more    *)
(* than a GPU, so none of its records computes.                            *)
(***************************************************************************)
EXTENDS Billing

MCNamespace == [j \in Jobs |-> "lab"]
MCRatio == [j \in Jobs |-> IF j = "train" THEN 2 ELSE 5]
MCSoftLimit == [t \in {"research", "lab"} |-> 5]
==============================================================================
