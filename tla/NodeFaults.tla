------------------------------ MODULE NodeFaults ------------------------------
(***************************************************************************)
(* What the fault detector of pkg/hacontroller promises the HA controller, *)
(* independently of clocks and polling: every node is believed to be up,   *)
(* suspect (seen NotReady, threshold not yet reached) or faulted, and the  *)
(* step from suspect to faulted, and no other, starts one run of the       *)
(* handler for that node.  The beliefs live in the detector's memory only. *)
(***************************************************************************)
EXTENDS Naturals

CONSTANT Nodes

VARIABLES
  view,    \* view[n]: what the detector believes of node n
  events   \* events[n]: handler goroutines started for n that have not run yet

faultVars == <<view, events>>

Views == {"up", "suspect", "faulted"}

(* How one poll may move the belief about one node.                        *)
Moves == { <<"up", "up">>, <<"up", "suspect">>,
           <<"suspect", "suspect">>, <<"suspect", "up">>, <<"suspect", "faulted">>,
           <<"faulted", "faulted">>, <<"faulted", "up">> }

FaultsTypeOK ==
  /\ view \in [Nodes -> Views]
  /\ events \in [Nodes -> Nat]

FaultsInit ==
  /\ view = [n \in Nodes |-> "up"]
  /\ events = [n \in Nodes |-> 0]

Declared(n) == view[n] = "suspect" /\ view'[n] = "faulted"

(* One poll: the beliefs about all nodes move together.                    *)
Observe ==
  /\ view' \in [Nodes -> Views]
  /\ \A n \in Nodes : <<view[n], view'[n]>> \in Moves
  /\ events' = [n \in Nodes |-> IF Declared(n) THEN events[n] + 1 ELSE events[n]]

(* The handler goroutine started for node n runs.                          *)
Deliver(n) ==
  /\ events[n] > 0
  /\ events' = [events EXCEPT ![n] = @ - 1]
  /\ UNCHANGED view

(* The controller process stops; a new leader starts with empty maps.      *)
Forget ==
  /\ view' = [n \in Nodes |-> "up"]
  /\ events' = [n \in Nodes |-> 0]

FaultsNext == Observe \/ (\E n \in Nodes : Deliver(n)) \/ Forget

FaultsSpec == FaultsInit /\ [][FaultsNext]_faultVars
===============================================================================
