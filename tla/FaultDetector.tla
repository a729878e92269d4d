----------------------------- MODULE FaultDetector -----------------------------
(***************************************************************************)
(* pkg/hacontroller/fault_detector.go: the loop that polls the Ready       *)
(* condition of every node and starts HandleNodeFault for a node that      *)
(* stayed NotReady for the threshold.                                      *)
(*                                                                         *)
(* A poll is two steps, as in the code: the List call, whose result is a   *)
(* snapshot that may be stale by the time it is used, and checkNode for    *)
(* every listed node followed by the clean-up of deleted nodes.  The maps  *)
(* are private to the polling goroutine, so the second step is atomic.     *)
(* Time is counted in units; a stored time.Time is kept as its age, which  *)
(* stops at Threshold because the code only compares it with it.           *)
(***************************************************************************)
EXTENDS Integers

CONSTANTS
  Nodes,
  PollInterval,   \* time units between two ticks of the poll ticker
  Threshold,      \* NotReadyThreshold in time units
  MaxChanges,     \* bound: changes of the cluster's nodes
  MaxRestarts     \* bound: restarts of the controller process

ASSUME DetectorAssumption ==
  /\ PollInterval \in Nat \ {0}
  /\ Threshold \in Nat \ {0}
  /\ MaxChanges \in Nat
  /\ MaxRestarts \in Nat

VARIABLES
  \* the cluster
  registered,     \* nodes the API server knows
  ready,          \* nodes whose Ready condition is True
  \* the detector
  timer,          \* time units since the ticker fired
  tick,           \* a tick is buffered in ticker.C
  listed,         \* result of List still to be checked, or NotListed
  since,          \* notReadySince as an age, or Untracked
  faultEmitted,   \* nodes an event was emitted for
  events,         \* handler goroutines started and not yet run
  \* history and bounds
  lastGood,       \* age of the last observation of n that was not NotReady
  changes, restarts

cluster == <<registered, ready>>
memory  == <<since, faultEmitted>>
detectorVars == <<registered, ready, timer, tick, listed, since, faultEmitted, events,
                  lastGood, changes, restarts>>

NotListed == [nodes |-> {}, up |-> {}, valid |-> FALSE]
Untracked == -1
Older(age) == IF age < Threshold THEN age + 1 ELSE age

DetectorTypeOK ==
  /\ registered \subseteq Nodes
  /\ ready \subseteq Nodes
  /\ timer \in 0 .. PollInterval - 1
  /\ tick \in BOOLEAN
  /\ listed \in [nodes : SUBSET Nodes, up : SUBSET Nodes, valid : BOOLEAN]
  /\ since \in [Nodes -> {Untracked} \cup 0 .. Threshold]
  /\ faultEmitted \subseteq Nodes
  /\ events \in [Nodes -> Nat]
  /\ lastGood \in [Nodes -> 0 .. Threshold]
  /\ changes \in 0 .. MaxChanges
  /\ restarts \in 0 .. MaxRestarts

DetectorInit ==
  /\ registered = Nodes
  /\ ready = Nodes
  /\ timer = 0
  /\ tick = FALSE
  /\ listed = NotListed
  /\ since = [n \in Nodes |-> Untracked]
  /\ faultEmitted = {}
  /\ events = [n \in Nodes |-> 0]
  /\ lastGood = [n \in Nodes |-> 0]
  /\ changes = 0
  /\ restarts = 0

--------------------------------------------------------------------------------
(* The cluster.                                                            *)

(* The kubelet of n stops or resumes reporting Ready.                      *)
FlipReady(n) ==
  /\ changes < MaxChanges
  /\ n \in registered
  /\ ready' = IF n \in ready THEN ready \ {n} ELSE ready \cup {n}
  /\ changes' = changes + 1
  /\ UNCHANGED <<registered, timer, tick, listed, memory, events, lastGood, restarts>>

(* The node object is deleted, or a node of that name is created again;    *)
(* a new node object has no Ready condition yet.                           *)
FlipRegistered(n) ==
  /\ changes < MaxChanges
  /\ IF n \in registered
     THEN registered' = registered \ {n}
     ELSE registered' = registered \cup {n}
  /\ ready' = ready \ {n}
  /\ changes' = changes + 1
  /\ UNCHANGED <<timer, tick, listed, memory, events, lastGood, restarts>>

(* One unit of time: the ticker fires every PollInterval; a tick that      *)
(* finds one still buffered is dropped.                                    *)
Tick ==
  /\ timer' = (timer + 1) % PollInterval
  /\ tick' = (tick \/ timer' = 0)
  /\ since' = [n \in Nodes |-> IF since[n] = Untracked THEN Untracked ELSE Older(since[n])]
  /\ lastGood' = [n \in Nodes |-> Older(lastGood[n])]
  /\ UNCHANGED <<cluster, listed, faultEmitted, events, changes, restarts>>

--------------------------------------------------------------------------------
(* poll.                                                                   *)

PollStarts == tick /\ ~listed.valid

ListNodes ==
  /\ PollStarts
  /\ tick' = FALSE
  /\ listed' = [nodes |-> registered, up |-> ready, valid |-> TRUE]
  /\ UNCHANGED <<cluster, timer, memory, events, lastGood, changes, restarts>>

ListFails ==
  /\ PollStarts
  /\ tick' = FALSE
  /\ UNCHANGED <<cluster, timer, listed, memory, events, lastGood, changes, restarts>>

Down(n) == n \in listed.nodes /\ n \notin listed.up

(* Mutant: a node still down is reported at every poll.                    *)
EmitsAgain(n) == Down(n) /\ since[n] >= Threshold

(* checkNode emits an event for n: NotReady, tracked for the threshold, no *)
(* event emitted yet.                                                      *)
Emits(n) == Down(n) /\ since[n] >= Threshold /\ n \notin faultEmitted

(* Mutants: the stamp survives a Ready poll; it is renewed at every        *)
(* NotReady poll.                                                          *)
TrackedForEver(n) == IF Down(n) /\ since[n] = Untracked THEN 0 ELSE since[n]
TrackedAfresh(n) == IF Down(n) THEN 0 ELSE Untracked

(* notReadySince after checkNode for every listed node and the clean-up of *)
(* the nodes not listed: a tracked node keeps its time stamp, a node seen  *)
(* NotReady for the first time gets the current time.                      *)
Tracked(n) ==
  IF Down(n) THEN IF since[n] = Untracked THEN 0 ELSE since[n] ELSE Untracked

(* faultEmitted after the same: checkNode drops a Ready node, the clean-up *)
(* an unlisted node that is tracked in notReadySince.                      *)
StillEmitted(n) ==
  \/ Emits(n)
  \/ n \in faultEmitted /\ (Down(n) \/ (n \notin listed.nodes /\ since[n] = Untracked))

CheckNodes ==
  /\ listed.valid
  /\ since' = [n \in Nodes |-> Tracked(n)]
  /\ faultEmitted' = {n \in Nodes : StillEmitted(n)}
  /\ events' = [n \in Nodes |-> IF Emits(n) THEN events[n] + 1 ELSE events[n]]
  /\ lastGood' = [n \in Nodes |-> IF Down(n) THEN lastGood[n] ELSE 0]
  /\ listed' = NotListed
  /\ UNCHANGED <<cluster, timer, tick, changes, restarts>>

(* The goroutine started by "go fd.handler" runs HandleNodeFault.          *)
HandlerRuns(n) ==
  /\ events[n] > 0
  /\ events' = [events EXCEPT ![n] = @ - 1]
  /\ UNCHANGED <<cluster, timer, tick, listed, memory, lastGood, changes, restarts>>

(* The process stops, with its goroutines; another leader starts.          *)
Restart ==
  /\ restarts < MaxRestarts
  /\ restarts' = restarts + 1
  /\ timer' = 0
  /\ tick' = FALSE
  /\ listed' = NotListed
  /\ since' = [n \in Nodes |-> Untracked]
  /\ faultEmitted' = {}
  /\ events' = [n \in Nodes |-> 0]
  /\ lastGood' = [n \in Nodes |-> 0]
  /\ UNCHANGED <<cluster, changes>>

DetectorNext ==
  \/ \E n \in Nodes : FlipReady(n) \/ FlipRegistered(n)
  \/ Tick
  \/ ListNodes
  \/ ListFails
  \/ CheckNodes
  \/ \E n \in Nodes : HandlerRuns(n)
  \/ Restart

DetectorSpec == DetectorInit /\ [][DetectorNext]_detectorVars

(* Time passes, the polling goroutine and the handlers are scheduled, and  *)
(* an API server that is asked again and again answers at some point.      *)
DetectorFairness ==
  /\ WF_detectorVars(Tick)
  /\ SF_detectorVars(ListNodes)
  /\ WF_detectorVars(CheckNodes)
  /\ \A n \in Nodes : WF_detectorVars(HandlerRuns(n))

FairDetectorSpec == DetectorSpec /\ DetectorFairness

--------------------------------------------------------------------------------
(* An event is emitted for n.                                              *)
Emission(n) == n \in faultEmitted' /\ n \notin faultEmitted

(* A node is declared faulted only when the last poll that saw it Ready,   *)
(* or did not see it, lies at least the threshold back: whatever polls     *)
(* failed, came late or used a stale list, a node observed Ready within    *)
(* the threshold is left alone (checkNode's reset of notReadySince).       *)
NoAlarmWhenRecentlySeenReady ==
  [][\A n \in Nodes : Emission(n) => lastGood[n] >= Threshold]_detectorVars

(* A node is marked as emitted only while it is tracked: the clean-up of   *)
(* deleted nodes walks notReadySince only, so a mark that outlived its     *)
(* time stamp would silence the detector for that node name for good.      *)
EmittedIsTracked == \A n \in faultEmitted : since[n] # Untracked

(* The time stamp never reaches back before the last good observation.     *)
SinceAfterLastGood == \A n \in Nodes : since[n] <= lastGood[n]

(* A node that stays NotReady for good is declared faulted and stays so,   *)
(* across failed List calls and restarts of the controller, and the        *)
(* handler started for it runs.                                            *)
Dead(n) == n \in registered /\ n \notin ready
DeadNodeIsDeclared ==
  \A n \in Nodes : (<>[]Dead(n)) => <>[](n \in faultEmitted /\ events[n] = 0)

(* The detector implements NodeFaults: one handler run per episode of      *)
(* observed unreadiness, none without the suspect step before it.          *)
Belief == [n \in Nodes |-> IF since[n] = Untracked THEN "up"
                           ELSE IF n \in faultEmitted THEN "faulted" ELSE "suspect"]
Faults == INSTANCE NodeFaults WITH view <- Belief
ImplementsNodeFaults == Faults!FaultsSpec
================================================================================
