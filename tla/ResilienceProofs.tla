--------------------------- MODULE ResilienceProofs ---------------------------
(***************************************************************************)
(* Proofs about three parts that work under the HA controller:             *)
(*   - the fault detector, for every set of nodes, poll interval and       *)
(*     threshold;                                                          *)
(*   - the circuit breaker, for every set of callers, failure limit and    *)
(*     open duration;                                                      *)
(*   - the upload worker pool, for every set of tasks and workers, every   *)
(*     buffer and every number of retries.                                 *)
(***************************************************************************)
EXTENDS FaultDetector, CircuitBreaker, Uploader, FiniteSetTheorems, TLAPS

(*--------------------------- the fault detector ---------------------------*)
(* The inductive invariant adds to type correctness that an emitted node   *)
(* is tracked and that no time stamp is older than the last good           *)
(* observation.                                                            *)
DetectorInv == DetectorTypeOK /\ EmittedIsTracked /\ SinceAfterLastGood

(* Ageing keeps an age within its bound and keeps the order of two ages.   *)
LEMMA OlderBounds ==
  ASSUME NEW a \in 0 .. Threshold
  PROVE  Older(a) \in 0 .. Threshold /\ Older(a) >= a
  BY DetectorAssumption DEF Older

LEMMA OlderMonotone ==
  ASSUME NEW a \in 0 .. Threshold, NEW b \in 0 .. Threshold, a <= b
  PROVE  Older(a) <= Older(b)
  BY DetectorAssumption DEF Older

LEMMA NotListedType ==
  NotListed \in [nodes : SUBSET Nodes, up : SUBSET Nodes, valid : BOOLEAN]
  BY DEF NotListed

LEMMA DetectorInitInv == DetectorInit => DetectorInv
<1> SUFFICES ASSUME DetectorInit PROVE DetectorInv
  OBVIOUS
<1>1. DetectorTypeOK
  <2>1. 0 \in 0 .. PollInterval - 1 /\ 0 \in 0 .. Threshold
    BY DetectorAssumption
  <2>2. 0 \in 0 .. MaxChanges /\ 0 \in 0 .. MaxRestarts
    BY DetectorAssumption
  <2> QED
    BY <2>1, <2>2, NotListedType DEF DetectorInit, DetectorTypeOK
<1>2. EmittedIsTracked /\ SinceAfterLastGood
  BY DEF DetectorInit, EmittedIsTracked, SinceAfterLastGood, Untracked
<1> QED
  BY <1>1, <1>2 DEF DetectorInv

--------------------------------------------------------------------------------
(* One poll: what happens to the maps in CheckNodes.                       *)
LEMMA CheckNodesInv == DetectorInv /\ CheckNodes => DetectorInv'
<1> SUFFICES ASSUME DetectorInv, CheckNodes PROVE DetectorInv'
  OBVIOUS
<1> USE DetectorAssumption DEF DetectorInv
<1>1. since' \in [Nodes -> {Untracked} \cup 0 .. Threshold]
  BY DEF CheckNodes, Tracked, DetectorTypeOK, Untracked
<1>2. events' \in [Nodes -> Nat]
  BY DEF CheckNodes, DetectorTypeOK
<1>3. lastGood' \in [Nodes -> 0 .. Threshold]
  BY DEF CheckNodes, DetectorTypeOK
<1>4. DetectorTypeOK'
  BY <1>1, <1>2, <1>3, NotListedType DEF CheckNodes, DetectorTypeOK, cluster
<1>5. EmittedIsTracked'
  <2> SUFFICES ASSUME NEW n \in faultEmitted' PROVE since'[n] # Untracked
    BY DEF EmittedIsTracked
  <2>1. n \in Nodes /\ StillEmitted(n) /\ since'[n] = Tracked(n)
    BY DEF CheckNodes
  <2>2. Down(n) /\ since[n] # Untracked
    BY <2>1 DEF StillEmitted, Emits, EmittedIsTracked, DetectorTypeOK, Untracked
  <2> QED
    BY <2>1, <2>2 DEF Tracked
<1>6. SinceAfterLastGood'
  <2> SUFFICES ASSUME NEW n \in Nodes PROVE since'[n] <= lastGood'[n]
    BY DEF SinceAfterLastGood
  <2>1. since'[n] = Tracked(n) /\ lastGood'[n] = (IF Down(n) THEN lastGood[n] ELSE 0)
    BY DEF CheckNodes
  <2> QED
    BY <2>1 DEF Tracked, Untracked, DetectorTypeOK, SinceAfterLastGood
<1> QED
  BY <1>4, <1>5, <1>6

LEMMA TickInv == DetectorInv /\ Tick => DetectorInv'
<1> SUFFICES ASSUME DetectorInv, Tick PROVE DetectorInv'
  OBVIOUS
<1> USE DetectorAssumption DEF DetectorInv
<1>1. timer' \in 0 .. PollInterval - 1 /\ tick' \in BOOLEAN
  BY DEF Tick, DetectorTypeOK
<1>2. \A n \in Nodes : /\ since[n] = Untracked \/ since[n] \in 0 .. Threshold
                       /\ lastGood[n] \in 0 .. Threshold
                       /\ since[n] <= lastGood[n]
  BY DEF DetectorTypeOK, SinceAfterLastGood
<1>3. since' \in [Nodes -> {Untracked} \cup 0 .. Threshold]
  BY <1>2, OlderBounds DEF Tick
<1>4. lastGood' \in [Nodes -> 0 .. Threshold]
  BY <1>2, OlderBounds DEF Tick
<1>5. DetectorTypeOK'
  BY <1>1, <1>3, <1>4 DEF Tick, DetectorTypeOK, cluster
<1>6. EmittedIsTracked'
  <2> SUFFICES ASSUME NEW n \in faultEmitted PROVE since'[n] # Untracked
    BY DEF EmittedIsTracked, Tick
  <2>1. n \in Nodes /\ since[n] # Untracked
    BY DEF EmittedIsTracked, DetectorTypeOK
  <2>2. since'[n] = Older(since[n]) /\ Older(since[n]) \in 0 .. Threshold
    BY <2>1, <1>2, OlderBounds DEF Tick
  <2> QED
    BY <2>2 DEF Untracked
<1>7. SinceAfterLastGood'
  <2> SUFFICES ASSUME NEW n \in Nodes PROVE since'[n] <= lastGood'[n]
    BY DEF SinceAfterLastGood
  <2>1. lastGood'[n] = Older(lastGood[n]) /\ Older(lastGood[n]) \in 0 .. Threshold
    BY <1>2, OlderBounds DEF Tick
  <2>2. CASE since[n] = Untracked
    BY <2>1, <2>2 DEF Tick, Untracked
  <2>3. CASE since[n] # Untracked
    BY <2>1, <2>3, <1>2, OlderMonotone DEF Tick
  <2> QED
    BY <2>2, <2>3
<1> QED
  BY <1>5, <1>6, <1>7

LEMMA DetectorNextInv == DetectorInv /\ [DetectorNext]_detectorVars => DetectorInv'
<1> SUFFICES ASSUME DetectorInv, [DetectorNext]_detectorVars PROVE DetectorInv'
  OBVIOUS
<1> USE DetectorAssumption DEF DetectorInv
<1>1. ASSUME NEW n \in Nodes, FlipReady(n) PROVE DetectorInv'
  BY <1>1 DEF FlipReady, DetectorTypeOK, EmittedIsTracked, SinceAfterLastGood, memory
<1>2. ASSUME NEW n \in Nodes, FlipRegistered(n) PROVE DetectorInv'
  BY <1>2 DEF FlipRegistered, DetectorTypeOK, EmittedIsTracked, SinceAfterLastGood, memory
<1>3. CASE Tick
  BY <1>3, TickInv
<1>4. CASE ListNodes
  BY <1>4 DEF ListNodes, DetectorTypeOK, EmittedIsTracked, SinceAfterLastGood, memory, cluster
<1>5. CASE ListFails
  BY <1>5 DEF ListFails, DetectorTypeOK, EmittedIsTracked, SinceAfterLastGood, memory, cluster
<1>6. CASE CheckNodes
  BY <1>6, CheckNodesInv
<1>7. ASSUME NEW n \in Nodes, HandlerRuns(n) PROVE DetectorInv'
  BY <1>7 DEF HandlerRuns, DetectorTypeOK, EmittedIsTracked, SinceAfterLastGood, memory, cluster
<1>8. CASE Restart
  <2>1. DetectorTypeOK'
    <3>1. 0 \in 0 .. PollInterval - 1 /\ 0 \in 0 .. Threshold /\ restarts' \in 0 .. MaxRestarts
      BY <1>8 DEF Restart, DetectorTypeOK
    <3> QED
      BY <1>8, <3>1, NotListedType DEF Restart, DetectorTypeOK, cluster
  <2>2. EmittedIsTracked' /\ SinceAfterLastGood'
    BY <1>8 DEF Restart, EmittedIsTracked, SinceAfterLastGood, Untracked
  <2> QED
    BY <2>1, <2>2
<1>9. CASE UNCHANGED detectorVars
  BY <1>9 DEF detectorVars, DetectorTypeOK, EmittedIsTracked, SinceAfterLastGood
<1> QED
  BY <1>1, <1>2, <1>3, <1>4, <1>5, <1>6, <1>7, <1>8, <1>9 DEF DetectorNext

LEMMA DetectorInvariance == DetectorSpec => []DetectorInv
  BY DetectorInitInv, DetectorNextInv, PTL DEF DetectorSpec

--------------------------------------------------------------------------------
(* Every reachable state of the detector has the types of DetectorTypeOK.          *)
THEOREM DetectorTypeCorrect == DetectorSpec => []DetectorTypeOK
  BY DetectorInvariance, PTL DEF DetectorInv

(* A node marked in faultEmitted is always tracked in notReadySince, so    *)
(* the clean-up of checkNode and poll never leaves a mark behind.          *)
THEOREM EmittedTracked == DetectorSpec => []EmittedIsTracked
  BY DetectorInvariance, PTL DEF DetectorInv

(* Only CheckNodes emits.                                                  *)
LEMMA EmissionNeedsAge ==
  ASSUME DetectorInv, [DetectorNext]_detectorVars, NEW n \in Nodes, Emission(n)
  PROVE  lastGood[n] >= Threshold
<1>1. CheckNodes
  BY DEF Emission, DetectorNext, FlipReady, FlipRegistered, Tick, ListNodes, ListFails, HandlerRuns,
         Restart, detectorVars, memory
<1>2. Emits(n)
  BY <1>1 DEF CheckNodes, StillEmitted, Emission
<1> QED
  BY <1>2, DetectorAssumption DEF Emits, DetectorInv, DetectorTypeOK, SinceAfterLastGood, Untracked

(* No node is declared faulted within the threshold of an observation      *)
(* that was not NotReady.                                                  *)
THEOREM NoEarlyAlarm == DetectorSpec => NoAlarmWhenRecentlySeenReady
<1> DEFINE Alarm == \A n \in Nodes : Emission(n) => lastGood[n] >= Threshold
<1>1. DetectorInv /\ [DetectorNext]_detectorVars => [Alarm]_detectorVars
  BY EmissionNeedsAge
<1> QED
  BY <1>1, DetectorInvariance, PTL DEF DetectorSpec, NoAlarmWhenRecentlySeenReady

--------------------------------------------------------------------------------
(* Every step of the detector is a step of NodeFaults or leaves the belief *)
(* and the started handlers alone.                                         *)
LEMMA StepRefines == DetectorInv /\ [DetectorNext]_detectorVars => [Faults!FaultsNext]_(Faults!faultVars)
<1> SUFFICES ASSUME DetectorInv, [DetectorNext]_detectorVars
             PROVE  Faults!FaultsNext \/ UNCHANGED <<Belief, events>>
  BY DEF Faults!faultVars
<1> USE DetectorAssumption DEF DetectorInv
<1>1. ASSUME NEW n \in Nodes, FlipReady(n) \/ FlipRegistered(n) PROVE UNCHANGED <<Belief, events>>
  BY <1>1 DEF FlipReady, FlipRegistered, memory, Belief
<1>2. CASE Tick
  <2>1. \A n \in Nodes : (since'[n] = Untracked) <=> (since[n] = Untracked)
    BY <1>2, OlderBounds DEF Tick, DetectorTypeOK, Untracked
  <2> QED
    BY <1>2, <2>1 DEF Tick, Belief
<1>3. CASE ListNodes \/ ListFails
  BY <1>3 DEF ListNodes, ListFails, memory, Belief
<1>4. CASE CheckNodes
  <2>1. \A n \in Nodes : /\ since'[n] = Tracked(n)
                         /\ n \in faultEmitted' <=> StillEmitted(n)
    BY <1>4 DEF CheckNodes
  <2>2. Belief' \in [Nodes -> Faults!Views]
    BY DEF Belief, Faults!Views
  <2>3. \A n \in Nodes : n \in faultEmitted => since[n] # Untracked
    BY DEF EmittedIsTracked
  <2>4. ASSUME NEW n \in Nodes
        PROVE  /\ <<Belief[n], Belief'[n]>> \in Faults!Moves
               /\ Faults!Declared(n) <=> Emits(n)
    <3>1. /\ since[n] = Untracked => Belief[n] = "up"
          /\ since[n] # Untracked /\ n \in faultEmitted => Belief[n] = "faulted"
          /\ since[n] # Untracked /\ n \notin faultEmitted => Belief[n] = "suspect"
      BY DEF Belief
    <3>2. /\ Tracked(n) = Untracked => Belief'[n] = "up"
          /\ Tracked(n) # Untracked /\ StillEmitted(n) => Belief'[n] = "faulted"
          /\ Tracked(n) # Untracked /\ ~StillEmitted(n) => Belief'[n] = "suspect"
      BY <2>1 DEF Belief
    <3>3. CASE ~Down(n)
      <4>1. Tracked(n) = Untracked /\ ~Emits(n)
        BY <3>3 DEF Tracked, Emits
      <4> QED
        BY <4>1, <3>1, <3>2 DEF Faults!Moves, Faults!Declared
    <3>4. CASE Down(n) /\ since[n] = Untracked
      <4>1. Tracked(n) # Untracked
        BY <3>4 DEF Tracked, Untracked
      <4>2. ~Emits(n) /\ ~StillEmitted(n)
        BY <3>4, <2>3 DEF StillEmitted, Emits, Untracked
      <4> QED
        BY <4>1, <4>2, <3>1, <3>2, <3>4 DEF Faults!Moves, Faults!Declared
    <3>5. CASE Down(n) /\ since[n] # Untracked
      <4>1. Tracked(n) # Untracked
        BY <3>5 DEF Tracked
      <4>2. Emits(n) => n \notin faultEmitted
        BY DEF Emits
      <4>3. StillEmitted(n) <=> Emits(n) \/ n \in faultEmitted
        BY <3>5 DEF StillEmitted
      <4> QED
        BY <4>1, <4>2, <4>3, <3>1, <3>2, <3>5 DEF Faults!Moves, Faults!Declared
    <3> QED
      BY <3>3, <3>4, <3>5
  <2>5. Faults!Observe
    BY <1>4, <2>2, <2>4 DEF CheckNodes, Faults!Observe
  <2> QED
    BY <2>5 DEF Faults!FaultsNext
<1>5. ASSUME NEW n \in Nodes, HandlerRuns(n) PROVE Faults!FaultsNext
  <2>1. Faults!Deliver(n)
    BY <1>5 DEF HandlerRuns, memory, Belief, Faults!Deliver
  <2> QED
    BY <2>1 DEF Faults!FaultsNext
<1>6. CASE Restart
  BY <1>6 DEF Restart, Belief, Faults!Forget, Faults!FaultsNext
<1>7. CASE UNCHANGED detectorVars
  BY <1>7 DEF detectorVars, Belief
<1> QED
  BY <1>1, <1>2, <1>3, <1>4, <1>5, <1>6, <1>7 DEF DetectorNext

(* The detector implements the abstract one the HA controller relies on.   *)
THEOREM Refinement == DetectorSpec => ImplementsNodeFaults
<1>1. DetectorInit => Faults!FaultsInit
  BY DEF DetectorInit, Faults!FaultsInit, Belief
<1> QED
  BY <1>1, StepRefines, DetectorInvariance, PTL DEF DetectorSpec, ImplementsNodeFaults, Faults!FaultsSpec

(*--------------------------- the circuit breaker --------------------------*)
(* The invariant adds to the agreement of state and counter that a         *)
(* half-open breaker has seen no failure for OpenDuration: every failure   *)
(* makes it open again.                                                    *)
HalfOpenIsOld == state = "HalfOpen" => age >= OpenDuration

BreakerInv == BreakerTypeOK /\ StateMatchesFailures /\ HalfOpenIsOld

LEMMA BreakerInitInv == BreakerInit => BreakerInv
  BY BreakerAssumption DEF BreakerInit, BreakerInv, BreakerTypeOK, StateMatchesFailures, HalfOpenIsOld

(* Looking at the state, as Allow, State and BreakerState do, preserves    *)
(* the invariant: only an old enough Open becomes HalfOpen.                *)
LEMMA LookInv ==
  ASSUME BreakerInv, state' = CurrentState, UNCHANGED <<failures, age, healthy, outages>>,
         calls' \subseteq Callers
  PROVE  BreakerInv'
  BY BreakerAssumption DEF BreakerInv, BreakerTypeOK, StateMatchesFailures, HalfOpenIsOld, CurrentState

LEMMA RecordFailureInv ==
  ASSUME BreakerInv, NEW c \in Callers, RecordFailure(c)
  PROVE  BreakerInv'
<1> USE BreakerAssumption DEF BreakerInv
<1>1. BreakerTypeOK'
  BY DEF RecordFailure, BreakerTypeOK
<1>2. StateMatchesFailures'
  BY DEF RecordFailure, BreakerTypeOK, StateMatchesFailures
<1>3. HalfOpenIsOld'
  <2>1. CASE state = "HalfOpen"
    (* The counter is at the limit already, so the breaker opens.          *)
    BY <2>1 DEF RecordFailure, BreakerTypeOK, StateMatchesFailures, HalfOpenIsOld
  <2>2. CASE state # "HalfOpen"
    BY <2>2 DEF RecordFailure, BreakerTypeOK, HalfOpenIsOld
  <2> QED
    BY <2>1, <2>2
<1> QED
  BY <1>1, <1>2, <1>3

LEMMA BreakerNextInv == BreakerInv /\ [BreakerNext]_breakerVars => BreakerInv'
<1> SUFFICES ASSUME BreakerInv, [BreakerNext]_breakerVars PROVE BreakerInv'
  OBVIOUS
<1> USE BreakerAssumption
<1>1. ASSUME NEW c \in Callers, Admit(c) PROVE BreakerInv'
  BY <1>1, LookInv DEF Admit, BreakerInv, BreakerTypeOK
<1>2. ASSUME NEW c \in Callers, RecordSuccess(c) PROVE BreakerInv'
  BY <1>2 DEF RecordSuccess, BreakerInv, BreakerTypeOK, StateMatchesFailures, HalfOpenIsOld
<1>3. ASSUME NEW c \in Callers, RecordFailure(c) PROVE BreakerInv'
  BY <1>3, RecordFailureInv
<1>4. CASE LookAt
  BY <1>4, LookInv DEF LookAt, BreakerInv, BreakerTypeOK
<1>5. CASE BreakerTick
  BY <1>5 DEF BreakerTick, BreakerInv, BreakerTypeOK, StateMatchesFailures, HalfOpenIsOld
<1>6. CASE HealthChanges
  BY <1>6 DEF HealthChanges, BreakerInv, BreakerTypeOK, StateMatchesFailures, HalfOpenIsOld
<1>7. CASE UNCHANGED breakerVars
  BY <1>7 DEF breakerVars, BreakerInv, BreakerTypeOK, StateMatchesFailures, HalfOpenIsOld
<1> QED
  BY <1>1, <1>2, <1>3, <1>4, <1>5, <1>6, <1>7 DEF BreakerNext

LEMMA BreakerInvariance == BreakerSpec => []BreakerInv
  BY BreakerInitInv, BreakerNextInv, PTL DEF BreakerSpec

(* The breaker is closed exactly while fewer than MaxFailures failures     *)
(* were recorded since the last success.                                   *)
THEOREM StateAgreesWithCounter == BreakerSpec => [](BreakerTypeOK /\ StateMatchesFailures)
  BY BreakerInvariance, PTL DEF BreakerInv

(* A call is let through only in Closed or HalfOpen.                       *)
LEMMA AdmissionAllowed ==
  ASSUME BreakerInv, [BreakerNext]_breakerVars, NEW c \in Callers, c \in calls' \ calls
  PROVE  failures < MaxFailures \/ age >= OpenDuration
<1>1. PICK d \in Callers : Admit(d)
  BY DEF BreakerNext, Admit, RecordSuccess, RecordFailure, LookAt, BreakerTick, HealthChanges, breakerVars
<1>2. CurrentState # "Open"
  BY <1>1 DEF Admit
<1>3. state = "Closed" \/ state = "HalfOpen" \/ (state = "Open" /\ age >= OpenDuration)
  BY <1>2 DEF CurrentState, BreakerInv, BreakerTypeOK
<1> QED
  BY <1>3 DEF BreakerInv, StateMatchesFailures, HalfOpenIsOld

(* No call starts within OpenDuration of the last failure once MaxFailures *)
(* of them were recorded in a row.                                         *)
THEOREM SuspensionRespected == BreakerSpec => NoCallWhileSuspended
<1> DEFINE Suspended == \A c \in Callers : c \in calls' \ calls =>
                          failures < MaxFailures \/ age >= OpenDuration
<1>1. BreakerInv /\ [BreakerNext]_breakerVars => [Suspended]_breakerVars
  BY AdmissionAllowed
<1> QED
  BY <1>1, BreakerInvariance, PTL DEF BreakerSpec, NoCallWhileSuspended

(*------------------------- the upload worker pool -------------------------*)
(* A task is somewhere: in the channel, with a worker or with a timer.     *)
(* The invariant says that no two places hold one task and that exactly    *)
(* the accepted tasks are held; the step of an item from one place to the  *)
(* next needs both.                                                        *)
(*                                                                         *)
(* The counters need one thing more: the failures that can be told from    *)
(* what is in flight and what was given up are no more than were counted.  *)
Busy(w) == doing[w].pc \in {"counting", "saving"}
InChannel(t) == \E k \in 1 .. Len(tasks) : tasks[k][1] = t
WithWorker(t) == \E w \in Workers : Busy(w) /\ doing[w].item[1] = t
WithTimer(t) == \E i \in timers : i[1] = t
Somewhere(t) == InChannel(t) \/ WithWorker(t) \/ WithTimer(t)

ChannelOnce == \A k, l \in 1 .. Len(tasks) : tasks[k][1] = tasks[l][1] => k = l
WorkerOnce ==
  \A v, w \in Workers : Busy(v) /\ Busy(w) /\ doing[v].item[1] = doing[w].item[1] => v = w
TimerOnce == \A i, j \in timers : i[1] = j[1] => i = j
OncePerPlace == ChannelOnce /\ WorkerOnce /\ TimerOnce

OnePlace ==
  \A t \in Tasks : /\ InChannel(t) => ~WithWorker(t) /\ ~WithTimer(t)
                   /\ WithWorker(t) => ~WithTimer(t)

Accounted == \A t \in Tasks : outcome[t] = "accepted" <=> Somewhere(t)

PlacesInv == OncePerPlace /\ OnePlace /\ Accounted
UploaderInv == TypeOK /\ (~panicked => PlacesInv)

LEMMA ItemFacts ==
  /\ Items # {}
  /\ \A i \in Items : i[1] \in Tasks /\ i[2] \in 0 .. MaxRetries - 1
  /\ \A t \in Tasks, n \in 0 .. MaxRetries - 1 : <<t, n>> \in Items /\ <<t, n>>[1] = t
<1>1. /\ \A i \in Items : i[1] \in Tasks /\ i[2] \in 0 .. MaxRetries - 1
      /\ \A t \in Tasks, n \in 0 .. MaxRetries - 1 : <<t, n>> \in Items /\ <<t, n>>[1] = t
  BY DEF Items
<1>2. PICK t \in Tasks : TRUE
  BY UploaderAssumption
<1>3. 0 \in 0 .. MaxRetries - 1
  BY UploaderAssumption
<1> QED
  BY <1>1, <1>2, <1>3

LEMMA AppendFacts ==
  ASSUME NEW s \in Seq(Items), NEW e \in Items
  PROVE  /\ Append(s, e) \in Seq(Items)
         /\ Len(Append(s, e)) = Len(s) + 1
         /\ Append(s, e)[Len(s) + 1] = e
         /\ \A k \in 1 .. Len(s) : Append(s, e)[k] = s[k]
  OBVIOUS

LEMMA TailFacts ==
  ASSUME NEW s \in Seq(Items), s # <<>>
  PROVE  /\ Tail(s) \in Seq(Items) /\ Head(s) = s[1] /\ Head(s) \in Items
         /\ Len(s) \in Nat \ {0} /\ Len(Tail(s)) = Len(s) - 1
         /\ \A k \in 1 .. Len(s) - 1 : Tail(s)[k] = s[k + 1]
  OBVIOUS

LEMMA InitInv == Init => UploaderInv
<1> SUFFICES ASSUME Init PROVE UploaderInv
  OBVIOUS
<1>1. Waiting.item \in Items /\ Waiting.pc = "receiving"
  BY ItemFacts DEF Waiting
<1>2. TypeOK
  <2>1. Waiting \in [pc : WorkerPCs, item : Items]
    BY <1>1 DEF Waiting, WorkerPCs
  <2>2. doing \in [Workers -> [pc : WorkerPCs, item : Items]]
    BY <2>1 DEF Init
  <2>3. tasks \in Seq(Items)
    BY DEF Init
  <2>4. outcome \in [Tasks -> Outcomes]
    BY DEF Init, Outcomes
  <2>5. panicked \in BOOLEAN
    BY DEF Init
  <2>6. pending \in Int /\ uncounted \in Nat /\ succeeded \in Nat /\ failed \in Nat
    BY DEF Init
  <2> QED
    BY <2>2, <2>3, <2>4, <2>5, <2>6 DEF Init, TypeOK
<1>3. \A w \in Workers : ~Busy(w)
  BY <1>1 DEF Init, Busy
<1>4. Len(tasks) = 0 /\ timers = {}
  BY DEF Init
<1>5. OncePerPlace
  BY <1>3, <1>4 DEF OncePerPlace, ChannelOnce, WorkerOnce, TimerOnce
<1>6. \A t \in Tasks : ~Somewhere(t)
  BY <1>3, <1>4 DEF Somewhere, InChannel, WithWorker, WithTimer
<1>7. OnePlace /\ Accounted
  BY <1>6 DEF Init, OnePlace, Accounted, Somewhere
<1> QED
  BY <1>2, <1>5, <1>7 DEF UploaderInv, PlacesInv

(*-------------------------- the types, per action --------------------------*)
LEMMA SendType ==
  ASSUME TypeOK, NEW item \in Items, Send(item)
  PROVE  tasks' \in Seq(Items) /\ uncounted' \in Nat
  BY AppendFacts DEF TypeOK, Send

LEMMA TypeStep == TypeOK /\ [Next]_vars => TypeOK'
<1> SUFFICES ASSUME TypeOK, [Next]_vars PROVE TypeOK'
  OBVIOUS
<1> USE DEF TypeOK
<1>1. ASSUME NEW t \in Tasks, Submit(t) PROVE TypeOK'
  <2>1. <<t, 0>> \in Items
    <3>1. 0 \in 0 .. MaxRetries - 1
      BY UploaderAssumption
    <3> QED
      BY <3>1 DEF Items
  <2>2. outcome' \in [Tasks -> Outcomes]
    BY <1>1 DEF Submit, Settle, Outcomes
  <2>3. tasks' \in Seq(Items) /\ uncounted' \in Nat
    BY <1>1, <2>1, SendType DEF Submit
  <2> QED
    BY <1>1, <2>2, <2>3 DEF Submit
<1>2. ASSUME NEW i \in Items, TimerFires(i) PROVE TypeOK'
  <2>1. i[1] \in Tasks
    BY ItemFacts
  <2>2. outcome' \in [Tasks -> Outcomes]
    BY <1>2, <2>1 DEF TimerFires, Settle, Outcomes
  <2>3. tasks' \in Seq(Items) /\ uncounted' \in Nat
    BY <1>2, SendType DEF TimerFires
  <2>4. timers' \subseteq Items /\ panicked' \in BOOLEAN
    BY <1>2 DEF TimerFires
  <2> QED
    BY <1>2, <2>2, <2>3, <2>4 DEF TimerFires
<1>3. CASE CountSend
  BY <1>3 DEF CountSend
<1>4. ASSUME NEW w \in Workers, Receive(w) PROVE TypeOK'
  BY <1>4, TailFacts DEF Receive, WorkerPCs
<1>5. ASSUME NEW w \in Workers, CountReceive(w) PROVE TypeOK'
  BY <1>5 DEF CountReceive, Step, WorkerPCs
<1>6. ASSUME NEW w \in Workers, SaveSucceeds(w) PROVE TypeOK'
  BY <1>6, ItemFacts DEF SaveSucceeds, Step, Settle, WorkerPCs, Outcomes
<1>7. ASSUME NEW w \in Workers, SaveFails(w) PROVE TypeOK'
  <2>1. doing[w].item \in Items
    OBVIOUS
  <2>2. doing' \in [Workers -> [pc : WorkerPCs, item : Items]] /\ failed' \in Nat
    BY <1>7 DEF SaveFails, Step, WorkerPCs
  <2>3. timers' \subseteq Items /\ outcome' \in [Tasks -> Outcomes]
    <3>1. CASE doing[w].item[2] + 1 >= MaxRetries
      BY <1>7, <3>1 DEF SaveFails, Settle, Outcomes
    <3>2. CASE ~(doing[w].item[2] + 1 >= MaxRetries)
      <4>1. /\ doing[w].item[1] \in Tasks
            /\ doing[w].item[2] + 1 \in 0 .. MaxRetries - 1
        BY <2>1, <3>2, ItemFacts, UploaderAssumption
      <4> QED
        BY <1>7, <3>2, <4>1, ItemFacts DEF SaveFails
    <3> QED
      BY <3>1, <3>2
  <2> QED
    BY <1>7, <2>2, <2>3 DEF SaveFails
<1>8. ASSUME NEW w \in Workers, Exit(w) PROVE TypeOK'
  BY <1>8 DEF Exit, Step, WorkerPCs
<1>9. CASE Cancel \/ Close \/ Wait \/ UNCHANGED vars
  BY <1>9 DEF Cancel, Close, Wait, vars
<1> QED
  BY <1>1, <1>2, <1>3, <1>4, <1>5, <1>6, <1>7, <1>8, <1>9 DEF Next, Worker
(*----------------------- what each move does to places ---------------------*)
LEMMA SentPlaces ==
  ASSUME TypeOK, NEW item \in Items, Send(item)
  PROVE  /\ \A t \in Tasks : InChannel(t)' <=> InChannel(t) \/ t = item[1]
         /\ ChannelOnce /\ ~InChannel(item[1]) => ChannelOnce'
<1>1. /\ Len(tasks) \in Nat /\ Len(tasks') = Len(tasks) + 1
      /\ tasks'[Len(tasks) + 1] = item
      /\ \A k \in 1 .. Len(tasks) : tasks'[k] = tasks[k]
  BY AppendFacts DEF TypeOK, Send
<1>2. \A k \in 1 .. Len(tasks') : k \in 1 .. Len(tasks) \/ k = Len(tasks) + 1
  BY <1>1
<1>3. \A k \in 1 .. Len(tasks) : k \in 1 .. Len(tasks')
  BY <1>1
<1>4. Len(tasks) + 1 \in 1 .. Len(tasks')
  BY <1>1
<1>5. ASSUME NEW t \in Tasks PROVE InChannel(t)' <=> InChannel(t) \/ t = item[1]
  BY <1>1, <1>2, <1>3, <1>4 DEF InChannel
<1>6. ASSUME ChannelOnce, ~InChannel(item[1]),
             NEW k \in 1 .. Len(tasks'), NEW l \in 1 .. Len(tasks'), tasks'[k][1] = tasks'[l][1]
      PROVE  k = l
  BY <1>1, <1>2, <1>6 DEF ChannelOnce, InChannel
<1> QED
  BY <1>5, <1>6 DEF ChannelOnce

LEMMA ReceivedPlaces ==
  ASSUME TypeOK, ChannelOnce, tasks # <<>>, tasks' = Tail(tasks)
  PROVE  /\ \A t \in Tasks : InChannel(t)' <=> InChannel(t) /\ t # Head(tasks)[1]
         /\ InChannel(Head(tasks)[1])
         /\ ChannelOnce'
<1>1. /\ Len(tasks) \in Nat \ {0} /\ Len(tasks') = Len(tasks) - 1
      /\ Head(tasks) = tasks[1]
      /\ \A k \in 1 .. Len(tasks) - 1 : tasks'[k] = tasks[k + 1]
  BY TailFacts DEF TypeOK
<1>2. /\ \A k \in 1 .. Len(tasks') : k + 1 \in 1 .. Len(tasks) /\ k + 1 # 1
      /\ \A k \in 1 .. Len(tasks) : k # 1 => k - 1 \in 1 .. Len(tasks') /\ (k - 1) + 1 = k
      /\ 1 \in 1 .. Len(tasks)
  BY <1>1
<1>3. ASSUME NEW t \in Tasks, InChannel(t)' PROVE InChannel(t) /\ t # Head(tasks)[1]
  <2>1. PICK k \in 1 .. Len(tasks') : tasks'[k][1] = t
    BY <1>3 DEF InChannel
  <2>2. k + 1 \in 1 .. Len(tasks) /\ k + 1 # 1 /\ tasks[k + 1][1] = t
    BY <1>1, <1>2, <2>1
  <2> QED
    BY <1>1, <1>2, <2>2 DEF ChannelOnce, InChannel
<1>4. ASSUME NEW t \in Tasks, InChannel(t), t # Head(tasks)[1] PROVE InChannel(t)'
  <2>1. PICK k \in 1 .. Len(tasks) : tasks[k][1] = t
    BY <1>4 DEF InChannel
  <2>2. k # 1
    BY <1>1, <1>4, <2>1
  <2>3. k - 1 \in 1 .. Len(tasks') /\ tasks'[k - 1][1] = t
    BY <1>1, <1>2, <2>1, <2>2
  <2> QED
    BY <2>3 DEF InChannel
<1>5. ChannelOnce'
  <2> SUFFICES ASSUME NEW k \in 1 .. Len(tasks'), NEW l \in 1 .. Len(tasks'),
                      tasks'[k][1] = tasks'[l][1]
               PROVE  k = l
    BY DEF ChannelOnce
  <2>1. tasks[k + 1][1] = tasks[l + 1][1] /\ k + 1 \in 1 .. Len(tasks) /\ l + 1 \in 1 .. Len(tasks)
    BY <1>1, <1>2
  <2>2. k + 1 = l + 1
    BY <2>1 DEF ChannelOnce
  <2> QED
    BY <2>2
<1>6. InChannel(Head(tasks)[1])
  BY <1>1, <1>2 DEF InChannel
<1> QED
  BY <1>3, <1>4, <1>5, <1>6

(* A worker puts down its item, and goes on or leaves.                     *)
LEMMA WorkerPutsDown ==
  ASSUME TypeOK, WorkerOnce, NEW w \in Workers, Busy(w),
         NEW pc \in {"receiving", "exited"}, Step(w, pc)
  PROVE  /\ \A t \in Tasks : WithWorker(t)' <=> WithWorker(t) /\ t # doing[w].item[1]
         /\ WithWorker(doing[w].item[1]) /\ doing[w].item[1] \in Tasks
         /\ WorkerOnce'
<1>1. /\ doing'[w].pc = pc
      /\ \A v \in Workers : v # w => doing'[v] = doing[v]
  BY DEF TypeOK, Step
<1>2. ~Busy(w)' /\ \A v \in Workers : v # w => (Busy(v)' <=> Busy(v))
  BY <1>1 DEF Busy
<1>3. doing[w].item[1] \in Tasks
  BY ItemFacts DEF TypeOK
<1> QED
  BY <1>1, <1>2, <1>3 DEF WithWorker, WorkerOnce

LEMMA TimerTaken ==
  ASSUME TimerOnce, NEW i \in timers, timers' = timers \ {i}
  PROVE  /\ \A t \in Tasks : WithTimer(t)' <=> WithTimer(t) /\ t # i[1]
         /\ WithTimer(i[1])
         /\ TimerOnce'
  BY DEF WithTimer, TimerOnce

LEMMA Unmoved ==
  /\ UNCHANGED tasks => (ChannelOnce' <=> ChannelOnce) /\ \A t \in Tasks : InChannel(t)' <=> InChannel(t)
  /\ UNCHANGED doing => (WorkerOnce' <=> WorkerOnce) /\ \A t \in Tasks : WithWorker(t)' <=> WithWorker(t)
  /\ UNCHANGED timers => (TimerOnce' <=> TimerOnce) /\ \A t \in Tasks : WithTimer(t)' <=> WithTimer(t)
  BY DEF ChannelOnce, InChannel, WorkerOnce, WithWorker, Busy, TimerOnce, WithTimer

(*------------------------- the places, per action -------------------------*)
LEMMA SubmitStep ==
  ASSUME TypeOK, PlacesInv, NEW t \in Tasks, Submit(t)
  PROVE  PlacesInv'
<1> USE DEF PlacesInv, OncePerPlace
<1>1. /\ outcome[t] = "new"
      /\ UNCHANGED <<doing, timers>>
      /\ \A u \in Tasks : u # t => outcome'[u] = outcome[u]
  BY DEF TypeOK, Submit, Settle
<1>2. ~Somewhere(t)
  BY <1>1 DEF Accounted
<1>3. /\ WorkerOnce' /\ TimerOnce'
      /\ \A u \in Tasks : (WithWorker(u)' <=> WithWorker(u)) /\ (WithTimer(u)' <=> WithTimer(u))
  BY <1>1, Unmoved
<1>4. CASE Full
  <2>1. outcome'[t] = "rejected" /\ UNCHANGED tasks
    BY <1>4 DEF TypeOK, Submit, Settle
  <2>2. ChannelOnce' /\ \A u \in Tasks : InChannel(u)' <=> InChannel(u)
    BY <2>1, Unmoved
  <2>3. OnePlace'
    BY <1>3, <2>2 DEF OnePlace
  <2>4. Accounted'
    BY <1>1, <1>2, <1>3, <2>1, <2>2 DEF Accounted, Somewhere
  <2> QED
    BY <1>3, <2>2, <2>3, <2>4
<1>5. CASE ~Full
  <2>1. outcome'[t] = "accepted" /\ Send(<<t, 0>>)
    BY <1>5 DEF TypeOK, Submit, Settle
  <2>2. <<t, 0>> \in Items /\ <<t, 0>>[1] = t
    BY ItemFacts, UploaderAssumption
  <2>3. ChannelOnce' /\ \A u \in Tasks : InChannel(u)' <=> InChannel(u) \/ u = t
    BY <1>2, <2>1, <2>2, SentPlaces DEF Somewhere
  <2>4. OnePlace'
    BY <1>2, <1>3, <2>3 DEF OnePlace, Somewhere
  <2>5. Accounted'
    BY <1>1, <1>3, <2>1, <2>3 DEF Accounted, Somewhere
  <2> QED
    BY <1>3, <2>3, <2>4, <2>5
<1> QED
  BY <1>4, <1>5

LEMMA TimerFiresStep ==
  ASSUME TypeOK, PlacesInv, NEW i \in Items, TimerFires(i), ~panicked'
  PROVE  PlacesInv'
<1> USE DEF PlacesInv, OncePerPlace
<1>1. i \in timers /\ timers' = timers \ {i} /\ UNCHANGED doing /\ ~closed
  BY DEF TimerFires
<1>2. i[1] \in Tasks
  BY ItemFacts
<1>3. /\ TimerOnce' /\ WithTimer(i[1])
      /\ \A u \in Tasks : WithTimer(u)' <=> WithTimer(u) /\ u # i[1]
  BY <1>1, TimerTaken
<1>4. WorkerOnce' /\ \A u \in Tasks : WithWorker(u)' <=> WithWorker(u)
  BY <1>1, Unmoved
<1>5. ~InChannel(i[1]) /\ ~WithWorker(i[1])
  BY <1>2, <1>3 DEF OnePlace
<1>6. CASE Full
  <2>1. UNCHANGED tasks /\ outcome'[i[1]] = "dropped"
        /\ \A u \in Tasks : u # i[1] => outcome'[u] = outcome[u]
    BY <1>1, <1>2, <1>6 DEF TypeOK, TimerFires, Settle
  <2>2. ChannelOnce' /\ \A u \in Tasks : InChannel(u)' <=> InChannel(u)
    BY <2>1, Unmoved
  <2>3. OnePlace'
    BY <1>3, <1>4, <2>2 DEF OnePlace
  <2>4. Accounted'
    BY <1>3, <1>4, <1>5, <2>1, <2>2 DEF Accounted, Somewhere
  <2> QED
    BY <1>3, <1>4, <2>2, <2>3, <2>4
<1>7. CASE ~Full
  <2>1. Send(i) /\ UNCHANGED outcome
    BY <1>1, <1>7 DEF TimerFires
  <2>2. ChannelOnce' /\ \A u \in Tasks : InChannel(u)' <=> InChannel(u) \/ u = i[1]
    BY <1>5, <2>1, SentPlaces
  <2>3. OnePlace'
    BY <1>3, <1>4, <1>5, <2>2 DEF OnePlace
  <2>4. Accounted'
    BY <1>2, <1>3, <1>4, <2>1, <2>2 DEF Accounted, Somewhere
  <2> QED
    BY <1>3, <1>4, <2>2, <2>3, <2>4
<1> QED
  BY <1>6, <1>7

LEMMA ReceiveStep ==
  ASSUME TypeOK, PlacesInv, NEW w \in Workers, Receive(w)
  PROVE  PlacesInv'
<1> USE DEF PlacesInv, OncePerPlace
<1> DEFINE item == Head(tasks)
<1>1. /\ tasks # <<>> /\ tasks' = Tail(tasks) /\ UNCHANGED <<timers, outcome>>
      /\ ~Busy(w)
      /\ doing'[w] = [pc |-> "counting", item |-> item]
      /\ \A v \in Workers : v # w => doing'[v] = doing[v]
  BY DEF TypeOK, Receive, Busy
<1>2. item[1] \in Tasks
  BY <1>1, TailFacts, ItemFacts DEF TypeOK
<1>3. /\ ChannelOnce' /\ InChannel(item[1])
      /\ \A u \in Tasks : InChannel(u)' <=> InChannel(u) /\ u # item[1]
  BY <1>1, ReceivedPlaces
<1>4. ~WithWorker(item[1]) /\ ~WithTimer(item[1])
  BY <1>2, <1>3 DEF OnePlace
<1>5. TimerOnce' /\ \A u \in Tasks : WithTimer(u)' <=> WithTimer(u)
  BY <1>1, Unmoved
<1>6. /\ Busy(w)' /\ doing'[w].item = item
      /\ \A v \in Workers : v # w => (Busy(v)' <=> Busy(v)) /\ doing'[v].item = doing[v].item
  BY <1>1 DEF Busy
<1>7. \A u \in Tasks : WithWorker(u)' <=> WithWorker(u) \/ u = item[1]
  BY <1>1, <1>6 DEF WithWorker
<1>8. WorkerOnce'
  <2>1. \A v \in Workers : Busy(v) => doing[v].item[1] # item[1]
    BY <1>4 DEF WithWorker
  <2> QED
    BY <1>6, <2>1 DEF WorkerOnce
<1>9. OnePlace'
  BY <1>3, <1>4, <1>5, <1>7 DEF OnePlace
<1>10. Accounted'
  BY <1>1, <1>2, <1>3, <1>5, <1>7 DEF Accounted, Somewhere
<1> QED
  BY <1>3, <1>5, <1>8, <1>9, <1>10

(* Steps that change no place: the counters, Exit and Shutdown.            *)
LEMMA StayStep ==
  ASSUME PlacesInv, UNCHANGED <<tasks, timers, outcome>>,
         \A w \in Workers : (Busy(w)' <=> Busy(w)) /\ doing'[w].item = doing[w].item
  PROVE  PlacesInv'
<1>1. WorkerOnce' /\ \A t \in Tasks : WithWorker(t)' <=> WithWorker(t)
  BY DEF PlacesInv, OncePerPlace, WorkerOnce, WithWorker
<1>2. /\ ChannelOnce' /\ TimerOnce'
      /\ \A t \in Tasks : (InChannel(t)' <=> InChannel(t)) /\ (WithTimer(t)' <=> WithTimer(t))
  BY Unmoved DEF PlacesInv, OncePerPlace
<1>3. OnePlace'
  BY <1>1, <1>2 DEF PlacesInv, OnePlace
<1>4. Accounted'
  BY <1>1, <1>2 DEF PlacesInv, Accounted, Somewhere
<1> QED
  BY <1>1, <1>2, <1>3, <1>4 DEF PlacesInv, OncePerPlace

LEMMA SaveSucceedsStep ==
  ASSUME TypeOK, PlacesInv, NEW w \in Workers, SaveSucceeds(w)
  PROVE  PlacesInv'
<1> USE DEF PlacesInv, OncePerPlace
<1> DEFINE t == doing[w].item[1]
<1>1. Busy(w) /\ Step(w, "receiving") /\ UNCHANGED <<tasks, timers>>
  BY DEF SaveSucceeds, Busy
<1>2. /\ WorkerOnce' /\ WithWorker(t) /\ t \in Tasks
      /\ \A u \in Tasks : WithWorker(u)' <=> WithWorker(u) /\ u # t
  BY <1>1, WorkerPutsDown
<1>3. /\ ChannelOnce' /\ TimerOnce'
      /\ \A u \in Tasks : (InChannel(u)' <=> InChannel(u)) /\ (WithTimer(u)' <=> WithTimer(u))
  BY <1>1, Unmoved
<1>4. outcome'[t] = "uploaded" /\ \A u \in Tasks : u # t => outcome'[u] = outcome[u]
  BY <1>2 DEF SaveSucceeds, Settle, TypeOK
<1>5. OnePlace'
  BY <1>2, <1>3 DEF OnePlace
<1>6. Accounted'
  BY <1>2, <1>3, <1>4 DEF OnePlace, Accounted, Somewhere
<1> QED
  BY <1>2, <1>3, <1>5, <1>6

LEMMA SaveFailsStep ==
  ASSUME TypeOK, PlacesInv, NEW w \in Workers, SaveFails(w)
  PROVE  PlacesInv'
<1> USE DEF PlacesInv, OncePerPlace
<1> DEFINE t == doing[w].item[1]
           attempt == doing[w].item[2]
<1>1. Busy(w) /\ Step(w, "receiving") /\ UNCHANGED tasks
  BY DEF SaveFails, Busy
<1>2. /\ WorkerOnce' /\ WithWorker(t) /\ t \in Tasks
      /\ \A u \in Tasks : WithWorker(u)' <=> WithWorker(u) /\ u # t
  BY <1>1, WorkerPutsDown
<1>3. ChannelOnce' /\ \A u \in Tasks : InChannel(u)' <=> InChannel(u)
  BY <1>1, Unmoved
<1>4. ~InChannel(t) /\ ~WithTimer(t)
  BY <1>2 DEF OnePlace
<1>5. CASE attempt + 1 >= MaxRetries
  <2>1. /\ UNCHANGED timers
        /\ outcome'[t] = "gaveUp" /\ \A u \in Tasks : u # t => outcome'[u] = outcome[u]
    BY <1>2, <1>5 DEF SaveFails, Settle, TypeOK
  <2>2. TimerOnce' /\ \A u \in Tasks : WithTimer(u)' <=> WithTimer(u)
    BY <2>1, Unmoved
  <2>3. OnePlace'
    BY <1>2, <1>3, <2>2 DEF OnePlace
  <2>4. Accounted'
    BY <1>2, <1>3, <1>4, <2>1, <2>2 DEF Accounted, Somewhere
  <2> QED
    BY <1>2, <1>3, <2>2, <2>3, <2>4
<1>6. CASE ~(attempt + 1 >= MaxRetries)
  <2>1. timers' = timers \cup {<<t, attempt + 1>>} /\ UNCHANGED outcome
    BY <1>6 DEF SaveFails
  <2>2. ASSUME NEW u \in Tasks PROVE WithTimer(u)' <=> WithTimer(u) \/ u = t
    <3>1. PICK item : item = <<t, attempt + 1>>
      OBVIOUS
    <3>2. item[1] = t
      BY <3>1
    <3>3. timers' = timers \cup {item}
      BY <2>1, <3>1
    <3> QED
      BY <3>2, <3>3 DEF WithTimer
  <2>3. TimerOnce'
    <3>1. \A i \in timers : i[1] # t
      BY <1>4 DEF WithTimer
    <3> QED
      BY <2>1, <3>1 DEF TimerOnce
  <2>4. OnePlace'
    BY <1>2, <1>3, <1>4, <2>2 DEF OnePlace
  <2>5. Accounted'
    BY <1>2, <1>3, <2>1, <2>2 DEF Accounted, Somewhere
  <2> QED
    BY <1>2, <1>3, <2>3, <2>4, <2>5
<1> QED
  BY <1>5, <1>6

LEMMA StepInv == UploaderInv /\ [Next]_vars => UploaderInv'
<1> SUFFICES ASSUME UploaderInv, [Next]_vars PROVE UploaderInv'
  OBVIOUS
<1>1. TypeOK /\ TypeOK'
  BY TypeStep DEF UploaderInv
<1> SUFFICES ASSUME ~panicked' PROVE PlacesInv'
  BY <1>1 DEF UploaderInv
<1>2. CASE UNCHANGED vars
  <2>1. PlacesInv /\ UNCHANGED <<tasks, doing, timers, outcome>>
    BY <1>2 DEF UploaderInv, vars
  <2> QED
    BY <2>1, StayStep DEF Busy
<1>3. CASE Next
  <2>1. PlacesInv
    BY <1>3 DEF UploaderInv, Next, Submit, TimerFires, CountSend, Worker, Receive, CountReceive,
           SaveSucceeds, SaveFails, Exit, Cancel, Close, Wait
  <2>2. ASSUME NEW t \in Tasks, Submit(t) PROVE PlacesInv'
    BY <1>1, <2>1, <2>2, SubmitStep
  <2>3. ASSUME NEW i \in Items, TimerFires(i) PROVE PlacesInv'
    BY <1>1, <2>1, <2>3, TimerFiresStep
  <2>4. ASSUME NEW w \in Workers, Receive(w) PROVE PlacesInv'
    BY <1>1, <2>1, <2>4, ReceiveStep
  <2>5. ASSUME NEW w \in Workers, SaveSucceeds(w) PROVE PlacesInv'
    BY <1>1, <2>1, <2>5, SaveSucceedsStep
  <2>6. ASSUME NEW w \in Workers, SaveFails(w) PROVE PlacesInv'
    BY <1>1, <2>1, <2>6, SaveFailsStep
  <2>7. ASSUME NEW w \in Workers, CountReceive(w) \/ Exit(w) PROVE PlacesInv'
    <3>1. /\ UNCHANGED <<tasks, timers, outcome>>
          /\ \A v \in Workers : (Busy(v)' <=> Busy(v)) /\ doing'[v].item = doing[v].item
      BY <1>1, <2>7 DEF TypeOK, CountReceive, Exit, Step, Busy
    <3> QED
      BY <2>1, <3>1, StayStep
  <2>8. CASE CountSend \/ Cancel \/ Close \/ Wait
    <3>1. UNCHANGED <<tasks, timers, outcome, doing>>
      BY <2>8 DEF CountSend, Cancel, Close, Wait
    <3> QED
      BY <2>1, <3>1, StayStep DEF Busy
  <2> QED
    BY <1>3, <2>2, <2>3, <2>4, <2>5, <2>6, <2>7, <2>8 DEF Next, Worker
<1> QED
  BY <1>2, <1>3

LEMMA InvHolds == Spec => []UploaderInv
  BY InitInv, StepInv, PTL DEF Spec

(* Every variable of the pool keeps its type.                              *)
THEOREM TypeCorrect == Spec => []TypeOK
<1>1. UploaderInv => TypeOK
  BY DEF UploaderInv
<1> QED
  BY <1>1, InvHolds, PTL

(* uploader.go: the channel, the workers and the backoff timers together   *)
(* hold every accepted snapshot exactly once.                              *)
THEOREM TasksInOnePlace == Spec => []NoTaskLostOrDoubled
<1>1. UploaderInv => NoTaskLostOrDoubled
  <2> SUFFICES ASSUME TypeOK, PlacesInv, NEW t \in Tasks
               PROVE  Places(t) = IF outcome[t] = "accepted" THEN 1 ELSE 0
    BY DEF UploaderInv, NoTaskLostOrDoubled
  <2> USE DEF PlacesInv, OncePerPlace
  <2>1. Cardinality(Queued(t)) = IF InChannel(t) THEN 1 ELSE 0
    <3>1. DOMAIN tasks = 1 .. Len(tasks)
      BY DEF TypeOK
    <3>2. CASE InChannel(t)
      <4>1. PICK k \in 1 .. Len(tasks) : tasks[k][1] = t
        BY <3>2 DEF InChannel
      <4>2. Queued(t) = {k}
        BY <3>1, <4>1 DEF Queued, ChannelOnce
      <4> QED
        BY <3>2, <4>2, FS_Singleton
    <3>3. CASE ~InChannel(t)
      <4>1. Queued(t) = {}
        BY <3>1, <3>3 DEF Queued, InChannel
      <4> QED
        BY <3>3, <4>1, FS_EmptySet
    <3> QED
      BY <3>2, <3>3
  <2>2. Cardinality(Held(t)) = IF WithWorker(t) THEN 1 ELSE 0
    <3>1. CASE WithWorker(t)
      <4>1. PICK w \in Workers : Busy(w) /\ doing[w].item[1] = t
        BY <3>1 DEF WithWorker
      <4>2. Held(t) = {w}
        BY <4>1 DEF Held, WorkerOnce, Busy
      <4> QED
        BY <3>1, <4>2, FS_Singleton
    <3>2. CASE ~WithWorker(t)
      <4>1. Held(t) = {}
        BY <3>2 DEF Held, WithWorker, Busy
      <4> QED
        BY <3>2, <4>1, FS_EmptySet
    <3> QED
      BY <3>1, <3>2
  <2>3. Cardinality(Delayed(t)) = IF WithTimer(t) THEN 1 ELSE 0
    <3>1. CASE WithTimer(t)
      <4>1. PICK i \in timers : i[1] = t
        BY <3>1 DEF WithTimer
      <4>2. Delayed(t) = {i}
        BY <4>1 DEF Delayed, TimerOnce
      <4> QED
        BY <3>1, <4>2, FS_Singleton
    <3>2. CASE ~WithTimer(t)
      <4>1. Delayed(t) = {}
        BY <3>2 DEF Delayed, WithTimer
      <4> QED
        BY <3>2, <4>1, FS_EmptySet
    <3> QED
      BY <3>1, <3>2
  <2>4. /\ InChannel(t) => ~WithWorker(t) /\ ~WithTimer(t)
        /\ WithWorker(t) => ~WithTimer(t)
        /\ outcome[t] = "accepted" <=> InChannel(t) \/ WithWorker(t) \/ WithTimer(t)
    BY DEF OnePlace, Accounted, Somewhere
  <2> QED
    BY <2>1, <2>2, <2>3, <2>4 DEF Places
<1> QED
  BY <1>1, InvHolds, PTL

(*-------------------------------- the counters -----------------------------*)
(* What is in flight has failed in exactly the attempts before its own,    *)
(* what was given up in all of them, what was never sent in none: so the   *)
(* upload that fails next has not been counted yet.                        *)
Counting == {w \in Workers : doing[w].pc = "counting"}
Uploaded == {t \in Tasks : outcome[t] = "uploaded"}
GivenUp == {t \in Tasks : outcome[t] = "gaveUp"}
InFlight(i) ==
  \/ \E k \in 1 .. Len(tasks) : tasks[k] = i
  \/ \E w \in Workers : Busy(w) /\ doing[w].item = i
  \/ i \in timers
Numbers == 0 .. MaxRetries - 1

FlightErrors ==
  \A i \in Items : InFlight(i) => \A n \in Numbers : <<i[1], n>> \in errors <=> n < i[2]
SettledErrors ==
  \A t \in Tasks, n \in Numbers : /\ outcome[t] = "gaveUp" => <<t, n>> \in errors
                                  /\ outcome[t] = "new" => <<t, n>> \notin errors
CountersInv ==
  /\ IsFiniteSet(Counting) /\ pending + uncounted = Len(tasks) + Cardinality(Counting)
  /\ succeeded = Cardinality(Uploaded)
  /\ IsFiniteSet(errors) /\ failed = Cardinality(errors)
  /\ FlightErrors /\ SettledErrors

LEMMA FiniteCounts == IsFiniteSet(Uploaded)
  BY UploaderAssumption, FS_Subset DEF Uploaded

(* What happens to the items in flight.                                    *)
LEMMA FlightStep ==
  ASSUME TypeOK, [Next]_vars, NEW i \in Items, InFlight(i)', ~InFlight(i)
  PROVE  \/ i[2] = 0 /\ outcome[i[1]] = "new"
         \/ \E w \in Workers : SaveFails(w)
<1>1. ASSUME UNCHANGED <<tasks, timers>>,
             \A w \in Workers : Busy(w)' => Busy(w) /\ doing'[w].item = doing[w].item
      PROVE  FALSE
  BY <1>1 DEF InFlight
<1>2. ASSUME NEW t \in Tasks, Submit(t) PROVE i[2] = 0 /\ outcome[i[1]] = "new"
  <2>0. outcome[t] = "new"
    BY <1>2 DEF Submit
  <2>1. <<t, 0>> \in Items /\ UNCHANGED <<doing, timers>>
    BY <1>2, ItemFacts, UploaderAssumption DEF Submit
  <2>2. \A w \in Workers : Busy(w)' <=> Busy(w)
    BY <2>1 DEF Busy
  <2>3. CASE Full
    BY <1>1, <1>2, <2>1, <2>2, <2>3 DEF Submit
  <2>4. CASE ~Full
    <3>1. tasks' = Append(tasks, <<t, 0>>)
      BY <1>2, <2>4 DEF Submit, Send
    <3>2. PICK j \in Items : j = <<t, 0>>
      BY <2>1
    <3>3. /\ Len(tasks') = Len(tasks) + 1 /\ Len(tasks) \in Nat /\ tasks'[Len(tasks) + 1] = j
          /\ \A k \in 1 .. Len(tasks) : tasks'[k] = tasks[k]
      BY <3>1, <3>2, AppendFacts DEF TypeOK
    <3>4. i = j
      BY <2>1, <2>2, <3>3 DEF InFlight
    <3> QED
      BY <2>0, <3>2, <3>4
  <2> QED
    BY <2>3, <2>4
<1>3. ASSUME NEW j \in Items, TimerFires(j) PROVE FALSE
  <2>1. j \in timers /\ timers' \subseteq timers /\ UNCHANGED doing
    BY <1>3 DEF TimerFires
  <2>2. \A w \in Workers : Busy(w)' <=> Busy(w)
    BY <2>1 DEF Busy
  <2>3. CASE UNCHANGED tasks
    BY <2>1, <2>2, <2>3 DEF InFlight
  <2>4. CASE tasks' = Append(tasks, j)
    <3>1. /\ Len(tasks') = Len(tasks) + 1 /\ Len(tasks) \in Nat /\ tasks'[Len(tasks) + 1] = j
          /\ \A k \in 1 .. Len(tasks) : tasks'[k] = tasks[k]
      BY <2>4, AppendFacts DEF TypeOK
    <3> QED
      BY <2>1, <2>2, <3>1 DEF InFlight
  <2> QED
    BY <1>3, <2>3, <2>4 DEF TimerFires, Send
<1>4. ASSUME NEW w \in Workers, Receive(w) PROVE FALSE
  <2>1. /\ tasks # <<>> /\ tasks' = Tail(tasks) /\ UNCHANGED timers
        /\ doing'[w].item = Head(tasks)
        /\ \A v \in Workers : v # w => doing'[v] = doing[v]
    BY <1>4 DEF TypeOK, Receive
  <2>2. /\ Head(tasks) = tasks[1] /\ Len(tasks) \in Nat \ {0} /\ Len(tasks') = Len(tasks) - 1
        /\ \A k \in 1 .. Len(tasks) - 1 : tasks'[k] = tasks[k + 1]
    BY <2>1, TailFacts DEF TypeOK
  <2>3. \A k \in 1 .. Len(tasks') : k + 1 \in 1 .. Len(tasks) /\ tasks'[k] = tasks[k + 1]
    BY <2>2
  <2>4. 1 \in 1 .. Len(tasks)
    BY <2>2
  <2>5. \A v \in Workers : v # w => (Busy(v)' <=> Busy(v))
    BY <2>1 DEF Busy
  <2> QED
    BY <2>1, <2>2, <2>3, <2>4, <2>5 DEF InFlight
<1>5. ASSUME NEW w \in Workers, CountReceive(w) \/ SaveSucceeds(w) \/ Exit(w) PROVE FALSE
  <2>1. /\ UNCHANGED <<tasks, timers>>
        /\ \A v \in Workers : Busy(v)' => Busy(v) /\ doing'[v].item = doing[v].item
    BY <1>5 DEF TypeOK, CountReceive, SaveSucceeds, Exit, Step, Busy
  <2> QED
    BY <1>1, <2>1
<1>6. CASE CountSend \/ Cancel \/ Close \/ Wait \/ UNCHANGED vars
  <2>1. UNCHANGED <<tasks, timers, doing>>
    BY <1>6 DEF CountSend, Cancel, Close, Wait, vars
  <2> QED
    BY <1>1, <2>1 DEF Busy
<1> QED
  BY <1>2, <1>3, <1>4, <1>5, <1>6 DEF Next, Worker

(* A failure is new, and what retries it has failed once more.             *)
LEMMA OneMoreFailure ==
  ASSUME TypeOK, PlacesInv, NEW w \in Workers, SaveFails(w), FlightErrors, SettledErrors
  PROVE  doing[w].item \notin errors /\ FlightErrors' /\ SettledErrors'
<1>0. PICK t \in Tasks, n \in Numbers : doing[w].item = <<t, n>>
  BY DEF TypeOK, Items, Numbers
<1>1. /\ Busy(w) /\ doing[w].item \in Items /\ InFlight(doing[w].item)
      /\ MaxRetries \in Nat \ {0} /\ n \in Nat /\ doing[w].item[1] = t /\ doing[w].item[2] = n
  <2>1. Busy(w) /\ doing[w].item \in Items
    BY DEF SaveFails, Busy, TypeOK
  <2>2. InFlight(doing[w].item)
    BY <2>1 DEF InFlight
  <2>3. MaxRetries \in Nat \ {0} /\ n \in Nat
    BY UploaderAssumption DEF Numbers
  <2> QED
    BY <1>0, <2>1, <2>2, <2>3
<1>2. \A m \in Numbers : <<t, m>> \in errors <=> m < n
  BY <1>1 DEF FlightErrors
<1>3. \A u \in Tasks, m \in Numbers : <<u, m>> \in errors' <=> <<u, m>> \in errors \/ (u = t /\ m = n)
  BY <1>0 DEF SaveFails
<1>4. doing[w].item \notin errors
  BY <1>0, <1>1, <1>2
<1>5. outcome[t] = "accepted"
  BY <1>1 DEF PlacesInv, Accounted, Somewhere, WithWorker
<1>6. \A v \in Workers : Busy(v)' => Busy(v) /\ v # w /\ doing'[v].item = doing[v].item
  BY DEF SaveFails, Step, Busy, TypeOK
<1>7. CASE n + 1 >= MaxRetries
  <2>1. timers' = timers /\ tasks' = tasks /\ outcome' = [outcome EXCEPT ![t] = "gaveUp"]
    BY <1>1, <1>7 DEF SaveFails, Settle
  <2>2. ASSUME NEW i \in Items, InFlight(i)' PROVE InFlight(i) /\ i[1] # t
    <3>1. InFlight(i)
      BY <1>6, <2>1, <2>2 DEF InFlight
    <3>2. i[1] # t
      BY <1>1, <1>6, <2>1, <2>2
      DEF InFlight, PlacesInv, OnePlace, OncePerPlace, WorkerOnce, InChannel, WithWorker, WithTimer
    <3> QED
      BY <3>1, <3>2
  <2>3. FlightErrors'
    BY <1>3, <2>2, ItemFacts DEF FlightErrors
  <2>4. \A m \in Numbers : m < n \/ m = n
    BY <1>1, <1>7 DEF Numbers
  <2>5. \A u \in Tasks : outcome'[u] = IF u = t THEN "gaveUp" ELSE outcome[u]
    BY <2>1 DEF TypeOK
  <2>6. SettledErrors'
    BY <1>2, <1>3, <2>4, <2>5 DEF SettledErrors
  <2> QED
    BY <1>4, <2>3, <2>6
<1>8. CASE ~(n + 1 >= MaxRetries)
  <2>0. PICK new \in Items : new = <<t, n + 1>>
    <3>1. n + 1 \in 0 .. MaxRetries - 1
      BY <1>1, <1>8
    <3> QED
      BY <3>1 DEF Items
  <2>1. timers' = timers \cup {new} /\ tasks' = tasks /\ outcome' = outcome
    BY <1>1, <1>8, <2>0 DEF SaveFails
  <2>2. ASSUME NEW i \in Items, InFlight(i)', i # new PROVE InFlight(i) /\ i[1] # t
    <3>1. InFlight(i)
      BY <1>6, <2>1, <2>2 DEF InFlight
    <3>2. i[1] # t
      BY <1>1, <1>6, <2>1, <2>2
      DEF InFlight, PlacesInv, OnePlace, OncePerPlace, WorkerOnce, InChannel, WithWorker, WithTimer
    <3> QED
      BY <3>1, <3>2
  <2>3. \A m \in Numbers : <<t, m>> \in errors' <=> m < n + 1
    BY <1>1, <1>2, <1>3 DEF Numbers
  <2>4. new[1] = t /\ new[2] = n + 1
    BY <2>0
  <2>5. ASSUME NEW i \in Items, InFlight(i)', NEW m \in Numbers
        PROVE  <<i[1], m>> \in errors' <=> m < i[2]
    <3>1. CASE i = new
      BY <2>3, <2>4, <3>1
    <3>2. CASE i # new
      <4>1. InFlight(i) /\ i[1] # t /\ i[1] \in Tasks
        BY <2>2, <2>5, <3>2, ItemFacts
      <4> QED
        BY <1>3, <4>1 DEF FlightErrors
    <3> QED
      BY <3>1, <3>2
  <2>6. FlightErrors'
    BY <2>5 DEF FlightErrors
  <2>7. SettledErrors'
    BY <1>3, <1>5, <2>1 DEF SettledErrors
  <2> QED
    BY <1>4, <2>6, <2>7
<1> QED
  BY <1>7, <1>8

LEMMA ErrorsStep ==
  ASSUME TypeOK, ~panicked => PlacesInv, [Next]_vars,
         IsFiniteSet(errors), failed = Cardinality(errors), FlightErrors, SettledErrors
  PROVE  /\ IsFiniteSet(errors') /\ failed' = Cardinality(errors')
         /\ FlightErrors' /\ SettledErrors'
<1>1. ASSUME NEW w \in Workers, SaveFails(w)
      PROVE  /\ IsFiniteSet(errors') /\ failed' = Cardinality(errors')
             /\ FlightErrors' /\ SettledErrors'
  <2>1. doing[w].item \notin errors /\ FlightErrors' /\ SettledErrors'
    BY <1>1, OneMoreFailure DEF SaveFails
  <2>2. errors' = errors \cup {doing[w].item} /\ failed' = failed + 1
    BY <1>1 DEF SaveFails
  <2> QED
    BY <2>1, <2>2, FS_AddElement
<1>2. CASE ~\E w \in Workers : SaveFails(w)
  <2>1. \A i \in Items : InFlight(i)' => InFlight(i) \/ (i[2] = 0 /\ outcome[i[1]] = "new")
    BY <1>2, FlightStep
  <2>2. failed' = failed /\ errors' = errors
    BY <1>2 DEF Next, vars, Submit, TimerFires, CountSend, Worker, Receive, CountReceive,
                SaveSucceeds, Exit, Cancel, Close, Wait
  <2>3. \A t \in Tasks : /\ outcome'[t] = "gaveUp" => outcome[t] = "gaveUp"
                         /\ outcome'[t] = "new" => outcome[t] = "new"
    BY <1>2, ItemFacts DEF Next, vars, Submit, TimerFires, CountSend, Worker, Receive,
                CountReceive, SaveSucceeds, Exit, Cancel, Close, Wait, Settle, TypeOK
  <2>4. SettledErrors'
    BY <2>2, <2>3 DEF SettledErrors
  <2>5. ASSUME NEW i \in Items, InFlight(i)', NEW n \in Numbers
        PROVE  <<i[1], n>> \in errors' <=> n < i[2]
    <3>1. CASE InFlight(i)
      BY <2>2, <3>1 DEF FlightErrors
    <3>2. CASE ~InFlight(i)
      <4>1. i[2] = 0 /\ outcome[i[1]] = "new" /\ i[1] \in Tasks
        BY <2>1, <2>5, <3>2, ItemFacts
      <4>2. ~(n < 0)
        BY UploaderAssumption DEF Numbers
      <4> QED
        BY <2>2, <4>1, <4>2 DEF SettledErrors
    <3> QED
      BY <3>1, <3>2
  <2>6. FlightErrors'
    BY <2>5 DEF FlightErrors
  <2> QED
    BY <2>2, <2>4, <2>6
<1> QED
  BY <1>1, <1>2

(* The gauge: sends and receives are each counted after the channel.       *)
LEMMA GaugeStep ==
  ASSUME TypeOK, IsFiniteSet(Counting), [Next]_vars,
         pending + uncounted = Len(tasks) + Cardinality(Counting)
  PROVE  /\ IsFiniteSet(Counting')
         /\ pending' + uncounted' = Len(tasks') + Cardinality(Counting')
<1> DEFINE C == Counting
           D == Counting'
<1>0. /\ IsFiniteSet(C) /\ Cardinality(C) \in Nat /\ Len(tasks) \in Nat
      /\ pending \in Int /\ uncounted \in Nat
      /\ pending + uncounted = Len(tasks) + Cardinality(C)
  BY FS_CardinalityType DEF TypeOK
<1> SUFFICES IsFiniteSet(D) /\ pending' + uncounted' = Len(tasks') + Cardinality(D)
  OBVIOUS
<1>1. ASSUME D = C, pending' + uncounted' - Len(tasks') = pending + uncounted - Len(tasks),
             pending' \in Int, uncounted' \in Nat, Len(tasks') \in Nat
      PROVE  IsFiniteSet(D) /\ pending' + uncounted' = Len(tasks') + Cardinality(D)
  <2> HIDE DEF C, D
  <2>1. /\ pending \in Int /\ uncounted \in Int /\ Len(tasks) \in Int /\ Cardinality(C) \in Int
        /\ pending' \in Int /\ uncounted' \in Int /\ Len(tasks') \in Int
        /\ pending + uncounted = Len(tasks) + Cardinality(C)
        /\ pending' + uncounted' - Len(tasks') = pending + uncounted - Len(tasks)
    BY <1>0, <1>1
  <2>2. pending' + uncounted' = Len(tasks') + Cardinality(C)
    BY <2>1
  <2> QED
    BY <1>0, <1>1, <2>2, Zenon
<1>2. TypeOK' /\ Len(tasks') \in Nat
  BY TypeStep DEF TypeOK
<1>3. pending' \in Int /\ uncounted' \in Nat
  BY <1>2 DEF TypeOK
<1>4. ASSUME NEW t \in Tasks, Submit(t)
      PROVE  D = C /\ pending' + uncounted' - Len(tasks') = pending + uncounted - Len(tasks)
  <2>1. D = C /\ pending' = pending
    BY <1>4 DEF Counting, Submit
  <2>2. \/ tasks' = tasks /\ uncounted' = uncounted
        \/ Len(tasks') = Len(tasks) + 1 /\ uncounted' = uncounted + 1
    <3>1. <<t, 0>> \in Items
      BY ItemFacts, UploaderAssumption
    <3> QED
      BY <1>4, <3>1, AppendFacts DEF Submit, Send, TypeOK
  <2> HIDE DEF C, D
  <2> QED
    BY <1>0, <2>1, <2>2
<1>5. ASSUME NEW i \in Items, TimerFires(i)
      PROVE  D = C /\ pending' + uncounted' - Len(tasks') = pending + uncounted - Len(tasks)
  <2>1. D = C /\ pending' = pending
    BY <1>5 DEF Counting, TimerFires
  <2>2. \/ tasks' = tasks /\ uncounted' = uncounted
        \/ Len(tasks') = Len(tasks) + 1 /\ uncounted' = uncounted + 1
    BY <1>5, AppendFacts DEF TimerFires, Send, TypeOK
  <2> HIDE DEF C, D
  <2> QED
    BY <1>0, <2>1, <2>2
<1>6. CASE CountSend
  <2>1. D = C /\ tasks' = tasks /\ pending' = pending + 1 /\ uncounted' = uncounted - 1
    BY <1>6 DEF Counting, CountSend
  <2> HIDE DEF C, D
  <2> QED
    BY <1>0, <1>1, <1>2, <1>3, <2>1
<1>7. ASSUME NEW w \in Workers, Receive(w)
      PROVE  IsFiniteSet(D) /\ pending' + uncounted' = Len(tasks') + Cardinality(D)
  <2>1. D = C \cup {w} /\ w \notin C
    BY <1>7 DEF Counting, Receive, TypeOK
  <2>2. pending' = pending /\ uncounted' = uncounted /\ Len(tasks') = Len(tasks) - 1
    BY <1>7, TailFacts DEF Receive, TypeOK
  <2> HIDE DEF C, D
  <2>3. IsFiniteSet(D) /\ Cardinality(D) = Cardinality(C) + 1
    BY <1>0, <2>1, FS_AddElement
  <2> QED
    BY <1>0, <2>2, <2>3
<1>8. ASSUME NEW w \in Workers, CountReceive(w)
      PROVE  IsFiniteSet(D) /\ pending' + uncounted' = Len(tasks') + Cardinality(D)
  <2>1. D = C \ {w} /\ w \in C
    BY <1>8 DEF Counting, CountReceive, Step, TypeOK
  <2>2. pending' = pending - 1 /\ uncounted' = uncounted /\ tasks' = tasks
    BY <1>8 DEF CountReceive
  <2> HIDE DEF C, D
  <2>3. IsFiniteSet(D) /\ Cardinality(D) = Cardinality(C) - 1
    BY <1>0, <2>1, FS_RemoveElement
  <2> QED
    BY <1>0, <2>2, <2>3
<1>9. ASSUME \/ \E w \in Workers : SaveSucceeds(w) \/ SaveFails(w) \/ Exit(w)
             \/ Cancel \/ Close \/ Wait \/ UNCHANGED vars
      PROVE  D = C /\ UNCHANGED <<pending, uncounted, tasks>>
  <2>1. UNCHANGED <<pending, uncounted, tasks>>
    BY <1>9 DEF SaveSucceeds, SaveFails, Exit, Cancel, Close, Wait, vars
  <2>2. \A v \in Workers : doing'[v].pc = "counting" <=> doing[v].pc = "counting"
    BY <1>9 DEF SaveSucceeds, SaveFails, Exit, Step, Cancel, Close, Wait, vars, TypeOK
  <2> QED
    BY <2>1, <2>2 DEF Counting
<1>10. CASE \E w \in Workers : Worker(w)
  <2> HIDE DEF C, D
  <2> QED
    BY <1>0, <1>7, <1>8, <1>9, <1>10 DEF Worker
<1> HIDE DEF C, D
<1> QED
  BY <1>0, <1>1, <1>2, <1>3, <1>4, <1>5, <1>6, <1>9, <1>10 DEF Next

LEMMA SuccessStep ==
  ASSUME TypeOK, ~panicked => PlacesInv, [Next]_vars, succeeded = Cardinality(Uploaded)
  PROVE  succeeded' = Cardinality(Uploaded')
<1> DEFINE U == Uploaded
           V == Uploaded'
<1>1. IsFiniteSet(U) /\ Cardinality(U) = succeeded
  BY FiniteCounts
<1>2. ASSUME succeeded' = succeeded,
             \A t \in Tasks : outcome'[t] = "uploaded" <=> outcome[t] = "uploaded"
      PROVE  succeeded' = Cardinality(V)
  <2>1. V = U
    BY <1>2 DEF Uploaded
  <2> QED
    BY <1>1, <1>2, <2>1
<1>3. ASSUME NEW w \in Workers, SaveSucceeds(w) PROVE succeeded' = Cardinality(V)
  <2>1. PICK t \in Tasks : t = doing[w].item[1]
    BY ItemFacts DEF TypeOK
  <2>2. outcome[t] = "accepted"
    BY <1>3, <2>1 DEF SaveSucceeds, PlacesInv, Accounted, Somewhere, WithWorker, Busy
  <2>3. outcome' = [outcome EXCEPT ![t] = "uploaded"] /\ succeeded' = succeeded + 1
    BY <1>3, <2>1 DEF SaveSucceeds, Settle
  <2>4. V = U \cup {t} /\ t \notin U
    BY <2>2, <2>3 DEF Uploaded, TypeOK
  <2> HIDE DEF U, V
  <2>5. Cardinality(V) = Cardinality(U) + 1
    BY <1>1, <2>4, FS_AddElement
  <2> QED
    BY <1>1, <2>3, <2>5
<1>4. ASSUME NEW w \in Workers, SaveFails(w) PROVE succeeded' = Cardinality(V)
  <2>1. PICK t \in Tasks : t = doing[w].item[1]
    BY ItemFacts DEF TypeOK
  <2>2. outcome[t] = "accepted"
    BY <1>4, <2>1 DEF SaveFails, PlacesInv, Accounted, Somewhere, WithWorker, Busy
  <2>3. outcome' = outcome \/ outcome' = [outcome EXCEPT ![t] = "gaveUp"]
    BY <1>4, <2>1 DEF SaveFails, Settle
  <2>4. \A u \in Tasks : outcome'[u] = "uploaded" <=> outcome[u] = "uploaded"
    BY <2>2, <2>3 DEF TypeOK
  <2>5. succeeded' = succeeded
    BY <1>4 DEF SaveFails
  <2> QED
    BY <1>2, <2>4, <2>5
<1>5. ASSUME NEW i \in Items, TimerFires(i) PROVE succeeded' = Cardinality(V)
  <2>1. PICK t \in Tasks : t = i[1]
    BY ItemFacts
  <2>2. outcome[t] = "accepted"
    BY <1>5, <2>1 DEF TimerFires, PlacesInv, Accounted, Somewhere, WithTimer
  <2>3. outcome' = outcome \/ outcome' = [outcome EXCEPT ![t] = "dropped"]
    BY <1>5, <2>1 DEF TimerFires, Settle
  <2>4. \A u \in Tasks : outcome'[u] = "uploaded" <=> outcome[u] = "uploaded"
    BY <2>2, <2>3 DEF TypeOK
  <2>5. succeeded' = succeeded
    BY <1>5 DEF TimerFires
  <2> QED
    BY <1>2, <2>4, <2>5
<1>6. ASSUME NEW t \in Tasks, Submit(t) PROVE succeeded' = Cardinality(V)
  <2>1. outcome[t] = "new" /\ succeeded' = succeeded
    BY <1>6 DEF Submit
  <2>2. outcome' = [outcome EXCEPT ![t] = "rejected"] \/ outcome' = [outcome EXCEPT ![t] = "accepted"]
    BY <1>6 DEF Submit, Settle
  <2>3. \A u \in Tasks : outcome'[u] = "uploaded" <=> outcome[u] = "uploaded"
    BY <2>1, <2>2 DEF TypeOK
  <2> QED
    BY <1>2, <2>1, <2>3
<1>7. ASSUME \/ \E w \in Workers : Receive(w) \/ CountReceive(w) \/ Exit(w)
             \/ CountSend \/ Cancel \/ Close \/ Wait \/ UNCHANGED vars
      PROVE  succeeded' = Cardinality(V)
  <2>1. succeeded' = succeeded /\ outcome' = outcome
    BY <1>7 DEF Receive, CountReceive, Exit, CountSend, Cancel, Close, Wait, vars
  <2> QED
    BY <1>2, <2>1
<1> QED
  BY <1>3, <1>4, <1>5, <1>6, <1>7 DEF Next, Worker

LEMMA CountersStart == Init => CountersInv
<1> SUFFICES ASSUME Init PROVE CountersInv
  OBVIOUS
<1>1. Counting = {} /\ Uploaded = {} /\ timers = {} /\ Len(tasks) = 0 /\ errors = {}
  BY DEF Init, Counting, Uploaded, Waiting
<1>2. FlightErrors /\ SettledErrors
  <2>1. \A w \in Workers : ~Busy(w)
    BY DEF Init, Busy, Waiting
  <2>2. \A i \in Items : ~InFlight(i)
    BY <1>1, <2>1 DEF InFlight
  <2> QED
    BY <1>1, <2>2 DEF Init, FlightErrors, SettledErrors
<1>3. /\ IsFiniteSet(Counting) /\ Cardinality(Counting) = 0 /\ Cardinality(Uploaded) = 0
      /\ IsFiniteSet(errors) /\ Cardinality(errors) = 0
  BY <1>1, FS_EmptySet
<1>4. /\ pending + uncounted = Len(tasks) + Cardinality(Counting)
      /\ succeeded = Cardinality(Uploaded) /\ failed = Cardinality(errors)
  BY <1>1, <1>3 DEF Init
<1> QED
  BY <1>2, <1>3, <1>4 DEF CountersInv

LEMMA ErrorsSeen ==
  ASSUME TypeOK, FlightErrors, SettledErrors
  PROVE  /\ \A t \in Tasks : outcome[t] = "gaveUp" => FailedAttempts(t) = 0 .. MaxRetries - 1
         /\ \A i \in timers : FailedAttempts(i[1]) = 0 .. i[2] - 1
<1>1. ASSUME NEW t \in Tasks, outcome[t] = "gaveUp" PROVE FailedAttempts(t) = 0 .. MaxRetries - 1
  <2>1. \A n \in Numbers : <<t, n>> \in errors
    BY <1>1 DEF SettledErrors
  <2> QED
    BY <2>1, Zenon DEF Numbers, FailedAttempts
<1>2. ASSUME NEW i \in timers PROVE FailedAttempts(i[1]) = 0 .. i[2] - 1
  <2>1. i \in Items /\ i[2] \in Numbers /\ InFlight(i)
    BY ItemFacts DEF TypeOK, InFlight, Numbers
  <2>2. \A n \in Numbers : <<i[1], n>> \in errors <=> n < i[2]
    BY <2>1 DEF FlightErrors
  <2>3. \A n : n \in FailedAttempts(i[1]) <=> n \in Numbers /\ n < i[2]
    BY <2>2 DEF FailedAttempts, Numbers
  <2>4. PICK k : k = i[2]
    OBVIOUS
  <2>5. \A n : n \in Numbers /\ n < k <=> n \in 0 .. k - 1
    BY <2>1, <2>4, UploaderAssumption DEF Numbers
  <2> QED
    BY <2>3, <2>4, <2>5
<1> QED
  BY <1>1, <1>2

(* uploader.go: what Stats and the queue depth gauge report is exact up to *)
(* the operations under way, every failed upload is counted once, no       *)
(* attempt is made twice and every task given up has failed in all its     *)
(* attempts, for every buffer, set of workers and number of retries.       *)
THEOREM CountersAreExact == Spec => []CountersExact
<1>1. ASSUME UploaderInv, CountersInv, [Next]_vars PROVE CountersInv'
  <2>1. /\ TypeOK /\ (~panicked => PlacesInv)
        /\ IsFiniteSet(Counting) /\ pending + uncounted = Len(tasks) + Cardinality(Counting)
        /\ succeeded = Cardinality(Uploaded)
        /\ IsFiniteSet(errors) /\ failed = Cardinality(errors) /\ FlightErrors /\ SettledErrors
    BY <1>1 DEF UploaderInv, CountersInv
  <2>2. /\ IsFiniteSet(Counting')
        /\ pending' + uncounted' = Len(tasks') + Cardinality(Counting')
    BY <1>1, <2>1, GaugeStep
  <2>3. succeeded' = Cardinality(Uploaded')
    BY <1>1, <2>1, SuccessStep
  <2>4. /\ IsFiniteSet(errors') /\ failed' = Cardinality(errors')
        /\ FlightErrors' /\ SettledErrors'
    BY <1>1, <2>1, ErrorsStep
  <2> QED
    BY <2>2, <2>3, <2>4 DEF CountersInv
<1>2. ASSUME UploaderInv, CountersInv PROVE CountersExact
  <2>1. /\ \A t \in Tasks : outcome[t] = "gaveUp" => FailedAttempts(t) = 0 .. MaxRetries - 1
        /\ \A i \in timers : FailedAttempts(i[1]) = 0 .. i[2] - 1
    BY <1>2, ErrorsSeen DEF UploaderInv, CountersInv
  <2> QED
    BY <1>2, <2>1 DEF CountersInv, CountersExact, Counting, Uploaded
<1> QED
  BY <1>1, <1>2, CountersStart, InvHolds, PTL DEF Spec
===============================================================================
