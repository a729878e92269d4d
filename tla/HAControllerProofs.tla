-------------------------- MODULE HAControllerProofs --------------------------
(***************************************************************************)
(* Proofs about the HA controller, for every set of jobs, pods and nodes   *)
(* and every bound.  Four invariants are proved one after the other: type  *)
(* correctness; the bound on concurrent restores; the order of the         *)
(* snapshots, from which it follows that no snapshot a restore relies on   *)
(* is ever written again; and the goroutines that explain a Restoring job. *)
(***************************************************************************)
EXTENDS HAController, FiniteSetTheorems, TLAPS

RestoreRecords == [pc : RestorerPCs, dir : Dirs, attempts : Nat, uid : Uids]
WorkerRecords == [pc : {"idle", "dumping", "dumped"}, job : Jobs, seq : Dirs, uid : Uids]
StatusRecords == [phase : Phases, dir : Dirs, count : Dirs, attempts : Nat]

--------------------------------------------------------------------------------
(* Type correctness.                                                       *)

LEMMA IdleWorkerType == IdleWorker \in WorkerRecords
<1>1. (CHOOSE j \in Jobs : TRUE) \in Jobs
  BY ControllerAssumption
<1> QED
  BY <1>1, ControllerAssumption DEF IdleWorker, WorkerRecords, Dirs, NoDir, Uids

LEMMA EndedType == NoRestore \in RestoreRecords /\ Ended \in RestoreRecords
  BY ControllerAssumption DEF Ended, NoRestore, RestoreRecords, RestorerPCs, Dirs, NoDir, Uids

LEMMA InitType == Init => TypeOK
<1> SUFFICES ASSUME Init PROVE TypeOK
  OBVIOUS
<1>1. FaultsTypeOK
  BY DEF Init, FaultsInit, FaultsTypeOK, Views
<1>2. status \in [Jobs -> StatusRecords]
  BY DEF Init, NewStatus, StatusRecords, Phases, Dirs, NoDir
<1>3. restores \in [Restorers -> RestoreRecords]
  BY EndedType DEF Init
<1>4. disk \in [Jobs -> [Seqs -> {"absent", "partial", "complete"}]]
  BY DEF Init
<1>5. handled \in [Nodes -> 0 .. MaxFaults] /\ failures \in [Jobs -> Nat]
  BY ControllerAssumption DEF Init
<1>6. apiErrors \in 0 .. MaxApiErrors /\ crashes \in 0 .. MaxCrashes
  BY ControllerAssumption DEF Init
<1>7. uid \in [Jobs -> Uids]
  BY ControllerAssumption DEF Init, Uids
<1> QED
  BY <1>1, <1>2, <1>3, <1>4, <1>5, <1>6, <1>7, IdleWorkerType
     DEF Init, TypeOK, StatusRecords, RestoreRecords, WorkerRecords

LEMMA GotoType ==
  ASSUME TypeOK, NEW r \in Restorers, NEW pc \in RestorerPCs, Goto(r, pc)
  PROVE  restores' \in [Restorers -> RestoreRecords]
  BY DEF TypeOK, Goto, RestoreRecords

LEMMA EndType ==
  ASSUME TypeOK, NEW r \in Restorers, End(r)
  PROVE  restores' \in [Restorers -> RestoreRecords]
  BY EndedType DEF TypeOK, End, RestoreRecords

LEMMA JobOfRType == ASSUME NEW r \in Restorers PROVE JobOfR(r) \in Jobs
  BY ControllerAssumption DEF Restorers, JobOfR

LEMMA CountType == ASSUME TypeOK, NEW j \in Jobs PROVE status[j].count \in 0 .. MaxSeq
<1>1. status[j].count \in Dirs
  BY DEF TypeOK
<1> QED
  BY <1>1, ControllerAssumption DEF Dirs, Seqs, NoDir

LEMMA SetPhaseType ==
  ASSUME TypeOK, NEW j \in Jobs, NEW phase \in Phases, SetPhase(j, phase)
  PROVE  status' \in [Jobs -> StatusRecords]
<1>1. CASE j \in exists
  <2>1. [status[j] EXCEPT !.phase = phase] \in StatusRecords
    BY DEF TypeOK, StatusRecords
  <2>2. status' = [status EXCEPT ![j] = [status[j] EXCEPT !.phase = phase]]
    BY <1>1 DEF SetPhase
  <2> QED
    BY <2>1, <2>2 DEF TypeOK, StatusRecords
<1>2. CASE j \notin exists
  BY <1>2 DEF TypeOK, SetPhase, StatusRecords
<1> QED
  BY <1>1, <1>2

LEMMA ApiErrorType == ASSUME TypeOK, ApiError PROVE apiErrors' \in 0 .. MaxApiErrors
  BY ControllerAssumption DEF TypeOK, ApiError

LEMMA DeliverType == ASSUME TypeOK, NEW n \in Nodes, Deliver(n) PROVE FaultsTypeOK'
  BY DEF TypeOK, Deliver, FaultsTypeOK

(* The steps of a restore goroutine.                                       *)
LEMMA RestorerType ==
  ASSUME TypeOK, NEW r \in Restorers, Restorer(r)
  PROVE  TypeOK'
<1> USE DEF RestorerPCs
<1>0. JobOfR(r) \in Jobs
  BY JobOfRType
<1>1. CASE Acquire(r)
  BY <1>1, GotoType DEF Acquire, TypeOK, RestoreRecords, FaultsTypeOK, faultVars, apiVars, histVars
<1>2. CASE FetchJob(r)
  <2>1. restores' \in [Restorers -> RestoreRecords]
    <3>1. CASE End(r)
      BY <3>1, EndType
    <3>2. CASE restores' = [restores EXCEPT ![r] = [pc |-> "marking", dir |-> status[JobOfR(r)].dir,
                                                    attempts |-> status[JobOfR(r)].attempts,
                                                    uid |-> uid[JobOfR(r)]]]
      BY <3>2, <1>0 DEF TypeOK, RestoreRecords
    <3> QED
      BY <1>2, <3>1, <3>2 DEF FetchJob
  <2> QED
    BY <1>2, <2>1 DEF FetchJob, TypeOK, RestoreRecords, FaultsTypeOK, faultVars, apiVars, histVars
<1>3. CASE FetchFails(r)
  BY <1>3, EndType, ApiErrorType DEF FetchFails, TypeOK, RestoreRecords, FaultsTypeOK, faultVars, apiVars
<1>4. CASE MarkRestoring(r)
  <2>1. status' \in [Jobs -> StatusRecords]
    BY <1>0, <1>4, SetPhaseType DEF MarkRestoring, Phases
  <2> QED
    BY <1>4, <2>1, GotoType DEF MarkRestoring, TypeOK, RestoreRecords, StatusRecords, FaultsTypeOK,
                                faultVars, histVars
<1>5. CASE MarkFails(r)
  BY <1>5, GotoType, ApiErrorType DEF MarkFails, TypeOK, RestoreRecords, FaultsTypeOK, faultVars, apiVars
<1>6. CASE RestoreSucceeds(r)
  BY <1>0, <1>6, GotoType DEF RestoreSucceeds, TypeOK, RestoreRecords, FaultsTypeOK, faultVars, apiVars
<1>7. CASE RestoreFails(r)
  <2>1. restores' \in [Restorers -> RestoreRecords] /\ cutShort' \subseteq Jobs
    BY <1>0, <1>7, GotoType, EndType DEF RestoreFails, TypeOK
  <2>2. failures' \in [Jobs -> Nat]
    BY <1>0, <1>7 DEF RestoreFails, TypeOK
  <2> QED
    BY <1>7, <2>1, <2>2 DEF RestoreFails, TypeOK, RestoreRecords, FaultsTypeOK, faultVars, apiVars
<1>8. CASE RecordOutcome(r)
  <2>1. status' \in [Jobs -> StatusRecords]
    BY <1>0, <1>8, SetPhaseType DEF RecordOutcome, Phases
  <2> QED
    BY <1>8, <2>1, EndType DEF RecordOutcome, TypeOK, RestoreRecords, StatusRecords, FaultsTypeOK,
                                faultVars, histVars
<1>9. CASE RecordOutcomeFails(r)
  BY <1>0, <1>9, EndType, ApiErrorType
     DEF RecordOutcomeFails, TypeOK, RestoreRecords, FaultsTypeOK, faultVars, apiVars
<1>10. CASE Panics(r)
  BY <1>0, <1>10, EndType DEF Panics, TypeOK, RestoreRecords, FaultsTypeOK, faultVars, apiVars
<1> QED
  BY <1>1, <1>2, <1>3, <1>4, <1>5, <1>6, <1>7, <1>8, <1>9, <1>10 DEF Restorer

(* The steps of the reconcile worker.                                      *)
LEMMA ReconcileType ==
  ASSUME TypeOK,
         \/ \E j \in Jobs : StartCheckpoint(j)
         \/ DumpSucceeds \/ DumpFails \/ RecordCheckpoint \/ RecordFails
  PROVE  TypeOK'
<1>1. ASSUME NEW j \in Jobs, StartCheckpoint(j) PROVE TypeOK'
  <2>1. status[j].count + 1 \in Seqs
    <3>1. status[j].count \in Nat /\ status[j].count + 1 <= MaxSeq
      BY <1>1, ControllerAssumption DEF StartCheckpoint, TypeOK, Dirs, Seqs, NoDir
    <3> QED
      BY <3>1, ControllerAssumption DEF Seqs
  <2>2. worker' \in WorkerRecords
    BY <1>1, <2>1 DEF StartCheckpoint, TypeOK, Dirs, WorkerRecords
  <2>3. disk' \in [Jobs -> [Seqs -> {"absent", "partial", "complete"}]]
    BY <1>1, <2>1 DEF StartCheckpoint, TypeOK
  <2> QED
    BY <1>1, <2>2, <2>3 DEF StartCheckpoint, TypeOK, WorkerRecords, FaultsTypeOK, faultVars, histVars
<1>2. CASE DumpSucceeds
  <2>1. disk' \in [Jobs -> [Seqs -> {"absent", "partial", "complete"}]]
    BY <1>2 DEF DumpSucceeds, TypeOK
  <2>2. worker' \in WorkerRecords
    BY <1>2 DEF DumpSucceeds, TypeOK, WorkerRecords
  <2> QED
    BY <1>2, <2>1, <2>2 DEF DumpSucceeds, TypeOK, WorkerRecords, FaultsTypeOK, faultVars, histVars
<1>3. CASE DumpFails
  BY <1>3, IdleWorkerType DEF DumpFails, TypeOK, WorkerRecords, FaultsTypeOK, faultVars, apiVars, histVars
<1>4. CASE RecordCheckpoint
  <2>1. status' \in [Jobs -> StatusRecords] /\ due' \subseteq Jobs
    <3>1. CASE worker.job \in exists
      <4>1. worker.job \in Jobs /\ worker.seq \in Dirs
        BY DEF TypeOK
      <4>2. [phase |-> "Running", dir |-> worker.seq, count |-> worker.seq,
             attempts |-> status[worker.job].attempts] \in StatusRecords
        BY <4>1 DEF TypeOK, StatusRecords, Phases
      <4> QED
        BY <1>4, <3>1, <4>1, <4>2 DEF RecordCheckpoint, TypeOK, StatusRecords
    <3>2. CASE worker.job \notin exists
      BY <1>4, <3>2 DEF RecordCheckpoint, TypeOK, StatusRecords
    <3> QED
      BY <3>1, <3>2
  <2> QED
    BY <1>4, <2>1, IdleWorkerType DEF RecordCheckpoint, TypeOK, WorkerRecords, StatusRecords,
                                      FaultsTypeOK,
                                      faultVars, histVars
<1>5. CASE RecordFails
  BY <1>5, IdleWorkerType, ApiErrorType DEF RecordFails, TypeOK, WorkerRecords, FaultsTypeOK, faultVars, apiVars
<1> QED
  BY <1>1, <1>2, <1>3, <1>4, <1>5

LEMMA HandlerType ==
  ASSUME TypeOK, NEW n \in Nodes, HandleNodeFault(n) \/ ListPodsFails(n)
  PROVE  TypeOK'
<1>1. CASE HandleNodeFault(n)
  <2>1. handled' \in [Nodes -> 0 .. MaxFaults]
    BY <1>1, ControllerAssumption DEF HandleNodeFault, TypeOK
  <2>2. restores' \in [Restorers -> RestoreRecords]
    <3>1. [NoRestore EXCEPT !.pc = "queued"] \in RestoreRecords
      BY EndedType DEF NoRestore, RestoreRecords, RestorerPCs
    <3> QED
      BY <1>1, <3>1 DEF HandleNodeFault, TypeOK, RestoreRecords
  <2>3. FaultsTypeOK'
    BY <1>1, DeliverType DEF HandleNodeFault
  <2> QED
    BY <1>1, <2>1, <2>2, <2>3 DEF HandleNodeFault, TypeOK, RestoreRecords, apiVars, histVars
<1>2. CASE ListPodsFails(n)
  <2>1. FaultsTypeOK' /\ apiErrors' \in 0 .. MaxApiErrors
    BY <1>2, DeliverType, ApiErrorType DEF ListPodsFails, TypeOK
  <2> QED
    BY <1>2, <2>1 DEF ListPodsFails, TypeOK, apiVars, ctrlVars
<1> QED
  BY <1>1, <1>2

LEMMA CrashType == ASSUME TypeOK, Crash PROVE TypeOK'
<1>1. FaultsTypeOK'
  BY DEF Crash, Forget, FaultsTypeOK, Views
<1>2. restores' \in [Restorers -> RestoreRecords]
  BY EndedType DEF Crash
<1>3. cutShort' \subseteq Jobs
  BY JobOfRType DEF Crash, TypeOK
<1>4. crashes' \in 0 .. MaxCrashes
  BY ControllerAssumption DEF Crash, TypeOK
<1> QED
  BY <1>1, <1>2, <1>3, <1>4, IdleWorkerType DEF Crash, TypeOK, WorkerRecords, RestoreRecords, apiVars

LEMMA EnvironmentType ==
  ASSUME TypeOK, NEW j \in Jobs,
         IntervalElapses(j) \/ DeleteJob(j) \/ RecreateJob(j) \/ JobStarts(j)
  PROVE  TypeOK'
<1>1. CASE IntervalElapses(j)
  BY <1>1 DEF IntervalElapses, TypeOK, FaultsTypeOK, faultVars, ctrlVars, histVars
<1>2. CASE DeleteJob(j)
  BY <1>2 DEF DeleteJob, TypeOK, FaultsTypeOK, faultVars, ctrlVars, histVars
<1>3. CASE RecreateJob(j)
  <2>1. uid' \in [Jobs -> Uids]
    BY <1>3, ControllerAssumption DEF RecreateJob, TypeOK, Uids
  <2>2. status' \in [Jobs -> StatusRecords]
    BY <1>3 DEF RecreateJob, TypeOK, NewStatus, StatusRecords, Phases, Dirs, NoDir
  <2>3. failures' \in [Jobs -> Nat]
    BY <1>3 DEF RecreateJob, TypeOK
  <2> QED
    BY <1>3, <2>1, <2>2, <2>3 DEF RecreateJob, TypeOK, StatusRecords, FaultsTypeOK, faultVars, ctrlVars
<1>4. CASE JobStarts(j)
  <2>1. status' \in [Jobs -> StatusRecords]
    BY <1>4, SetPhaseType DEF JobStarts, Phases
  <2> QED
    BY <1>4, <2>1 DEF JobStarts, TypeOK, StatusRecords, FaultsTypeOK, faultVars, ctrlVars, histVars
<1> QED
  BY <1>1, <1>2, <1>3, <1>4

LEMMA NextType == TypeOK /\ [Next]_vars => TypeOK'
<1> SUFFICES ASSUME TypeOK, [Next]_vars PROVE TypeOK'
  OBVIOUS
<1>1. CASE DetectorPolls
  <2>1. FaultsTypeOK'
    BY <1>1 DEF DetectorPolls, Observe, TypeOK, FaultsTypeOK
  <2> QED
    BY <1>1, <2>1 DEF DetectorPolls, TypeOK, apiVars, ctrlVars, histVars
<1>2. CASE UNCHANGED vars
  BY <1>2 DEF vars, faultVars, apiVars, ctrlVars, histVars, TypeOK, FaultsTypeOK
<1> QED
  BY <1>1, <1>2, EnvironmentType, ReconcileType, HandlerType, RestorerType, CrashType DEF Next

(* Every reachable state of the controller has the types of TypeOK.        *)
THEOREM TypeCorrect == Spec => []TypeOK
  BY InitType, NextType, PTL DEF Spec

--------------------------------------------------------------------------------
(* The bound on concurrent restores.                                       *)

LEMMA RestorersFinite == IsFiniteSet(Restorers)
<1>1. IsFiniteSet(1 .. MaxFaults)
  BY FS_Interval, ControllerAssumption
<1> QED
  BY <1>1, FS_Product, ControllerAssumption DEF Restorers

LEMMA HoldersFinite == IsFiniteSet(Holders)
  BY RestorersFinite, FS_Subset DEF Holders

(* A step that makes no goroutine a holder keeps the bound.                *)
LEMMA FewerHolders ==
  ASSUME RestoresBounded, Holders' \subseteq Holders
  PROVE  RestoresBounded'
<1>1. IsFiniteSet(Holders') /\ Cardinality(Holders') <= Cardinality(Holders)
  BY HoldersFinite, FS_Subset
<1>2. Cardinality(Holders) \in Nat /\ Cardinality(Holders') \in Nat
  BY <1>1, HoldersFinite, FS_CardinalityType
<1> QED
  BY <1>1, <1>2, ControllerAssumption DEF RestoresBounded

LEMMA RestorerBounded ==
  ASSUME TypeOK, RestoresBounded, NEW r \in Restorers, Restorer(r)
  PROVE  RestoresBounded'
<1>1. CASE Acquire(r)
  <2>1. Holders' \subseteq Holders \cup {r}
    BY <1>1 DEF Acquire, Goto, Holders, TypeOK
  <2>2. IsFiniteSet(Holders \cup {r}) /\ Cardinality(Holders \cup {r}) <= Cardinality(Holders) + 1
    BY HoldersFinite, FS_AddElement, FS_CardinalityType
  <2>3. IsFiniteSet(Holders') /\ Cardinality(Holders') <= Cardinality(Holders \cup {r})
    BY <2>1, <2>2, FS_Subset
  <2>4. /\ Cardinality(Holders) \in Nat
        /\ Cardinality(Holders \cup {r}) \in Nat
        /\ Cardinality(Holders') \in Nat
    BY <2>2, <2>3, HoldersFinite, FS_CardinalityType
  <2>5. Cardinality(Holders) < MaxConcurrentRestores
    BY <1>1 DEF Acquire
  <2> QED
    BY <2>2, <2>3, <2>4, <2>5, ControllerAssumption DEF RestoresBounded
<1>2. CASE ~Acquire(r)
  <2>1. restores[r].pc \in Holding
    BY <1>2 DEF Restorer, FetchJob, FetchFails, MarkRestoring, MarkFails, RestoreSucceeds,
                RestoreFails, RecordOutcome, RecordOutcomeFails, Panics, Holding
  <2>2. \A q \in Restorers \ {r} : restores'[q] = restores[q]
    BY <1>2 DEF Restorer, FetchJob, FetchFails, MarkRestoring, MarkFails, RestoreSucceeds,
                RestoreFails, RecordOutcome, RecordOutcomeFails, Panics, Goto, End, TypeOK
  <2>3. Holders' \subseteq Holders
    BY <2>1, <2>2 DEF Holders
  <2> QED
    BY <2>3, FewerHolders
<1> QED
  BY <1>1, <1>2

LEMMA NextBounded == TypeOK /\ RestoresBounded /\ [Next]_vars => RestoresBounded'
<1> SUFFICES ASSUME TypeOK, RestoresBounded, [Next]_vars PROVE RestoresBounded'
  OBVIOUS
<1>1. ASSUME NEW n \in Nodes, HandleNodeFault(n) PROVE RestoresBounded'
  <2>1. Holders' \subseteq Holders
    BY <1>1 DEF HandleNodeFault, Holders, Holding, NoRestore
  <2> QED
    BY <2>1, FewerHolders
<1>2. CASE Crash
  <2>1. Holders' \subseteq Holders
    BY <1>2 DEF Crash, Holders, Holding, NoRestore, Ended
  <2> QED
    BY <2>1, FewerHolders
<1>3. CASE UNCHANGED restores
  BY <1>3 DEF RestoresBounded, Holders
<1>4. \/ \E r \in Restorers : Restorer(r)
      \/ \E n \in Nodes : HandleNodeFault(n)
      \/ Crash
      \/ UNCHANGED restores
  BY DEF Next, vars, ctrlVars, StartCheckpoint, IntervalElapses, DeleteJob, RecreateJob, JobStarts,
         DumpSucceeds, DumpFails, RecordCheckpoint, RecordFails, ListPodsFails, DetectorPolls
<1> QED
  BY <1>1, <1>2, <1>3, <1>4, RestorerBounded

(* The semaphore: never more than MaxConcurrentRestores goroutines are     *)
(* between its acquisition and its release.                                *)
THEOREM RestoresAreBounded == Spec => []RestoresBounded
<1>1. Init => RestoresBounded
  <2> SUFFICES ASSUME Init PROVE RestoresBounded
    OBVIOUS
  <2>1. Holders = {}
    BY DEF Init, Holders, Holding, NoRestore
  <2> QED
    BY <2>1, FS_EmptySet, ControllerAssumption DEF RestoresBounded
<1> QED
  BY <1>1, NextBounded, TypeCorrect, PTL DEF Spec

--------------------------------------------------------------------------------
(* The order of the snapshots.  The directory in the status is the last    *)
(* recorded one, everything up to it is complete, the worker writes the    *)
(* next one, and a restore goroutine holds a recorded one, possibly an old *)
(* one.  So what the worker writes is never what a goroutine holds.  Both  *)
(* lose that when their job is created again: a worker that dumps for the  *)
(* job before leaves complete directories below its own, and the new job   *)
(* has none recorded; of a goroutine nothing is known then.                *)

Recorded(j) == 1 .. status[j].count

StatusNamesLast == \A j \in Jobs : status[j].dir = status[j].count
RecordedComplete == \A j \in Jobs : \A s \in Recorded(j) : disk[j][s] = "complete"
NextOfStatus ==
  \/ worker.uid = uid[worker.job] /\ worker.seq = status[worker.job].count + 1
  \/ worker.uid < uid[worker.job] /\ status[worker.job].count = 0
WorkerWritesNext ==
  worker.pc # "idle" => /\ worker.seq \in Seqs
                        /\ \A s \in 1 .. (worker.seq - 1) : disk[worker.job][s] = "complete"
                        /\ worker.pc = "dumped" => disk[worker.job][worker.seq] = "complete"
                        /\ NextOfStatus
GoroutinesHoldRecorded ==
  \A r \in Restorers :
    /\ restores[r].uid <= uid[JobOfR(r)]
    /\ restores[r].pc \in Committed /\ OfThisJob(r) => restores[r].dir \in Recorded(JobOfR(r))

SnapshotInv ==
  /\ StatusNamesLast
  /\ RecordedComplete
  /\ WorkerWritesNext
  /\ GoroutinesHoldRecorded

LEMMA UidType == ASSUME TypeOK, NEW j \in Jobs PROVE uid[j] \in Nat
  BY ControllerAssumption DEF TypeOK, Uids

LEMMA InitSnapshots == Init => SnapshotInv
<1> SUFFICES ASSUME Init PROVE SnapshotInv
  OBVIOUS
<1>1. \A j \in Jobs : status[j].dir = NoDir /\ status[j].count = 0 /\ uid[j] = 0
  BY DEF Init, NewStatus
<1>2. worker.pc = "idle" /\ \A r \in Restorers : restores[r].pc = "none" /\ restores[r].uid = 0
  BY DEF Init, IdleWorker, NoRestore
<1>3. GoroutinesHoldRecorded
  BY <1>1, <1>2, JobOfRType DEF GoroutinesHoldRecorded, Committed, Holding
<1> QED
  BY <1>1, <1>2, <1>3 DEF SnapshotInv, StatusNamesLast, RecordedComplete, WorkerWritesNext,
                          Recorded, NoDir

(* Steps that leave directories, counts and the disk alone.                *)
SameCheckpoints ==
  /\ \A j \in Jobs : status'[j].dir = status[j].dir /\ status'[j].count = status[j].count
  /\ UNCHANGED <<disk, uid>>

LEMMA SetPhaseSame ==
  ASSUME TypeOK, NEW j \in Jobs, NEW phase \in Phases, SetPhase(j, phase), UNCHANGED <<disk, uid>>
  PROVE  SameCheckpoints
<1>1. CASE j \in exists
  <2>1. status' = [status EXCEPT ![j] = [status[j] EXCEPT !.phase = phase]]
    BY <1>1 DEF SetPhase
  <2>2. status'[j] = [status[j] EXCEPT !.phase = phase] /\ status[j] \in StatusRecords
    BY <2>1 DEF TypeOK, StatusRecords
  <2>3. status'[j].dir = status[j].dir /\ status'[j].count = status[j].count
    BY <2>2 DEF StatusRecords
  <2>4. \A k \in Jobs \ {j} : status'[k] = status[k]
    BY <2>1 DEF TypeOK
  <2> QED
    BY <2>3, <2>4 DEF SameCheckpoints
<1>2. CASE j \notin exists
  BY <1>2 DEF SetPhase, SameCheckpoints
<1> QED
  BY <1>1, <1>2

LEMMA SameKeeps ==
  ASSUME TypeOK, SnapshotInv, SameCheckpoints,
         UNCHANGED worker \/ worker' = IdleWorker,
         \A r \in Restorers : \/ restores'[r].pc \notin Committed
                              \/ restores[r].pc \in Committed /\ restores'[r].dir = restores[r].dir
                              \/ restores'[r].dir \in Recorded(JobOfR(r)),
         \A r \in Restorers : restores'[r].uid \in {0, restores[r].uid, uid[JobOfR(r)]},
         \A r \in Restorers : restores[r].pc \in Committed /\ restores'[r].pc \in Committed =>
           restores'[r].uid = restores[r].uid
  PROVE  SnapshotInv'
<1>1. \A j \in Jobs : Recorded(j)' = Recorded(j)
  BY DEF SameCheckpoints, Recorded
<1>2. StatusNamesLast' /\ RecordedComplete'
  BY <1>1 DEF SnapshotInv, StatusNamesLast, RecordedComplete, SameCheckpoints
<1>3. WorkerWritesNext'
  BY DEF SnapshotInv, WorkerWritesNext, NextOfStatus, SameCheckpoints, IdleWorker, TypeOK
<1>4. GoroutinesHoldRecorded'
  <2> SUFFICES ASSUME NEW r \in Restorers
               PROVE  /\ restores'[r].uid <= uid[JobOfR(r)]
                      /\ restores'[r].pc \in Committed /\ restores'[r].uid = uid[JobOfR(r)] =>
                           restores'[r].dir \in Recorded(JobOfR(r))
    <3>1. uid' = uid /\ \A q \in Restorers : Recorded(JobOfR(q))' = Recorded(JobOfR(q))
      BY JobOfRType, <1>1 DEF JobOfR, SameCheckpoints
    <3> QED
      BY <3>1, <1>1, JobOfRType DEF GoroutinesHoldRecorded, OfThisJob, JobOfR, SameCheckpoints
  <2>1. restores[r].uid <= uid[JobOfR(r)] /\ uid[JobOfR(r)] \in Nat
    BY JobOfRType, UidType DEF SnapshotInv, GoroutinesHoldRecorded
  <2>2. restores'[r].uid <= uid[JobOfR(r)]
    BY <2>1
  <2> QED
    BY <2>2 DEF SnapshotInv, GoroutinesHoldRecorded, OfThisJob
<1> QED
  BY <1>2, <1>3, <1>4 DEF SnapshotInv

LEMMA RestorerSnapshots ==
  ASSUME TypeOK, SnapshotInv, NEW r \in Restorers, Restorer(r)
  PROVE  SnapshotInv' /\ SameCheckpoints
<1>0. JobOfR(r) \in Jobs
  BY JobOfRType
<1>1. SameCheckpoints
  <2>1. CASE MarkRestoring(r)
    BY <1>0, <2>1, SetPhaseSame DEF MarkRestoring, Phases
  <2>2. CASE RecordOutcome(r)
    BY <1>0, <2>2, SetPhaseSame DEF RecordOutcome, Phases
  <2>3. CASE UNCHANGED <<status, disk, uid>>
    BY <2>3 DEF SameCheckpoints
  <2> QED
    BY <2>1, <2>2, <2>3 DEF Restorer, Acquire, FetchJob, FetchFails, MarkFails, RestoreSucceeds,
                            RestoreFails, RecordOutcomeFails, Panics, apiVars
<1>2. UNCHANGED worker
  BY DEF Restorer, Acquire, FetchJob, FetchFails, MarkRestoring, MarkFails, RestoreSucceeds,
         RestoreFails, RecordOutcome, RecordOutcomeFails, Panics
<1>3. \A q \in Restorers \ {r} : restores'[q] = restores[q]
  BY DEF Restorer, Acquire, FetchJob, FetchFails, MarkRestoring, MarkFails, RestoreSucceeds,
         RestoreFails, RecordOutcome, RecordOutcomeFails, Panics, Goto, End, TypeOK
<1>4. \/ restores'[r].pc \notin Committed
      \/ restores[r].pc \in Committed /\ restores'[r].dir = restores[r].dir
      \/ restores'[r].dir \in Recorded(JobOfR(r))
  <2>1. CASE FetchJob(r)
    <3> SUFFICES ASSUME restores'[r].pc \in Committed
                 PROVE  restores'[r].dir \in Recorded(JobOfR(r))
      OBVIOUS
    <3>1. restores'[r].dir = status[JobOfR(r)].dir /\ status[JobOfR(r)].dir # NoDir
      BY <2>1 DEF FetchJob, End, Ended, NoRestore, TypeOK, Committed, Holding
    <3>2. status[JobOfR(r)].dir = status[JobOfR(r)].count /\ status[JobOfR(r)].count \in Dirs
      BY <1>0 DEF SnapshotInv, StatusNamesLast, TypeOK
    <3> QED
      BY <3>1, <3>2, ControllerAssumption DEF Recorded, Dirs, Seqs, NoDir
  <2>2. CASE ~FetchJob(r)
    BY <2>2 DEF Restorer, Acquire, FetchFails, MarkRestoring, MarkFails, RestoreSucceeds,
                RestoreFails, RecordOutcome, RecordOutcomeFails, Panics, Goto, End, Ended, NoRestore,
                TypeOK, Committed, Holding
  <2> QED
    BY <2>1, <2>2
<1>5. /\ restores'[r].uid \in {0, restores[r].uid, uid[JobOfR(r)]}
      /\ restores[r].pc \in Committed /\ restores'[r].pc \in Committed =>
           restores'[r].uid = restores[r].uid
  BY DEF Restorer, Acquire, FetchJob, FetchFails, MarkRestoring, MarkFails, RestoreSucceeds,
         RestoreFails, RecordOutcome, RecordOutcomeFails, Panics, Goto, End, Ended, NoRestore,
         TypeOK, Committed, Holding
<1>6. SnapshotInv'
  BY <1>1, <1>2, <1>3, <1>4, <1>5, SameKeeps
<1> QED
  BY <1>1, <1>6

(* The steps of the worker.                                                *)
LEMMA StartCheckpointSnapshots ==
  ASSUME TypeOK, SnapshotInv, NEW j \in Jobs, StartCheckpoint(j)
  PROVE  SnapshotInv'
<1> DEFINE seq == status[j].count + 1
<1>1. status[j].count \in Nat /\ seq \in Seqs /\ seq \notin Recorded(j)
  BY ControllerAssumption DEF StartCheckpoint, TypeOK, Dirs, Seqs, NoDir, Recorded
<1>2. \A k \in Jobs : Recorded(k)' = Recorded(k)
  BY DEF StartCheckpoint, Recorded
<1>3. StatusNamesLast'
  BY DEF StartCheckpoint, SnapshotInv, StatusNamesLast
<1>4. RecordedComplete'
  <2> SUFFICES ASSUME NEW k \in Jobs, NEW s \in Recorded(k) PROVE disk'[k][s] = "complete"
    BY <1>2 DEF RecordedComplete
  <2>1. disk' = [disk EXCEPT ![j][seq] = "partial"] /\ disk[k][s] = "complete"
    BY DEF StartCheckpoint, SnapshotInv, RecordedComplete
  <2>2. k # j \/ s # seq
    BY <1>1
  <2> QED
    BY <2>1, <2>2 DEF TypeOK
<1>5. WorkerWritesNext'
  <2>1. /\ worker' = [pc |-> "dumping", job |-> j, seq |-> seq, uid |-> uid[j]]
        /\ UNCHANGED <<status, uid>>
    BY DEF StartCheckpoint
  <2>2. \A s \in 1 .. (seq - 1) : disk'[j][s] = "complete"
    <3>1. 1 .. (seq - 1) = Recorded(j)
      BY <1>1 DEF Recorded
    <3> QED
      BY <1>2, <1>4, <3>1 DEF RecordedComplete
  <2> QED
    BY <1>1, <2>1, <2>2 DEF WorkerWritesNext, NextOfStatus
<1>6. GoroutinesHoldRecorded'
  BY JobOfRType, <1>2 DEF StartCheckpoint, SnapshotInv, GoroutinesHoldRecorded, OfThisJob, JobOfR, Recorded
<1> QED
  BY <1>3, <1>4, <1>5, <1>6 DEF SnapshotInv

LEMMA DumpSucceedsSnapshots ==
  ASSUME TypeOK, SnapshotInv, DumpSucceeds
  PROVE  SnapshotInv'
<1>1. worker.job \in Jobs /\ worker.seq \in Seqs
  BY DEF DumpSucceeds, TypeOK, SnapshotInv, WorkerWritesNext
<1>2. \A k \in Jobs, s \in Seqs : disk[k][s] = "complete" => disk'[k][s] = "complete"
  BY <1>1 DEF DumpSucceeds, TypeOK
<1>3. disk'[worker.job][worker.seq] = "complete"
  BY <1>1 DEF DumpSucceeds, TypeOK
<1>4. RecordedComplete'
  <2> SUFFICES ASSUME NEW k \in Jobs, NEW s \in Recorded(k) PROVE disk'[k][s] = "complete"
    BY DEF RecordedComplete, Recorded, DumpSucceeds
  <2>1. s \in Seqs
    BY CountType, ControllerAssumption DEF Recorded, Seqs
  <2> QED
    BY <2>1, <1>2 DEF SnapshotInv, RecordedComplete
<1>5. WorkerWritesNext'
  <2>1. /\ UNCHANGED <<status, uid>>
        /\ worker'.job = worker.job /\ worker'.seq = worker.seq /\ worker'.uid = worker.uid
    BY DEF DumpSucceeds, TypeOK
  <2>2. \A s \in 1 .. (worker.seq - 1) : disk'[worker.job][s] = "complete"
    BY <1>1, <1>2, ControllerAssumption DEF DumpSucceeds, SnapshotInv, WorkerWritesNext, Seqs
  <2> QED
    BY <1>3, <2>1, <2>2 DEF DumpSucceeds, SnapshotInv, WorkerWritesNext, NextOfStatus
<1>6. StatusNamesLast' /\ GoroutinesHoldRecorded'
  BY DEF DumpSucceeds, SnapshotInv, StatusNamesLast, GoroutinesHoldRecorded, OfThisJob, Recorded, JobOfR
<1> QED
  BY <1>4, <1>5, <1>6 DEF SnapshotInv

(* The recorded checkpoint is the one after the last recorded, or the      *)
(* first for a job created while it was dumped.                            *)
LEMMA RecordIsNext ==
  ASSUME TypeOK, SnapshotInv, RecordCheckpoint, NEW w \in Jobs, w = worker.job, w \in exists
  PROVE  /\ status'[w].dir = worker.seq /\ status'[w].count = worker.seq
         /\ \/ worker.seq = status[w].count + 1
            \/ status[w].count = 0 /\ worker.uid < uid[w]
         /\ status[w].count \in Nat /\ worker.seq \in Nat /\ worker.seq > status[w].count
         /\ \A j \in Jobs \ {w} : status'[j] = status[j]
<1>1. /\ status[w].count \in Nat /\ worker.seq \in Nat /\ worker.seq >= 1
      /\ \/ worker.seq = status[w].count + 1
         \/ status[w].count = 0 /\ worker.uid < uid[w]
  BY CountType, ControllerAssumption
     DEF RecordCheckpoint, SnapshotInv, WorkerWritesNext, NextOfStatus, Seqs
<1>2. status' = [status EXCEPT ![w] = [phase |-> "Running", dir |-> worker.seq,
                                       count |-> worker.seq, attempts |-> status[w].attempts]]
  BY DEF RecordCheckpoint
<1>3. /\ status'[w].dir = worker.seq /\ status'[w].count = worker.seq
      /\ \A j \in Jobs \ {w} : status'[j] = status[j]
  BY <1>2 DEF TypeOK
<1> QED
  BY <1>1, <1>3

LEMMA RecordCheckpointSnapshots ==
  ASSUME TypeOK, SnapshotInv, RecordCheckpoint
  PROVE  SnapshotInv'
<1>1. CASE worker.job \notin exists
  BY <1>1, SameKeeps DEF RecordCheckpoint, SameCheckpoints
<1>2. CASE worker.job \in exists
  <2>1. PICK w \in Jobs : w = worker.job
    BY DEF TypeOK
  <2>2. /\ status'[w].dir = worker.seq /\ status'[w].count = worker.seq
        /\ status[w].count \in Nat /\ worker.seq \in Nat /\ worker.seq > status[w].count
        /\ \A j \in Jobs \ {w} : status'[j] = status[j]
    BY <1>2, <2>1, RecordIsNext
  <2>3. /\ \A j \in Jobs \ {w} : Recorded(j)' = Recorded(j)
        /\ Recorded(w)' = 1 .. worker.seq
        /\ \A j \in Jobs : Recorded(j) \subseteq Recorded(j)'
    BY <2>2 DEF Recorded
  <2>4. disk' = disk /\ worker' = IdleWorker /\ restores' = restores /\ uid' = uid
    BY DEF RecordCheckpoint
  <2>5. StatusNamesLast'
    BY <2>2 DEF SnapshotInv, StatusNamesLast
  <2>6. RecordedComplete'
    <3>1. \A s \in 1 .. worker.seq : disk[w][s] = "complete"
      BY <2>1, <2>2 DEF RecordCheckpoint, SnapshotInv, WorkerWritesNext
    <3> QED
      BY <2>3, <2>4, <3>1 DEF SnapshotInv, RecordedComplete
  <2>7. WorkerWritesNext'
    BY <2>4 DEF WorkerWritesNext, IdleWorker
  <2>8. GoroutinesHoldRecorded'
    BY <2>3, <2>4, JobOfRType DEF SnapshotInv, GoroutinesHoldRecorded, OfThisJob, JobOfR
  <2> QED
    BY <2>5, <2>6, <2>7, <2>8 DEF SnapshotInv
<1> QED
  BY <1>1, <1>2

(* The new job has nothing recorded, and what is under way was not started *)
(* for it.                                                                 *)
LEMMA RecreateSnapshots ==
  ASSUME TypeOK, SnapshotInv, NEW j \in Jobs, RecreateJob(j)
  PROVE  SnapshotInv'
<1>1. /\ status'[j].dir = NoDir /\ status'[j].count = 0 /\ uid'[j] = uid[j] + 1 /\ uid[j] \in Nat
      /\ \A k \in Jobs \ {j} : status'[k] = status[k] /\ uid'[k] = uid[k]
  BY UidType DEF RecreateJob, NewStatus, TypeOK
<1>2. UNCHANGED <<disk, worker, restores>>
  BY DEF RecreateJob, ctrlVars
<1>3. \A k \in Jobs \ {j} : Recorded(k)' = Recorded(k)
  BY <1>1 DEF Recorded
<1>4. Recorded(j)' = {}
  BY <1>1 DEF Recorded
<1>5. StatusNamesLast'
  BY <1>1 DEF SnapshotInv, StatusNamesLast, NoDir
<1>6. RecordedComplete'
  BY <1>2, <1>3, <1>4 DEF SnapshotInv, RecordedComplete
<1>7. WorkerWritesNext'
  <2>1. CASE worker.job = j
    <3>1. worker.uid \in Nat
      BY ControllerAssumption DEF TypeOK, Uids
    <3>2. worker.pc # "idle" => worker.uid <= uid[j]
      BY <1>1, <2>1, <3>1 DEF SnapshotInv, WorkerWritesNext, NextOfStatus
    <3>3. worker.pc # "idle" => worker.uid < uid'[j]
      BY <1>1, <3>1, <3>2
    <3> QED
      BY <1>1, <1>2, <2>1, <3>3 DEF SnapshotInv, WorkerWritesNext, NextOfStatus
  <2>2. CASE worker.job # j
    <3>1. worker.job \in Jobs \ {j}
      BY <2>2 DEF TypeOK
    <3> QED
      BY <1>1, <1>2, <3>1 DEF SnapshotInv, WorkerWritesNext, NextOfStatus
  <2> QED
    BY <2>1, <2>2
<1>8. GoroutinesHoldRecorded'
  <2> SUFFICES ASSUME NEW r \in Restorers, NEW k \in Jobs, k = JobOfR(r)
               PROVE  /\ restores[r].uid <= uid'[k]
                      /\ restores[r].pc \in Committed /\ restores[r].uid = uid'[k] =>
                           restores[r].dir \in Recorded(k)'
    BY <1>2, JobOfRType DEF GoroutinesHoldRecorded, OfThisJob, JobOfR
  <2>1. /\ restores[r].uid <= uid[k] /\ restores[r].uid \in Nat
        /\ restores[r].pc \in Committed /\ restores[r].uid = uid[k] => restores[r].dir \in Recorded(k)
    BY ControllerAssumption DEF SnapshotInv, GoroutinesHoldRecorded, OfThisJob, TypeOK, Uids
  <2>2. CASE k = j
    BY <1>1, <2>1, <2>2
  <2>3. CASE k # j
    BY <1>1, <1>3, <2>1, <2>3
  <2> QED
    BY <2>2, <2>3
<1> QED
  BY <1>5, <1>6, <1>7, <1>8 DEF SnapshotInv

LEMMA NextSnapshots == TypeOK /\ SnapshotInv /\ [Next]_vars => SnapshotInv'
<1> SUFFICES ASSUME TypeOK, SnapshotInv, [Next]_vars PROVE SnapshotInv'
  OBVIOUS
<1>1. ASSUME NEW n \in Nodes, HandleNodeFault(n) PROVE SnapshotInv'
  <2>1. SameCheckpoints /\ UNCHANGED worker
    BY <1>1 DEF HandleNodeFault, SameCheckpoints, apiVars
  <2>2. \A r \in Restorers : \/ restores'[r].pc \notin Committed /\ restores'[r].uid = 0
                             \/ restores'[r] = restores[r]
    BY <1>1 DEF HandleNodeFault, NoRestore, Committed, Holding
  <2> QED
    BY <2>1, <2>2, SameKeeps
<1>2. CASE Crash
  <2>1. SameCheckpoints /\ worker' = IdleWorker
    BY <1>2 DEF Crash, SameCheckpoints, apiVars
  <2>2. \A r \in Restorers : restores'[r].pc \notin Committed /\ restores'[r].uid = 0
    BY <1>2 DEF Crash, Committed, Holding, NoRestore, Ended
  <2> QED
    BY <2>1, <2>2, SameKeeps
<1>3. CASE DumpFails \/ RecordFails
  BY <1>3, SameKeeps DEF DumpFails, RecordFails, SameCheckpoints, apiVars
<1>4. CASE UNCHANGED <<status, disk, uid, worker, restores>>
  BY <1>4, SameKeeps DEF SameCheckpoints
<1>5. \/ \E j \in Jobs : StartCheckpoint(j)
      \/ DumpSucceeds \/ DumpFails \/ RecordCheckpoint \/ RecordFails
      \/ \E r \in Restorers : Restorer(r)
      \/ \E n \in Nodes : HandleNodeFault(n)
      \/ Crash
      \/ \E j \in Jobs : RecreateJob(j) \/ JobStarts(j)
      \/ UNCHANGED <<status, disk, uid, worker, restores>>
  BY DEF Next, vars, apiVars, ctrlVars, IntervalElapses, DeleteJob, ListPodsFails, DetectorPolls
<1>6. ASSUME NEW j \in Jobs, JobStarts(j) PROVE SnapshotInv'
  <2>1. SameCheckpoints
    BY <1>6, SetPhaseSame DEF JobStarts, Phases
  <2>2. UNCHANGED <<worker, restores>>
    BY <1>6 DEF JobStarts, ctrlVars
  <2> QED
    BY <2>1, <2>2, SameKeeps
<1> QED
  BY <1>1, <1>2, <1>3, <1>4, <1>5, <1>6, RecreateSnapshots, StartCheckpointSnapshots, DumpSucceedsSnapshots,
     RecordCheckpointSnapshots, RestorerSnapshots

LEMMA SnapshotInvariance == Spec => []SnapshotInv
  BY InitSnapshots, NextSnapshots, TypeCorrect, PTL DEF Spec

(* The directory the status of a job names holds a complete snapshot, at   *)
(* every moment and after every failure.                                   *)
THEOREM CheckpointsUsable == Spec => []CheckpointUsable
<1>1. TypeOK /\ SnapshotInv => CheckpointUsable
  BY ControllerAssumption DEF SnapshotInv, StatusNamesLast, RecordedComplete, CheckpointUsable,
     TypeOK, Recorded, Dirs, Seqs, NoDir
<1> QED
  BY <1>1, SnapshotInvariance, TypeCorrect, PTL

(* The directory a restore goroutine has read is complete and no Dump      *)
(* writes into it, however many checkpoints were taken since, unless the   *)
(* job was created again under its name.                                   *)
THEOREM RestoreSourcesStable == Spec => []RestoreSourceStable
<1>1. SnapshotInv => RestoreSourceStable
  <2> SUFFICES ASSUME SnapshotInv, NEW r \in Restorers, restores[r].pc \in Committed, OfThisJob(r)
               PROVE  /\ restores[r].dir # NoDir
                      /\ disk[JobOfR(r)][restores[r].dir] = "complete"
    BY DEF RestoreSourceStable
  <2>1. restores[r].dir \in Recorded(JobOfR(r)) /\ JobOfR(r) \in Jobs
    BY JobOfRType DEF SnapshotInv, GoroutinesHoldRecorded
  <2> QED
    BY <2>1 DEF SnapshotInv, RecordedComplete, Recorded, NoDir
<1> QED
  BY <1>1, SnapshotInvariance, PTL

(* Checkpoints of a job are recorded in order: none is lost, none is       *)
(* reused, and only the Dump of a predecessor of the name may skip some.   *)
THEOREM CheckpointsAreDense == Spec => CheckpointsDense
<1> DEFINE Good(j) == /\ status'[j].count = status'[j].dir
                      /\ \/ status'[j].dir = status[j].count + 1
                         \/ status[j].count = 0 /\ worker.job = j /\ worker.uid < uid[j]
           Step == \A j \in Jobs : status'[j].dir # status[j].dir /\ uid'[j] = uid[j] => Good(j)
<1>1. TypeOK /\ SnapshotInv /\ [Next]_vars => [Step]_vars
  <2> SUFFICES ASSUME TypeOK, SnapshotInv, [Next]_vars, NEW j \in Jobs,
                      status'[j].dir # status[j].dir, uid'[j] = uid[j]
               PROVE  Good(j)
    OBVIOUS
  <2>1. RecordCheckpoint /\ worker.job \in exists
    <3>1. ~ (\E r \in Restorers : Restorer(r))
      BY RestorerSnapshots DEF SameCheckpoints
    <3>2. ~ (\E k \in Jobs : JobStarts(k))
      BY SetPhaseSame DEF JobStarts, Phases, SameCheckpoints
    <3>3. ~ (\E k \in Jobs : RecreateJob(k))
      <4> SUFFICES ASSUME NEW k \in Jobs, RecreateJob(k) PROVE FALSE
        OBVIOUS
      <4>1. k # j
        BY UidType DEF RecreateJob, TypeOK
      <4> QED
        BY <4>1 DEF RecreateJob, TypeOK
    <3> QED
      BY <3>1, <3>2, <3>3 DEF Next, vars, apiVars, StartCheckpoint, IntervalElapses, DeleteJob,
                  DumpSucceeds, DumpFails, RecordCheckpoint, RecordFails, HandleNodeFault,
                  ListPodsFails, DetectorPolls, Crash
  <2>2. j = worker.job
    BY <2>1, RecordIsNext DEF TypeOK
  <2> QED
    BY <2>1, <2>2, RecordIsNext
<1> QED
  BY <1>1, SnapshotInvariance, TypeCorrect, PTL DEF Spec, CheckpointsDense

--------------------------------------------------------------------------------
(* What keeps a job in Restoring.  A goroutine that the next fault starts  *)
(* has a name that was not used before, so no committed one is replaced.   *)

NotYetStarted == \A r \in Restorers : r[2] > handled[NodeOf[r[1]]] => restores[r].pc = "none"
ExplainedInv == RestoringExplained /\ NotYetStarted

LEMMA RestorerParts == \A r \in Restorers : r[1] \in Pods /\ r[2] \in Nat /\ NodeOf[r[1]] \in Nodes
  BY ControllerAssumption DEF Restorers

LEMMA InitExplained == Init => ExplainedInv
<1> SUFFICES ASSUME Init PROVE ExplainedInv
  OBVIOUS
<1>1. \A j \in Jobs : status[j].phase = "Running"
  BY DEF Init, NewStatus
<1>2. \A r \in Restorers : restores[r].pc = "none"
  BY DEF Init, NoRestore
<1> QED
  BY <1>1, <1>2 DEF Init, ExplainedInv, RestoringExplained, NotYetStarted

(* Steps that put no job in Restoring and end no committed goroutine,      *)
(* except one whose job they add to cutShort.                              *)
LEMMA ExplainedKeeps ==
  ASSUME RestoringExplained, exists' \subseteq exists, cutShort \subseteq cutShort',
         \A j \in exists' : status'[j].phase = "Restoring" => status[j].phase = "Restoring",
         \A r \in Restorers : restores[r].pc \in Committed =>
           restores'[r].pc \in Committed \/ JobOfR(r) \in cutShort'
  PROVE  RestoringExplained'
<1> SUFFICES ASSUME NEW j \in exists', status'[j].phase = "Restoring", j \notin cutShort'
             PROVE  \E r \in Restorers : JobOfR(r) = j /\ restores'[r].pc \in Committed
  BY DEF RestoringExplained, JobOfR
<1>1. PICK r \in Restorers : JobOfR(r) = j /\ restores[r].pc \in Committed
  BY DEF RestoringExplained
<1>2. restores'[r].pc \in Committed
  BY <1>1
<1> QED
  BY <1>1, <1>2

(* updateJobPhase changes the phase of one job.                            *)
LEMMA SetPhaseOne ==
  ASSUME TypeOK, NEW j \in Jobs, NEW phase \in Phases, SetPhase(j, phase)
  PROVE  /\ j \in exists => status'[j].phase = phase
         /\ \A k \in exists : k # j => status'[k] = status[k]
<1>1. CASE j \in exists
  <2>1. status' = [status EXCEPT ![j] = [status[j] EXCEPT !.phase = phase]]
    BY <1>1 DEF SetPhase
  <2>2. status'[j] = [status[j] EXCEPT !.phase = phase] /\ status[j] \in StatusRecords
    BY <2>1 DEF TypeOK, StatusRecords
  <2>3. status'[j].phase = phase
    BY <2>2 DEF StatusRecords
  <2>4. \A k \in Jobs \ {j} : status'[k] = status[k]
    BY <2>1 DEF TypeOK
  <2> QED
    BY <2>3, <2>4 DEF TypeOK
<1>2. CASE j \notin exists
  BY <1>2 DEF SetPhase
<1> QED
  BY <1>1, <1>2

LEMMA RestorerExplained ==
  ASSUME TypeOK, ExplainedInv, NEW r \in Restorers, Restorer(r)
  PROVE  ExplainedInv'
<1> USE DEF ExplainedInv
<1> DEFINE j == JobOfR(r)
<1>1. j \in Jobs
  BY JobOfRType
<1>2. \A q \in Restorers \ {r} : restores'[q] = restores[q]
  BY DEF Restorer, Acquire, FetchJob, FetchFails, MarkRestoring, MarkFails, RestoreSucceeds,
         RestoreFails, RecordOutcome, RecordOutcomeFails, Panics, Goto, End, TypeOK
<1>3. restores[r].pc # "none" /\ UNCHANGED <<handled, exists>>
  BY DEF Restorer, Acquire, FetchJob, FetchFails, MarkRestoring, MarkFails, RestoreSucceeds,
         RestoreFails, RecordOutcome, RecordOutcomeFails, Panics, Holding, apiVars
<1>4. NotYetStarted'
  BY <1>2, <1>3 DEF NotYetStarted
<1>5. CASE MarkRestoring(r)
  <2>1. restores'[r].pc \in Committed
    BY <1>5 DEF MarkRestoring, Goto, TypeOK, Committed, Holding
  <2>2. \A k \in exists : k # j => status'[k] = status[k]
    BY <1>1, <1>5, SetPhaseOne DEF MarkRestoring, Phases
  <2>3. UNCHANGED cutShort
    BY <1>5 DEF MarkRestoring, histVars
  <2>4. RestoringExplained'
    <3> SUFFICES ASSUME NEW k \in exists, status'[k].phase = "Restoring", k \notin cutShort
                 PROVE  \E q \in Restorers : JobOfR(q) = k /\ restores'[q].pc \in Committed
      BY <1>3, <2>3 DEF RestoringExplained, JobOfR
    <3>1. CASE k = j
      BY <2>1, <3>1
    <3>2. CASE k # j
      <4>1. PICK q \in Restorers : JobOfR(q) = k /\ restores[q].pc \in Committed
        BY <2>2, <3>2 DEF RestoringExplained
      <4>2. q # r
        BY <3>2, <4>1
      <4> QED
        BY <1>2, <4>1, <4>2
    <3> QED
      BY <3>1, <3>2
  <2> QED
    BY <1>4, <2>4
<1>6. CASE RecordOutcome(r)
  <2>1. /\ j \in exists => status'[j].phase # "Restoring"
        /\ \A k \in exists : k # j => status'[k] = status[k]
    <3>1. CASE restores[r].pc = "restored"
      BY <1>1, <1>6, <3>1, SetPhaseOne DEF RecordOutcome, Phases
    <3>2. CASE restores[r].pc # "restored"
      BY <1>1, <1>6, <3>2, SetPhaseOne DEF RecordOutcome, Phases
    <3> QED
      BY <3>1, <3>2
  <2>2. UNCHANGED cutShort
    BY <1>6 DEF RecordOutcome, histVars
  <2>3. RestoringExplained'
    <3> SUFFICES ASSUME NEW k \in exists, status'[k].phase = "Restoring", k \notin cutShort
                 PROVE  \E q \in Restorers : JobOfR(q) = k /\ restores'[q].pc \in Committed
      BY <1>3, <2>2 DEF RestoringExplained, JobOfR
    <3>1. k # j
      BY <2>1
    <3>2. PICK q \in Restorers : JobOfR(q) = k /\ restores[q].pc \in Committed
      BY <2>1, <3>1 DEF RestoringExplained
    <3>3. q # r
      BY <3>1, <3>2
    <3> QED
      BY <1>2, <3>2, <3>3
  <2> QED
    BY <1>4, <2>3
<1>7. CASE ~MarkRestoring(r) /\ ~RecordOutcome(r)
  <2>1. UNCHANGED status /\ cutShort \subseteq cutShort'
    BY <1>7 DEF Restorer, Acquire, FetchJob, FetchFails, MarkFails, RestoreSucceeds, RestoreFails,
                RecordOutcomeFails, Panics, apiVars, histVars
  <2>2. restores[r].pc \in Committed => restores'[r].pc \in Committed \/ j \in cutShort'
    BY <1>7 DEF Restorer, Acquire, FetchJob, FetchFails, MarkFails, RestoreSucceeds, RestoreFails,
                RecordOutcomeFails, Panics, Goto, End, TypeOK, Committed, Holding
  <2>3. \A q \in Restorers : restores[q].pc \in Committed =>
          restores'[q].pc \in Committed \/ JobOfR(q) \in cutShort'
    BY <1>2, <2>2
  <2>4. RestoringExplained'
    BY <1>3, <2>1, <2>3, ExplainedKeeps
  <2> QED
    BY <1>4, <2>4
<1> QED
  BY <1>5, <1>6, <1>7

LEMMA HandleExplained ==
  ASSUME TypeOK, ExplainedInv, NEW n \in Nodes, HandleNodeFault(n)
  PROVE  ExplainedInv'
<1> USE DEF ExplainedInv
<1>1. /\ handled[n] \in Nat /\ handled'[n] = handled[n] + 1
      /\ \A m \in Nodes : m # n => handled'[m] = handled[m]
      /\ \A m \in Nodes : handled[m] \in Nat /\ handled'[m] \in Nat
  BY ControllerAssumption DEF HandleNodeFault, TypeOK
<1>2. \A r \in Restorers : restores'[r] = IF NodeOf[r[1]] = n /\ r[2] = handled'[n]
                                           THEN [NoRestore EXCEPT !.pc = "queued"]
                                           ELSE restores[r]
  BY DEF HandleNodeFault
<1>3. \A r \in Restorers : NodeOf[r[1]] = n /\ r[2] = handled'[n] => restores[r].pc = "none"
  BY <1>1, RestorerParts DEF NotYetStarted
<1>4. NotYetStarted'
  <2> SUFFICES ASSUME NEW r \in Restorers, r[2] > handled'[NodeOf[r[1]]]
               PROVE  restores'[r].pc = "none"
    BY DEF NotYetStarted
  <2>1. r[2] # handled'[n] \/ NodeOf[r[1]] # n
    BY <1>1, RestorerParts
  <2>2. r[2] > handled[NodeOf[r[1]]]
    BY <1>1, RestorerParts
  <2> QED
    BY <1>2, <2>1, <2>2 DEF NotYetStarted
<1>5. \A r \in Restorers : restores[r].pc \in Committed => restores'[r].pc \in Committed
  BY <1>2, <1>3 DEF Committed, Holding
<1>6. UNCHANGED <<exists, status, cutShort>>
  BY DEF HandleNodeFault, apiVars, histVars
<1>7. RestoringExplained'
  BY <1>5, <1>6, ExplainedKeeps
<1> QED
  BY <1>4, <1>7

LEMMA CrashExplained == ASSUME TypeOK, ExplainedInv, Crash PROVE ExplainedInv'
<1> USE DEF ExplainedInv
<1>1. UNCHANGED <<exists, status, handled>> /\ cutShort \subseteq cutShort'
  BY DEF Crash, apiVars
<1>2. \A r \in Restorers : restores[r].pc \in Committed => JobOfR(r) \in cutShort'
  BY DEF Crash
<1>3. \A r \in Restorers : restores[r].pc = "none" => restores'[r].pc = "none"
  BY DEF Crash, NoRestore
<1>4. RestoringExplained'
  BY <1>1, <1>2, ExplainedKeeps
<1> QED
  BY <1>1, <1>3, <1>4 DEF NotYetStarted

(* A new job is Pending, and becomes Running.                              *)
LEMMA NewJobExplained ==
  ASSUME TypeOK, ExplainedInv, NEW j \in Jobs, RecreateJob(j) \/ JobStarts(j)
  PROVE  ExplainedInv'
<1>1. UNCHANGED <<restores, handled>> /\ exists' \subseteq exists \cup {j} /\ cutShort \ {j} \subseteq cutShort'
  BY DEF RecreateJob, JobStarts, ctrlVars, histVars
<1>2. status'[j].phase \in {"Pending", "Running"} /\ \A k \in exists : k # j => status'[k] = status[k]
  <2>1. CASE RecreateJob(j)
    BY <2>1 DEF RecreateJob, NewStatus, TypeOK
  <2>2. CASE JobStarts(j)
    BY <2>2, SetPhaseOne DEF JobStarts, Phases
  <2> QED
    BY <2>1, <2>2
<1>3. RestoringExplained'
  <2> SUFFICES ASSUME NEW k \in exists', status'[k].phase = "Restoring", k \notin cutShort'
               PROVE  \E r \in Restorers : JobOfR(r) = k /\ restores'[r].pc \in Committed
    BY DEF RestoringExplained, JobOfR
  <2>1. k # j
    BY <1>2
  <2>2. k \in exists /\ k \notin cutShort /\ status[k].phase = "Restoring"
    BY <1>1, <1>2, <2>1
  <2> QED
    BY <1>1, <2>2 DEF ExplainedInv, RestoringExplained
<1> QED
  BY <1>1, <1>3 DEF ExplainedInv, NotYetStarted

LEMMA NextExplained == TypeOK /\ ExplainedInv /\ [Next]_vars => ExplainedInv'
<1> SUFFICES ASSUME TypeOK, ExplainedInv, [Next]_vars PROVE ExplainedInv'
  OBVIOUS
<1>1. CASE RecordCheckpoint
  <2>1. UNCHANGED <<exists, restores, handled, cutShort>>
    BY <1>1 DEF RecordCheckpoint, histVars
  <2>2. \A j \in exists : status'[j].phase = "Restoring" => status[j].phase = "Restoring"
    <3>1. CASE worker.job \in exists
      <4>1. PICK w \in Jobs : w = worker.job
        BY DEF TypeOK
      <4>2. status' = [status EXCEPT ![w] = [phase |-> "Running", dir |-> worker.seq,
                                             count |-> worker.seq, attempts |-> status[w].attempts]]
        BY <1>1, <3>1, <4>1 DEF RecordCheckpoint
      <4>3. status'[w].phase = "Running" /\ \A j \in Jobs : j # w => status'[j] = status[j]
        BY <4>2 DEF TypeOK
      <4> QED
        BY <4>3 DEF TypeOK
    <3>2. CASE worker.job \notin exists
      BY <1>1, <3>2 DEF RecordCheckpoint
    <3> QED
      BY <3>1, <3>2
  <2>3. RestoringExplained'
    BY <2>1, <2>2, ExplainedKeeps DEF ExplainedInv
  <2> QED
    BY <2>1, <2>3 DEF ExplainedInv, NotYetStarted
<1>2. CASE UNCHANGED <<status, restores, handled, cutShort>> /\ exists' \subseteq exists
  <2>1. RestoringExplained'
    BY <1>2, ExplainedKeeps DEF ExplainedInv
  <2> QED
    BY <1>2, <2>1 DEF ExplainedInv, NotYetStarted
<1>3. \/ \E r \in Restorers : Restorer(r)
      \/ \E n \in Nodes : HandleNodeFault(n)
      \/ Crash
      \/ RecordCheckpoint
      \/ \E j \in Jobs : RecreateJob(j) \/ JobStarts(j)
      \/ UNCHANGED <<status, restores, handled, cutShort>> /\ exists' \subseteq exists
  BY DEF Next, vars, apiVars, ctrlVars, histVars, StartCheckpoint, IntervalElapses, DeleteJob,
         DumpSucceeds, DumpFails, RecordFails, ListPodsFails, DetectorPolls
<1> QED
  BY <1>1, <1>2, <1>3, RestorerExplained, HandleExplained, CrashExplained, NewJobExplained

(* initiateRestore: a job that stays in Restoring has a goroutine that     *)
(* restores it or had one that was cut short.                              *)
THEOREM RestoringIsExplained == Spec => []RestoringExplained
<1>1. ExplainedInv => RestoringExplained
  BY DEF ExplainedInv
<1> QED
  BY <1>1, InitExplained, NextExplained, TypeCorrect, PTL DEF Spec
================================================================================
