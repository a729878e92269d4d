----------------------------- MODULE HAController -----------------------------
(***************************************************************************)
(* pkg/hacontroller/controller.go: the reconciler that checkpoints Running *)
(* jobs and the goroutines that restore the jobs of a faulted node.        *)
(*                                                                         *)
(* The two share nothing but the status of the PhoenixJob objects, which   *)
(* both read with Get and write with merge patches that carry no resource  *)
(* version and no UID: a patch overwrites the fields it names, whatever    *)
(* happened since the Get, and be it in another job that was created under *)
(* the name of a deleted one.  Every API call is therefore a step of its   *)
(* own.  The fault detector is the abstract one of NodeFaults.             *)
(*                                                                         *)
(* A snapshot directory is named by the name of the job and its sequence   *)
(* number (snapshotDir), so the jobs that had a name one after the other   *)
(* share their directories; the empty lastCheckpointDir is NoDir.          *)
(***************************************************************************)
EXTENDS NodeFaults, FiniteSets

CONSTANTS
  Jobs,
  Pods,                  \* pods with the label phoenixgpu.io/job-name
  JobOf, NodeOf,         \* the job and the node of a pod
  MaxConcurrentRestores,
  MaxRestoreAttempts,
  MaxSeq,                \* bound: checkpoints of a job
  MaxFaults,             \* bound: fault events of a node
  MaxApiErrors,          \* bound: failed API calls that matter
  MaxCrashes,            \* bound: crashes of the controller
  MaxRecreations,        \* bound: jobs created under the name of a deleted one, per name
  NodeNameIndexed        \* whether the client can list pods by spec.nodeName (see ListPodsFails)

ASSUME ControllerAssumption ==
  /\ Jobs # {} /\ IsFiniteSet(Pods)
  /\ JobOf \in [Pods -> Jobs]
  /\ NodeOf \in [Pods -> Nodes]
  /\ MaxConcurrentRestores \in Nat \ {0}
  /\ MaxRestoreAttempts \in Nat
  /\ MaxSeq \in Nat /\ MaxFaults \in Nat /\ MaxApiErrors \in Nat /\ MaxCrashes \in Nat
  /\ MaxRecreations \in Nat
  /\ NodeNameIndexed \in BOOLEAN

VARIABLES
  \* the API server and the disk
  exists,      \* jobs that have not been deleted
  uid,         \* uid[j]: which of the jobs that had the name j this is; no code reads it
  status,      \* status of a job: phase, lastCheckpointDir, checkpointCount, restoreAttempts
  disk,        \* disk[j]: the state of every snapshot directory of j
  due,         \* jobs whose checkpoint interval has elapsed since lastCheckpointTime
  \* the controller
  worker,      \* the one reconcile worker: what it is doing, for which job, which sequence number
  restores,    \* restores[<<p, e>>]: the goroutine started for pod p by the e-th fault of its node
  handled,     \* fault events handled per node, names the goroutines
  \* history and bounds
  failures,    \* restores of a job that failed since the last one that succeeded
  cutShort,    \* jobs one of whose restores ended without writing the phase
  apiErrors, crashes

apiVars  == <<exists, uid, status, disk, due>>
ctrlVars == <<worker, restores, handled>>
histVars == <<failures, cutShort, apiErrors, crashes>>
vars == <<faultVars, apiVars, ctrlVars, histVars>>

Phases == {"Pending", "Running", "Checkpointing", "Restoring", "Succeeded", "Failed"}
NoDir == 0
Seqs == 1 .. MaxSeq
Dirs == {NoDir} \cup Seqs
Restorers == Pods \X (1 .. MaxFaults)
RestorerPCs == {"none", "queued", "fetch", "marking", "restoring", "restored", "gaveUp", "done"}
(* The semaphore is held from its acquisition to the end of the goroutine. *)
Holding == {"fetch", "marking", "restoring", "restored", "gaveUp"}
(* The goroutine has read the job and will restore, or has restored, it.   *)
Committed == Holding \ {"fetch"}

JobOfR(r) == JobOf[r[1]]

(* Mutant: the slot of a goroutine that has ended is not given back.       *)
HoldersForEver == {r \in Restorers : restores[r].pc \in Holding \cup {"done"}}

Holders == {r \in Restorers : restores[r].pc \in Holding}
IdleWorker == [pc |-> "idle", job |-> CHOOSE j \in Jobs : TRUE, seq |-> NoDir, uid |-> 0]
NoRestore == [pc |-> "none", dir |-> NoDir, attempts |-> 0, uid |-> 0]
NewStatus(phase) == [phase |-> phase, dir |-> NoDir, count |-> 0, attempts |-> 0]

Uids == 0 .. MaxRecreations

TypeOK ==
  /\ FaultsTypeOK
  /\ exists \subseteq Jobs
  /\ uid \in [Jobs -> Uids]
  /\ status \in [Jobs -> [phase : Phases, dir : Dirs, count : Dirs, attempts : Nat]]
  /\ disk \in [Jobs -> [Seqs -> {"absent", "partial", "complete"}]]
  /\ due \subseteq Jobs
  /\ worker \in [pc : {"idle", "dumping", "dumped"}, job : Jobs, seq : Dirs, uid : Uids]
  /\ restores \in [Restorers -> [pc : RestorerPCs, dir : Dirs, attempts : Nat, uid : Uids]]
  /\ handled \in [Nodes -> 0 .. MaxFaults]
  /\ failures \in [Jobs -> Nat]
  /\ cutShort \subseteq Jobs
  /\ apiErrors \in 0 .. MaxApiErrors
  /\ crashes \in 0 .. MaxCrashes

(* Every job runs, none has a checkpoint yet: lastCheckpointTime is the    *)
(* zero time, so the first checkpoint is due at once.                      *)
Init ==
  /\ FaultsInit
  /\ exists = Jobs
  /\ uid = [j \in Jobs |-> 0]
  /\ status = [j \in Jobs |-> NewStatus("Running")]
  /\ disk = [j \in Jobs |-> [s \in Seqs |-> "absent"]]
  /\ due = Jobs
  /\ worker = IdleWorker
  /\ restores = [r \in Restorers |-> NoRestore]
  /\ handled = [n \in Nodes |-> 0]
  /\ failures = [j \in Jobs |-> 0]
  /\ cutShort = {}
  /\ apiErrors = 0
  /\ crashes = 0

ApiError == apiErrors < MaxApiErrors /\ apiErrors' = apiErrors + 1

--------------------------------------------------------------------------------
(* Reconcile.  controller-runtime runs one worker, which does not take the *)
(* next request before Reconcile returns.                                  *)

(* getJobPod and getPIDFromPod find a process to dump.                     *)
HasPod(j) == \E p \in Pods : JobOf[p] = j

(* In Checkpointing and Restoring Reconcile only logs and comes back later.*)
Checkpointable(j) == status[j].phase = "Running"

(* Mutant: the number of the current checkpoint is used again.             *)
StartCheckpointAgain(j) ==
  /\ worker.pc = "idle"
  /\ j \in exists
  /\ Checkpointable(j)
  /\ j \in due
  /\ HasPod(j)
  /\ LET seq == IF status[j].count = 0 THEN 1 ELSE status[j].count
     IN /\ worker' = [pc |-> "dumping", job |-> j, seq |-> seq, uid |-> uid[j]]
        /\ disk' = [disk EXCEPT ![j][seq] = "partial"]
  /\ UNCHANGED <<faultVars, exists, uid, status, due, restores, handled, histVars>>

(* Reconcile, reconcileRunning and triggerCheckpoint up to the Dump call:  *)
(* the status is read once, here, and Dump starts to write the directory.  *)
(* The returns before that change nothing.                                 *)
StartCheckpoint(j) ==
  /\ worker.pc = "idle"
  /\ j \in exists
  /\ Checkpointable(j)
  /\ j \in due
  /\ HasPod(j)
  /\ LET seq == status[j].count + 1
     IN /\ seq <= MaxSeq
        /\ worker' = [pc |-> "dumping", job |-> j, seq |-> seq, uid |-> uid[j]]
        /\ disk' = [disk EXCEPT ![j][seq] = "partial"]
  /\ UNCHANGED <<faultVars, exists, uid, status, due, restores, handled, histVars>>

DumpSucceeds ==
  /\ worker.pc = "dumping"
  /\ disk' = [disk EXCEPT ![worker.job][worker.seq] = "complete"]
  /\ worker' = [worker EXCEPT !.pc = "dumped"]
  /\ UNCHANGED <<faultVars, exists, uid, status, due, restores, handled, histVars>>

(* Mutant: the error of Dump is logged and the checkpoint recorded.        *)
DumpFailsUnnoticed ==
  /\ worker.pc = "dumping"
  /\ worker' = [worker EXCEPT !.pc = "dumped"]
  /\ UNCHANGED <<faultVars, apiVars, restores, handled, histVars>>

DumpFails ==
  /\ worker.pc = "dumping"
  /\ worker' = IdleWorker
  /\ UNCHANGED <<faultVars, apiVars, restores, handled, histVars>>

(* Mutant: the patch does not carry the new count.                         *)
RecordCheckpointNoCount ==
  /\ worker.pc = "dumped"
  /\ IF worker.job \in exists
     THEN /\ status' = [status EXCEPT ![worker.job].dir = worker.seq]
          /\ due' = due \ {worker.job}
     ELSE UNCHANGED <<status, due>>
  /\ worker' = IdleWorker
  /\ UNCHANGED <<faultVars, exists, uid, disk, restores, handled, histVars>>

(* updateCheckpointStatus: directory, time, count and phase Running in one *)
(* patch to whatever job has the name; a deleted job is not found.         *)
RecordCheckpoint ==
  /\ worker.pc = "dumped"
  /\ IF worker.job \in exists
     THEN /\ status' = [status EXCEPT ![worker.job] =
                [phase |-> "Running", dir |-> worker.seq, count |-> worker.seq,
                 attempts |-> @.attempts]]
          /\ due' = due \ {worker.job}
     ELSE UNCHANGED <<status, due>>
  /\ worker' = IdleWorker
  /\ UNCHANGED <<faultVars, exists, uid, disk, restores, handled, histVars>>

RecordFails ==
  /\ worker.pc = "dumped"
  /\ ApiError
  /\ worker' = IdleWorker
  /\ UNCHANGED <<faultVars, apiVars, restores, handled, failures, cutShort, crashes>>

--------------------------------------------------------------------------------
(* HandleNodeFault and initiateRestore.                                    *)

(* One goroutine per labelled pod on the node, whatever its job's phase    *)
(* and however many pods the job has there.                                *)
HandleNodeFault(n) ==
  /\ NodeNameIndexed
  /\ Deliver(n)
  /\ handled[n] < MaxFaults
  /\ handled' = [handled EXCEPT ![n] = @ + 1]
  /\ restores' = [r \in Restorers |->
                    IF NodeOf[r[1]] = n /\ r[2] = handled'[n]
                    THEN [NoRestore EXCEPT !.pc = "queued"]
                    ELSE restores[r]]
  /\ UNCHANGED <<apiVars, worker, histVars>>

(* The pods cannot be listed: the event is gone, the detector keeps its    *)
(* mark.  The client of the manager lists by spec.nodeName from its cache, *)
(* which refuses that without an index, and main registers none.           *)
ListPodsFails(n) ==
  /\ Deliver(n)
  /\ IF NodeNameIndexed THEN ApiError ELSE UNCHANGED apiErrors
  /\ UNCHANGED <<apiVars, ctrlVars, failures, cutShort, crashes>>

Goto(r, pc) == restores' = [restores EXCEPT ![r].pc = pc]

(* A goroutine that has ended holds nothing.                               *)
Ended == [NoRestore EXCEPT !.pc = "done"]
End(r) == restores' = [restores EXCEPT ![r] = Ended]

Acquire(r) ==
  /\ restores[r].pc = "queued"
  /\ Cardinality(Holders) < MaxConcurrentRestores
  /\ Goto(r, "fetch")
  /\ UNCHANGED <<faultVars, apiVars, worker, handled, histVars>>

(* Get: directory and attempt counter are read once, here.  Without a      *)
(* checkpoint the goroutine returns and the phase stays as it is.          *)
FetchJob(r) ==
  LET j == JobOfR(r) IN
  /\ restores[r].pc = "fetch"
  /\ IF j \in exists /\ status[j].dir # NoDir
     THEN restores' = [restores EXCEPT ![r] = [pc |-> "marking", dir |-> status[j].dir,
                                               attempts |-> status[j].attempts, uid |-> uid[j]]]
     ELSE End(r)
  /\ UNCHANGED <<faultVars, apiVars, worker, handled, histVars>>

FetchFails(r) ==
  /\ restores[r].pc = "fetch"
  /\ ApiError
  /\ End(r)
  /\ UNCHANGED <<faultVars, apiVars, worker, handled, failures, cutShort, crashes>>

(* updateJobPhase patches the job that has the name now, which may be a    *)
(* later one than the one read; the patch of a deleted job finds nothing.  *)
SetPhase(j, phase) ==
  IF j \in exists THEN status' = [status EXCEPT ![j].phase = phase] ELSE UNCHANGED status

MarkRestoring(r) ==
  /\ restores[r].pc = "marking"
  /\ SetPhase(JobOfR(r), "Restoring")
  /\ Goto(r, "restoring")
  /\ UNCHANGED <<faultVars, exists, uid, disk, due, worker, handled, histVars>>

(* The error is logged and the restore goes on.                            *)
MarkFails(r) ==
  /\ restores[r].pc = "marking"
  /\ ApiError
  /\ Goto(r, "restoring")
  /\ UNCHANGED <<faultVars, apiVars, worker, handled, failures, cutShort, crashes>>

RestoreSucceeds(r) ==
  /\ restores[r].pc = "restoring"
  /\ disk[JobOfR(r)][restores[r].dir] = "complete"
  /\ Goto(r, "restored")
  /\ failures' = [failures EXCEPT ![JobOfR(r)] = 0]
  /\ UNCHANGED <<faultVars, apiVars, worker, handled, cutShort, apiErrors, crashes>>

(* An error or the timeout: the job fails when the counter read by         *)
(* FetchJob is one short of the maximum, otherwise the goroutine returns.  *)
RestoreFails(r) ==
  LET j == JobOfR(r) IN
  /\ restores[r].pc = "restoring"
  /\ failures' = [failures EXCEPT ![j] = IF @ < MaxRestoreAttempts THEN @ + 1 ELSE @]
  /\ IF restores[r].attempts + 1 >= MaxRestoreAttempts
     THEN Goto(r, "gaveUp") /\ UNCHANGED cutShort
     ELSE End(r) /\ cutShort' = cutShort \cup {j}
  /\ UNCHANGED <<faultVars, apiVars, worker, handled, apiErrors, crashes>>

(* Mutant: a failure of the last attempt is not written.                   *)
RecordOutcomeOnlySuccess(r) ==
  /\ restores[r].pc \in {"restored", "gaveUp"}
  /\ IF restores[r].pc = "restored" THEN SetPhase(JobOfR(r), "Running") ELSE UNCHANGED status
  /\ End(r)
  /\ UNCHANGED <<faultVars, exists, uid, disk, due, worker, handled, histVars>>

RecordOutcome(r) ==
  /\ restores[r].pc \in {"restored", "gaveUp"}
  /\ SetPhase(JobOfR(r), IF restores[r].pc = "restored" THEN "Running" ELSE "Failed")
  /\ End(r)
  /\ UNCHANGED <<faultVars, exists, uid, disk, due, worker, handled, histVars>>

RecordOutcomeFails(r) ==
  /\ restores[r].pc \in {"restored", "gaveUp"}
  /\ ApiError
  /\ End(r)
  /\ cutShort' = cutShort \cup {JobOfR(r)}
  /\ UNCHANGED <<faultVars, apiVars, worker, handled, failures, crashes>>

(* The recover of the goroutine: it ends wherever it was (a controller     *)
(* without CRIU has no Checkpointer, and Restore panics), the deferred     *)
(* release gives the slot back.                                            *)
Panics(r) ==
  /\ restores[r].pc \in Holding
  /\ End(r)
  /\ cutShort' = IF restores[r].pc \in Committed THEN cutShort \cup {JobOfR(r)} ELSE cutShort
  /\ UNCHANGED <<faultVars, apiVars, worker, handled, failures, apiErrors, crashes>>

--------------------------------------------------------------------------------
(* Environment.                                                            *)

(* The detector polls.  (The bound MaxFaults: after the last fault event,   *)
(* what it believes of the nodes matters to nobody.)                       *)
DetectorPolls ==
  /\ \E n \in Nodes : events[n] + handled[n] < MaxFaults
  /\ Observe
  /\ \A n \in Nodes : events'[n] + handled[n] <= MaxFaults
  /\ UNCHANGED <<apiVars, ctrlVars, histVars>>

IntervalElapses(j) ==
  /\ due' = due \cup {j}
  /\ UNCHANGED <<faultVars, exists, uid, status, disk, ctrlVars, histVars>>

DeleteJob(j) ==
  /\ exists' = exists \ {j}
  /\ UNCHANGED <<faultVars, uid, status, disk, due, ctrlVars, histVars>>

(* Another job is created under the name: its status is new, the snapshot  *)
(* directories of the name are still there, and so are the goroutines and  *)
(* the Dump that were started for the job before.                          *)
RecreateJob(j) ==
  /\ j \notin exists
  /\ uid[j] < MaxRecreations
  /\ exists' = exists \cup {j}
  /\ uid' = [uid EXCEPT ![j] = @ + 1]
  /\ status' = [status EXCEPT ![j] = NewStatus("Pending")]
  /\ due' = due \cup {j}
  /\ failures' = [failures EXCEPT ![j] = 0]
  /\ cutShort' = cutShort \ {j}
  /\ UNCHANGED <<faultVars, disk, ctrlVars, apiErrors, crashes>>

(* The new job starts to run.                                              *)
JobStarts(j) ==
  /\ j \in exists
  /\ status[j].phase = "Pending"
  /\ SetPhase(j, "Running")
  /\ UNCHANGED <<faultVars, exists, uid, disk, due, ctrlVars, histVars>>

(* The controller process stops and another leader takes over: goroutines, *)
(* undelivered events and the detector's memory are lost.                  *)
Crash ==
  /\ crashes < MaxCrashes
  /\ crashes' = crashes + 1
  /\ Forget
  /\ worker' = IdleWorker
  /\ cutShort' = cutShort \cup {JobOfR(r) : r \in {q \in Restorers : restores[q].pc \in Committed}}
  /\ restores' = [r \in Restorers |-> IF restores[r].pc = "none" THEN NoRestore ELSE Ended]
  /\ UNCHANGED <<apiVars, handled, failures, apiErrors>>

Restorer(r) ==
  \/ Acquire(r) \/ FetchJob(r) \/ FetchFails(r) \/ MarkRestoring(r) \/ MarkFails(r)
  \/ RestoreSucceeds(r) \/ RestoreFails(r)
  \/ RecordOutcome(r) \/ RecordOutcomeFails(r) \/ Panics(r)

Next ==
  \/ \E j \in Jobs : StartCheckpoint(j) \/ IntervalElapses(j)
                     \/ DeleteJob(j) \/ RecreateJob(j) \/ JobStarts(j)
  \/ DumpSucceeds \/ DumpFails \/ RecordCheckpoint \/ RecordFails
  \/ \E n \in Nodes : HandleNodeFault(n) \/ ListPodsFails(n)
  \/ \E r \in Restorers : Restorer(r)
  \/ DetectorPolls
  \/ Crash

Spec == Init /\ [][Next]_vars

(* Goroutines are scheduled, and the timeout of Restore ends it.           *)
Fairness == \A r \in Restorers : WF_vars(Restorer(r))

FairSpec == Spec /\ Fairness

--------------------------------------------------------------------------------
(* At most MaxConcurrentRestores goroutines are between the acquisition of *)
(* the semaphore and its release, on every path out of initiateRestore.    *)
RestoresBounded == Cardinality(Holders) <= MaxConcurrentRestores

(* The directory a job's status names holds a complete snapshot, also      *)
(* while the next Dump is writing and after dumps and patches that failed. *)
CheckpointUsable ==
  \A j \in Jobs : status[j].dir # NoDir => disk[j][status[j].dir] = "complete"

(* The goroutine holds the status of the job that has the name now.        *)
OfThisJob(r) == restores[r].uid = uid[JobOfR(r)]

(* No Dump writes into the directory a restore goroutine has read, however *)
(* old that reading is by the time criu restore opens it, as long as the   *)
(* job it read is not deleted and created again under its name: the new    *)
(* job counts from one again and dumps into the same directories.          *)
RestoreSourceStable ==
  \A r \in Restorers : restores[r].pc \in Committed /\ OfThisJob(r) =>
    /\ restores[r].dir # NoDir
    /\ disk[JobOfR(r)][restores[r].dir] = "complete"

(* Checkpoint numbers of a job are not lost or reused, in spite of patches *)
(* without a resource version (the one reconcile worker makes the          *)
(* difference): a recorded checkpoint is the successor of the one recorded *)
(* before.  One step may skip numbers: the first checkpoint recorded for a *)
(* job is the one of its predecessor, if that Dump was under way when the  *)
(* job was created.                                                        *)
CheckpointsDense ==
  [][\A j \in Jobs : status'[j].dir # status[j].dir /\ uid'[j] = uid[j] =>
       /\ status'[j].count = status'[j].dir
       /\ \/ status'[j].dir = status[j].count + 1
          \/ status[j].count = 0 /\ worker.job = j /\ worker.uid < uid[j]]_vars

(* A job stays in Restoring with no goroutine restoring it only after one  *)
(* was cut short: a failure below the maximum, a lost patch or a crash.    *)
(* Interleaved restores of one job never strand it.                        *)
RestoringExplained ==
  \A j \in exists : status[j].phase = "Restoring" =>
    j \in cutShort \/ \E r \in Restorers : JobOfR(r) = j /\ restores[r].pc \in Committed

(* The restores started by a fault drain: every goroutine waiting for the  *)
(* semaphore gets it and all come to an end.  (The number of faults is     *)
(* bounded, so a moment without goroutines comes.)                         *)
Idle(r) == restores[r].pc \in {"none", "done"}
RestoresDrain == (\E r \in Restorers : ~Idle(r)) ~> (\A r \in Restorers : Idle(r))

(* CRD and testing guide: a job whose restores failed maxRestoreAttempts   *)
(* times in a row is marked Failed.  (restoreAttempts is never written.)   *)
FailedAfterMaxAttempts ==
  \A j \in exists :
    /\ failures[j] >= MaxRestoreAttempts
    /\ \A r \in Restorers : JobOfR(r) = j => Idle(r)
    => status[j].phase = "Failed"

(* controller.go:196: HandleNodeFault "finds all PhoenixJobs on that node  *)
(* and initiates restore".                                                 *)
FaultsReachJobs ==
  [][\A n \in Nodes : Deliver(n) => handled'[n] = handled[n] + 1]_vars
================================================================================
