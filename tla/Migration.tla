------------------------------- MODULE Migration -------------------------------
(***************************************************************************)
(* Live migration of one job: the API handler that starts a migration per  *)
(* request (cmd/api-server/internal/migration_routes.go) and the Execute   *)
(* it calls: RealExecutorWithExec's (pkg/migration/k8s_exec.go), which     *)
(* runs criu and rsync in pods and moves from stage to stage, or the       *)
(* no-op that stands in for a nil executor, as in the shipped api-server.  *)
(*                                                                         *)
(* ExecInPod gives up when its context ends, whatever the command does in  *)
(* the pod by then: a command begins, goes on by itself and ends, and the  *)
(* call returns at any time.  All migrations of a job use the same         *)
(* SnapshotDir.  pre-dump writes below it, so it spoils an image there.    *)
(***************************************************************************)
EXTENDS Naturals, FiniteSets

CONSTANTS
  Requests,        \* bound: the POST .../migrate requests that are served
  Source,          \* Plan.SourceNode, where the job's pod runs
  Targets          \* nodes that requests name

(* Plan.Validate                                                           *)
ASSUME MigrationAssumption == Source \notin Targets /\ Targets # {}

Nodes == Targets \cup {Source}

VARIABLES
  executor,    \* what newMigrationHandlers was given: an executor or nil
  stage,       \* where the Execute of a request is; the no-op's is in "pre-dump"
  target,      \* Plan.TargetNode of a request
  status,      \* the handler's status of the job, "" is none
  cmd,         \* cmd[r][s]: the command of stage s of request r
  proc,        \* the job's process on a node; "behind" repeats what another copy has done
  image,       \* the images in SnapshotDir of a node; "stale": a copy ran on since the dump
  disturbed,   \* a migration was requested while another one, or its copy, was around
  misreported  \* a restore was given up that had begun

vars == <<executor, stage, target, status, cmd, proc, image, disturbed, misreported>>

Stages == {"pre-dump", "dump", "transfer", "restore", "unfreeze"}
Active == {r \in Requests : stage[r] \in Stages}
Begun(s) == {r \in Requests : cmd[r][s] = "begun"}
Under == UNION {Begun(s) : s \in Stages}

TypeOK ==
  /\ executor \in {"real", "noop"}
  /\ stage \in [Requests -> Stages \cup {"none", "done", "failed", "lost"}]
  /\ target \in [Requests -> Targets]
  /\ status \in {"", "running", "done", "failed"}
  /\ cmd \in [Requests -> [Stages -> {"none", "begun", "ok", "bad"}]]
  /\ proc \in [Nodes -> {"none", "running", "stopped", "behind"}]
  /\ image \in [Nodes -> {"none", "torn", "fresh", "stale"}]
  /\ disturbed \in BOOLEAN /\ misreported \in BOOLEAN

Init ==
  /\ executor \in {"real", "noop"}
  /\ stage = [r \in Requests |-> "none"]
  /\ target \in [Requests -> Targets]
  /\ status = ""
  /\ cmd = [r \in Requests |-> [s \in Stages |-> "none"]]
  /\ proc = [n \in Nodes |-> IF n = Source THEN "running" ELSE "none"]
  /\ image = [n \in Nodes |-> "none"]
  /\ disturbed = FALSE
  /\ misreported = FALSE

--------------------------------------------------------------------------------
(* triggerMigration and Execute.                                           *)

(* Nothing asks whether a migration of the job is already running.         *)
TriggerMigration(r) ==
  /\ stage[r] = "none"
  /\ stage' = [stage EXCEPT ![r] = "pre-dump"]
  /\ status' = "running"
  /\ disturbed' = (disturbed \/ Active # {} \/ Under # {} \/ \E n \in Targets : proc[n] # "none")
  /\ UNCHANGED <<executor, target, cmd, proc, image, misreported>>

(* The nodes whose SnapshotDir the command of a stage overwrites: criu's   *)
(* dumps write on the source, rsync at the target.                         *)
Overwrites(r, s) ==
  {n \in Nodes : \/ s \in {"pre-dump", "dump"} /\ n = Source
                 \/ s = "transfer" /\ n = target[r]}

(* ExecInPod finds the pod and the command begins.                         *)
Begin(r) ==
  LET s == stage[r] IN
  /\ executor = "real"
  /\ s \in Stages
  /\ cmd[r][s] = "none"
  /\ cmd' = [cmd EXCEPT ![r][s] = "begun"]
  /\ image' = [n \in Nodes |-> IF n \in Overwrites(r, s) THEN "torn" ELSE image[n]]
  /\ UNCHANGED <<executor, stage, target, status, proc, disturbed, misreported>>

(* The next stage of the loop, or the end of it.                           *)
Following(s) ==
  CASE s = "pre-dump" -> "dump"
    [] s = "dump" -> "transfer"
    [] s = "transfer" -> "restore"
    [] s = "restore" -> "done"

(* Execute goes on to t; when it returns, the handler's goroutine sets the *)
(* status.                                                                 *)
Proceed(r, t) ==
  /\ stage' = [stage EXCEPT ![r] = t]
  /\ status' = IF t \in {"done", "failed"} THEN t ELSE status

(* noopMigrationExecutor.Execute returns nil at once.                      *)
NoopReturns(r) ==
  /\ executor = "noop"
  /\ stage[r] \in Stages
  /\ Proceed(r, "done")
  /\ UNCHANGED <<executor, target, cmd, proc, image, disturbed, misreported>>

StageSucceeds(r) ==
  LET s == stage[r] IN
  /\ s \in Stages \ {"unfreeze"}
  /\ cmd[r][s] = "ok"
  /\ Proceed(r, Following(s))
  /\ UNCHANGED <<executor, target, cmd, proc, image, disturbed, misreported>>

(* Mutants: the error of a stage is not returned; only the command's own   *)
(* failure is noticed.                                                     *)
StageFailsUnnoticed(r) ==
  LET s == stage[r] IN
  /\ executor = "real"
  /\ s \in Stages \ {"unfreeze"}
  /\ Proceed(r, Following(s))
  /\ UNCHANGED <<executor, target, cmd, proc, image, disturbed, misreported>>
StageFailsWithoutTimeout(r) ==
  LET s == stage[r] IN
  /\ executor = "real"
  /\ s \in Stages \ {"unfreeze"}
  /\ cmd[r][s] = "bad"
  /\ Proceed(r, IF s = "restore" THEN "unfreeze" ELSE "failed")
  /\ UNCHANGED <<executor, target, cmd, proc, image, disturbed, misreported>>

(* No pod, the command's failure, a broken stream or the end of the        *)
(* context.  Only a failed restore is followed by the unfreeze command.    *)
StageFails(r) ==
  LET s == stage[r] IN
  /\ executor = "real"
  /\ s \in Stages \ {"unfreeze"}
  /\ Proceed(r, IF s = "restore" THEN "unfreeze" ELSE "failed")
  /\ misreported' = (misreported \/ (s = "restore" /\ cmd[r][s] \in {"begun", "ok"}))
  /\ UNCHANGED <<executor, target, cmd, proc, image, disturbed>>

(* Mutant: the goroutine does not set the status.                          *)
UnfreezeReturnsSilently(r) ==
  /\ stage[r] = "unfreeze"
  /\ stage' = [stage EXCEPT ![r] = "failed"]
  /\ UNCHANGED <<executor, target, status, cmd, proc, image, disturbed, misreported>>

(* Best effort: the result of unfreeze is ignored.                         *)
UnfreezeReturns(r) ==
  /\ stage[r] = "unfreeze"
  /\ Proceed(r, "failed")
  /\ UNCHANGED <<executor, target, cmd, proc, image, disturbed, misreported>>

(* The API server stops: its goroutines and the status map are gone, the   *)
(* commands in the pods go on.                                             *)
ServerStops ==
  /\ status # ""
  /\ status' = ""
  /\ stage' = [r \in Requests |-> IF r \in Active THEN "lost" ELSE stage[r]]
  /\ UNCHANGED <<executor, target, cmd, proc, image, disturbed, misreported>>

--------------------------------------------------------------------------------
(* The commands in the pods: criu, rsync and kill.                         *)
Ends(r, s, how) ==
  /\ r \in Begun(s)
  /\ cmd' = [cmd EXCEPT ![r][s] = how]
  /\ UNCHANGED <<executor, stage, target, status, disturbed, misreported>>

CommandFails(r, s) == Ends(r, s, "bad") /\ UNCHANGED <<proc, image>>

PreDumpEnds(r) == Ends(r, "pre-dump", "ok") /\ UNCHANGED <<proc, image>>

(* Mutant: --leave-running, as in the checkpoints of the controller.       *)
DumpLeavesRunning(r) ==
  /\ Ends(r, "dump", "ok")
  /\ image' = [image EXCEPT ![Source] = "fresh"]
  /\ UNCHANGED proc

(* Commands that are writing images on the source.                         *)
Writers == Begun("pre-dump") \cup Begun("dump")

(* criu dump --leave-stopped; images that two commands write are spoilt.   *)
DumpEnds(r) ==
  /\ Ends(r, "dump", "ok")
  /\ proc' = [proc EXCEPT ![Source] = "stopped"]
  /\ image' = [image EXCEPT ![Source] = IF Writers = {r} THEN "fresh" ELSE "torn"]

(* rsync copies what it finds.                                             *)
TransferEnds(r) ==
  /\ Ends(r, "transfer", "ok")
  /\ image' = [image EXCEPT ![target[r]] = IF Writers = {} THEN image[Source] ELSE "torn"]
  /\ UNCHANGED proc

(* A copy runs on: the images of the same process fall behind.             *)
Aged == [n \in Nodes |-> IF image[n] = "fresh" THEN "stale" ELSE image[n]]

RestoreEnds(r) ==
  LET t == target[r] IN
  /\ image[t] \in {"fresh", "stale"}
  /\ proc[t] = "none"
  /\ Ends(r, "restore", "ok")
  /\ proc' = [proc EXCEPT ![t] = IF image[t] = "fresh" THEN "running" ELSE "behind"]
  /\ image' = Aged

(* kill -CONT || true                                                      *)
UnfreezeEnds(r) ==
  /\ Ends(r, "unfreeze", "ok")
  /\ proc' = [proc EXCEPT ![Source] = "running"]
  /\ image' = Aged

Executes(r) == NoopReturns(r) \/ StageSucceeds(r) \/ StageFails(r) \/ UnfreezeReturns(r)

Next ==
  \/ \E r \in Requests :
       \/ TriggerMigration(r) \/ Begin(r)
       \/ NoopReturns(r) \/ StageSucceeds(r) \/ StageFails(r) \/ UnfreezeReturns(r)
       \/ PreDumpEnds(r) \/ DumpEnds(r) \/ TransferEnds(r) \/ RestoreEnds(r) \/ UnfreezeEnds(r)
       \/ \E s \in Stages \ {"unfreeze"} : CommandFails(r, s)
  \/ ServerStops

Spec == Init /\ [][Next]_vars

(* Every ExecInPod has a context with a deadline and returns by then.  No  *)
(* fairness for the commands in the pods.                                  *)
FairSpec == Spec /\ \A r \in Requests : WF_vars(Executes(r))

--------------------------------------------------------------------------------
(* What the release notes say of a migration that was reported as done:    *)
(* the copy on the target continues where the process on the source was    *)
(* stopped, and that one is still stopped; whatever the commands of failed *)
(* attempts before it did.  The no-op executor reports it and moves        *)
(* nothing.                                                                *)
ReportedMoveHappened ==
  ~disturbed => \A r \in Requests : stage[r] = "done" =>
    /\ proc[target[r]] = "running"
    /\ proc[Source] = "stopped"

(* So with an executor that migrates: no stage is passed over, and no      *)
(* command that outlived its call spoils the images of a later attempt.    *)
DoneMeansMoved == executor = "real" => ReportedMoveHappened

(* The job never runs twice and never repeats work: while requests follow  *)
(* one another and no restore takes effect that was reported as failed,    *)
(* only one copy runs, from an image dumped after its last step.           *)
OneCurrentCopy ==
  ~disturbed /\ ~misreported =>
    /\ Cardinality({n \in Nodes : proc[n] \in {"running", "behind"}}) <= 1
    /\ \A n \in Nodes : proc[n] # "behind"

(* The status is "running" exactly while an Execute is under way, as long  *)
(* as migrations of the job do not overlap.                                *)
StatusTracksMigration == ~disturbed => (status = "running" <=> Active # {})

(* Every migration comes to an end, whatever hangs in the pods.            *)
EveryMigrationEnds == \A r \in Requests : stage[r] \in Stages ~> stage[r] \notin Stages
================================================================================
