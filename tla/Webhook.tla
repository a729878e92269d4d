------------------------------- MODULE Webhook -------------------------------
(***************************************************************************)
(* cmd/webhook/main.go: what the two admission handlers compute.           *)
(*                                                                         *)
(* An optional field is a set of at most one value.  A string is a member  *)
(* of a small set, with "" for one that is missing or empty.               *)
(***************************************************************************)
EXTENDS Integers, Sequences, SequencesExt

(*------------------------------- PhoenixJob -------------------------------*)
validStorageBackends == {"pvc", "s3", "nfs"}
validActions == {"restore", "restart", "fail"}

(* The names of the checks that fail.                                      *)
Failing(checks) == {f \in DOMAIN checks : checks[f]}

Outside(field, low, high) == \E n \in field : n < low \/ n > high

(* A backend that is not required never needs its own field.               *)
CheckpointErrors(c) ==
  Failing([storageBackend  |-> c.storageBackend \notin validStorageBackends,
           pvcName         |-> c.storageBackend = "pvc" /\ c.pvcName = "",
           bucket          |-> c.storageBackend = "s3" /\ c.bucket = "",
           intervalSeconds |-> Outside(c.intervalSeconds, 60, 86400),
           maxSnapshots    |-> Outside(c.maxSnapshots, 1, 100)])

(* checkpoint, template and onNodeFailure are optional; departmentLength   *)
(* is 0 when there is no department.                                       *)
validatePhoenixJob(spec) ==
  Failing([checkpoint    |-> spec.checkpoint = {},
           template      |-> spec.template = {},
           department    |-> spec.departmentLength > 128,
           onNodeFailure |-> ~(spec.onNodeFailure \subseteq validActions)])
    \cup UNION {CheckpointErrors(c) : c \in spec.checkpoint}

(* encoding/json decodes a number into a float64, which NestedInt64 does   *)
(* not take for an integer: the handler sees no number at all.             *)
Unmarshal(spec) ==
  [spec EXCEPT !.checkpoint =
     {[c EXCEPT !.intervalSeconds = {}, !.maxSnapshots = {}] : c \in @}]

(* The request carries an object with or without a spec.                   *)
handleValidatePhoenixJob(object) ==
  object # {} /\ \A spec \in object : validatePhoenixJob(Unmarshal(spec)) = {}

(*---------------------------------- Pods ----------------------------------*)
(* An environment is a sequence of name and value; the last entry of a     *)
(* name is the one in force.                                               *)
Var(name, value) == [name |-> name, value |-> value]
Getenv(env, name, default) ==
  LET Of == {i \in DOMAIN env : env[i].name = name}
  IN IF Of = {} THEN default ELSE env[Max(Of)].value

LibVGPU == "/usr/lib/phoenixgpu/libvgpu.so"

(* Mutant: the variables go before those the container has.                *)
InjectFirst(env) ==
  <<Var("LD_PRELOAD", LibVGPU), Var("PHOENIXGPU_VGPU_ENABLED", "1")>> \o env

Inject(env) ==
  env \o <<Var("LD_PRELOAD", LibVGPU), Var("PHOENIXGPU_VGPU_ENABLED", "1")>>

(* A request for "nvidia.com/vgpu" or "nvidia.com/vgpu-memory", in one of  *)
(* the containers.  Init containers are not looked at.                     *)
hasVGPU(pod) ==
  \E i \in DOMAIN pod.containers : pod.containers[i].vgpu > 0 \/ pod.containers[i].memory > 0

(* The patches of buildMutationPatches, applied.                           *)
MutatePod(pod) ==
  IF ~hasVGPU(pod) THEN pod
  ELSE [containers  |-> [i \in DOMAIN pod.containers |->
                           [pod.containers[i] EXCEPT !.env = Inject(@)]],
        inits       |-> pod.inits,
        annotations |-> pod.annotations \cup
                          {"phoenixgpu.io/billing-enabled", "phoenixgpu.io/injected-at"}]
=============================================================================
