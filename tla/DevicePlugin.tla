---------------------------- MODULE DevicePlugin ----------------------------
(***************************************************************************)
(* cmd/device-plugin/main.go on one node, with the kubelet it registers    *)
(* with and the pods that pass the webhook, the scheduler and the kubelet  *)
(* to become containers.  The kubelet, kube-scheduler and nvidia-smi are   *)
(* external.                                                               *)
(*                                                                         *)
(* nvidia-smi numbers the GPUs it finds from 0 in the order of the bus, so *)
(* a GPU that is lost or comes back may change the index of others.  A     *)
(* slice "gpu-<i>-slice-<s>" is <<i, s>>.                                  *)
(***************************************************************************)
EXTENDS Integers, Sequences, FiniteSets, SequencesExt, Webhook, SchedulerExtender

CONSTANTS
  Bus,            \* the UUIDs of the GPUs, in the order of the bus
  MemoryMiB,      \* of each GPU
  slicesPerGPU,
  Pods, Template  \* what each pod is created as: one container, no init container

GPUs == Range(Bus)
InjectedAt == "phoenixgpu.io/injected-at"

(* A pod is not created with the annotation of the webhook.                *)
ASSUME PluginAssumption ==
  /\ slicesPerGPU \in Nat \ {0}
  /\ Bus \in Seq(GPUs) /\ IsInjective(Bus) /\ MemoryMiB \in [GPUs -> Nat]
  /\ IsFiniteSet(Pods)
  /\ \A p \in Pods :
       LET c == Template[p].containers[1]
       IN /\ Template[p].containers = <<c>> /\ DOMAIN c = {"vgpu", "memory", "env"}
          /\ c.env \in Seq(Range(c.env))
          /\ InjectedAt \notin Template[p].annotations

VARIABLES
  present,    \* GPUs that nvidia-smi finds
  moved,      \* history: some GPU had another index than at first
  plugin,     \* how far run() is
  devices,    \* p.devices, a set of records
  socket,     \* the plugin's socket file exists
  kubelet,    \* what the kubelet knows of the plugin
  offered,    \* slices it believes healthy
  disturbed,  \* history: since the plugin discovered the GPUs one came or went, or
              \* nvidia-smi did not answer before the list was sent
  phase, pod, ids, env, sees     \* of each pod; sees is the GPUs its container got

nodeVars == <<present, moved, plugin, devices, socket, kubelet, offered, disturbed>>
podVars == <<phase, pod, ids, env, sees>>
pluginVars == <<nodeVars, podVars>>

SliceIDs == Nat \X Nat
Slices == [id : SliceIDs, uuid : GPUs, memory : Nat, healthy : BOOLEAN]
NoPod == [containers |-> <<>>, inits |-> <<>>, annotations |-> {}]
Admitted(p) == {Template[p], MutatePod(Template[p])}

PluginTypeOK ==
  /\ present \subseteq GPUs /\ moved \in BOOLEAN /\ disturbed \in BOOLEAN
  /\ plugin \in {"down", "start", "register", "ready"}
  /\ devices \subseteq Slices
  /\ \A d, e \in devices : d.id = e.id => d = e
  /\ socket \in BOOLEAN
  /\ kubelet \in {"unknown", "registered", "connected"}
  /\ offered \subseteq SliceIDs
  /\ phase \in [Pods -> {"none", "pending", "bound", "allocated", "running"}]
  /\ pod \in [Pods -> {NoPod} \cup UNION {Admitted(p) : p \in Pods}]
  /\ ids \in [Pods -> SUBSET SliceIDs] /\ sees \in [Pods -> SUBSET GPUs]
  /\ DOMAIN env = Pods

PluginInit ==
  /\ present = GPUs /\ moved = FALSE /\ disturbed = FALSE
  /\ plugin = "down" /\ devices = {} /\ socket = FALSE
  /\ kubelet = "unknown" /\ offered = {}
  /\ phase = [p \in Pods |-> "none"]
  /\ pod = [p \in Pods |-> NoPod]
  /\ ids = [p \in Pods |-> {}]
  /\ env = [p \in Pods |-> <<>>]
  /\ sees = [p \in Pods |-> {}]

(*--------------------------------- GPUs -----------------------------------*)
Slot(g) == CHOOSE i \in DOMAIN Bus : Bus[i] = g
Number(g, gs) == Cardinality({h \in gs : Slot(h) < Slot(g)})

Appear(gs) ==
  /\ present' = gs
  /\ moved' = (moved \/ \E g \in gs : Number(g, gs) # Number(g, GPUs))
  /\ disturbed' = TRUE
  /\ UNCHANGED <<plugin, devices, socket, kubelet, offered, podVars>>

GPULost == \E g \in present : Appear(present \ {g})
GPUBack == \E g \in GPUs \ present : Appear(present \cup {g})

(*------------------------------ the plugin --------------------------------*)
(* Mutant: one slice too many, "<=" for "<".                               *)
buildVGPUDevicesOneMore(gs) ==
  {[id |-> <<Number(g, gs), s>>, uuid |-> g,
    memory |-> MemoryMiB[g] \div slicesPerGPU, healthy |-> TRUE] :
     g \in gs, s \in 0 .. slicesPerGPU}

buildVGPUDevices(gs) ==
  {[id |-> <<Number(g, gs), s>>, uuid |-> g,
    memory |-> MemoryMiB[g] \div slicesPerGPU, healthy |-> TRUE] :
     g \in gs, s \in 0 .. slicesPerGPU - 1}

(* run: with no GPU the process ends, and the DaemonSet starts it again.   *)
discoverGPUs ==
  /\ plugin = "down" /\ present # {}
  /\ devices' = buildVGPUDevices(present)
  /\ disturbed' = FALSE
  /\ plugin' = "start"
  /\ UNCHANGED <<present, moved, socket, kubelet, offered, podVars>>

(* Mutant: the socket a crash has left is not removed; listen fails.       *)
StartOnFreeSocket ==
  /\ plugin = "start" /\ ~socket
  /\ socket' = TRUE
  /\ plugin' = "register"
  /\ UNCHANGED <<present, moved, devices, kubelet, offered, disturbed, podVars>>

Start ==
  /\ plugin = "start"
  /\ socket' = TRUE
  /\ plugin' = "register"
  /\ UNCHANGED <<present, moved, devices, kubelet, offered, disturbed, podVars>>

Register ==
  /\ plugin = "register"
  /\ kubelet' = "registered" /\ offered' = {}
  /\ plugin' = "ready"
  /\ UNCHANGED <<present, moved, devices, socket, disturbed, podVars>>

(* SIGTERM, or an error of Register: close stopCh, which ends the stream,  *)
(* stop the server and remove the socket.                                  *)
Stop ==
  /\ plugin \in {"register", "ready"}
  /\ plugin' = "down" /\ devices' = {} /\ socket' = FALSE
  /\ kubelet' = "unknown" /\ offered' = {}
  /\ UNCHANGED <<present, moved, disturbed, podVars>>

Crash ==
  /\ plugin # "down"
  /\ plugin' = "down" /\ devices' = {}
  /\ kubelet' = "unknown" /\ offered' = {}
  /\ UNCHANGED <<present, moved, socket, disturbed, podVars>>

(* checkHealth: all are unhealthy when nvidia-smi fails.  Nothing is sent. *)
checkHealth ==
  /\ plugin = "ready"
  /\ \E answers \in BOOLEAN :
       /\ devices' = {[d EXCEPT !.healthy = answers /\ d.uuid \in present] : d \in devices}
       /\ disturbed' = (disturbed \/ (~answers /\ kubelet # "connected"))
  /\ UNCHANGED <<present, moved, plugin, socket, kubelet, offered, podVars>>

(*------------------------------ the kubelet -------------------------------*)
(* It opens the stream after a registration, and ListAndWatch sends the    *)
(* list once.                                                              *)
ListAndWatch ==
  /\ kubelet = "registered" /\ socket
  /\ kubelet' = "connected"
  /\ offered' = {d.id : d \in {e \in devices : e.healthy}}
  /\ UNCHANGED <<present, moved, plugin, devices, socket, disturbed, podVars>>

ConnectFails ==
  /\ kubelet = "registered" /\ ~socket
  /\ kubelet' = "unknown"
  /\ UNCHANGED <<present, moved, plugin, devices, socket, offered, disturbed, podVars>>

(* A kubelet that starts clears its directory of sockets and waits for the *)
(* plugins to register; what its pods hold it has on disk.                 *)
KubeletRestarts ==
  /\ socket' = FALSE
  /\ kubelet' = "unknown" /\ offered' = {}
  /\ UNCHANGED <<present, moved, plugin, devices, disturbed, podVars>>

(*--------------------------------- pods -----------------------------------*)
Wants(p) == pod[p].containers[1].vgpu
HeldSlices == UNION {ids[p] : p \in Pods}
Requested ==
  SumFunction([p \in {q \in Pods : phase[q] \in {"bound", "allocated", "running"}} |-> Wants(p)])
Node == [name |-> "node", vgpu |-> Cardinality(offered), memory |-> 0,
         ready |-> TRUE, aligned |-> FALSE]

(* The webhook may be bypassed: its configuration is the cluster's.        *)
Create(p) ==
  /\ phase[p] = "none"
  /\ phase' = [phase EXCEPT ![p] = "pending"]
  /\ \E admitted \in Admitted(p) : pod' = [pod EXCEPT ![p] = admitted]
  /\ UNCHANGED <<nodeVars, ids, env, sees>>

(* kube-scheduler subtracts what the pods of the node requested.           *)
Bind(p) ==
  /\ phase[p] = "pending"
  /\ filterHandler(pod[p], <<Node>>) # <<>>
  /\ Wants(p) <= Cardinality(offered) - Requested
  /\ phase' = [phase EXCEPT ![p] = "bound"]
  /\ UNCHANGED <<nodeVars, pod, ids, env, sees>>

(* Mutant: the GPUs are counted from 1.                                    *)
AllocateEnvsFrom1(slices) ==
  LET Given == {d \in devices : d.id \in slices}
  IN <<Var("LD_PRELOAD", LibVGPU),
       Var("NVIDIA_VISIBLE_DEVICES", {d.id[1] + 1 : d \in Given}),
       Var("VGPU_MEMORY_LIMIT_MIB", SumFunction([d \in Given |-> d.memory]))>>

(* The variables Allocate answers with.                                    *)
AllocateEnvs(slices) ==
  LET Given == {d \in devices : d.id \in slices}
  IN <<Var("LD_PRELOAD", LibVGPU),
       Var("NVIDIA_VISIBLE_DEVICES", {d.id[1] : d \in Given}),
       Var("VGPU_MEMORY_LIMIT_MIB", SumFunction([d \in Given |-> d.memory]))>>

(* The kubelet picks free slices, has them allocated and puts the answer   *)
(* before the variables of the container.                                  *)
Allocate(p) ==
  /\ phase[p] = "bound"
  /\ \E slices \in SUBSET (offered \ HeldSlices) :
       /\ Cardinality(slices) = Wants(p)
       /\ ids' = [ids EXCEPT ![p] = slices]
       /\ env' = [env EXCEPT ![p] = (IF slices = {} THEN <<>> ELSE AllocateEnvs(slices))
                                      \o pod[p].containers[1].env]
  /\ phase' = [phase EXCEPT ![p] = "allocated"]
  /\ UNCHANGED <<nodeVars, pod, sees>>

(* The container runtime looks the indices up; without the GPU the start   *)
(* fails and is tried again.  A container that crashed starts the same way. *)
Run(p) ==
  /\ phase[p] \in {"allocated", "running"}
  /\ LET Indices == Getenv(env[p], "NVIDIA_VISIBLE_DEVICES", {})
     IN /\ \A i \in Indices : i < Cardinality(present)
        /\ sees' = [sees EXCEPT ![p] = {g \in present : Number(g, present) \in Indices}]
  /\ phase' = [phase EXCEPT ![p] = "running"]
  /\ UNCHANGED <<nodeVars, pod, ids, env>>

(* The pod ends, or is deleted or rejected before it runs.                 *)
End(p) ==
  /\ phase[p] # "none"
  /\ phase' = [phase EXCEPT ![p] = "none"]
  /\ pod' = [pod EXCEPT ![p] = NoPod]
  /\ ids' = [ids EXCEPT ![p] = {}]
  /\ env' = [env EXCEPT ![p] = <<>>]
  /\ sees' = [sees EXCEPT ![p] = {}]
  /\ UNCHANGED nodeVars

PluginNext ==
  \/ GPULost \/ GPUBack
  \/ discoverGPUs \/ Start \/ Register \/ Stop \/ Crash \/ checkHealth
  \/ ListAndWatch \/ ConnectFails \/ KubeletRestarts
  \/ \E p \in Pods : Create(p) \/ Bind(p) \/ Allocate(p) \/ Run(p) \/ End(p)

(* The DaemonSet restarts the plugin, the kubelet answers, and no step is  *)
(* cut off by a fault for ever; the pods are under no obligation.          *)
PluginFairness ==
  /\ SF_pluginVars(discoverGPUs) /\ SF_pluginVars(Start) /\ SF_pluginVars(Register)
  /\ SF_pluginVars(ListAndWatch) /\ WF_pluginVars(ConnectFails)

PluginSpec == PluginInit /\ [][PluginNext]_pluginVars /\ PluginFairness

-----------------------------------------------------------------------------
Running(p) == phase[p] = "running" /\ ids[p] # {}
LimitMiB(p) == Getenv(env[p], "VGPU_MEMORY_LIMIT_MIB", 0)

(* A variable the container is created with overrides that of the plugin.  *)
Sets(p, name) == \E v \in Range(Template[p].containers[1].env) : v.name = name
Plain(p) == ~Sets(p, "NVIDIA_VISIBLE_DEVICES") /\ ~Sets(p, "VGPU_MEMORY_LIMIT_MIB")

(* Unless the GPUs have been renumbered, the memory promised to containers *)
(* that have one GPU each, and that one in common, is no more than it has, *)
(* across restarts of the plugin and the kubelet and GPUs that go and come *)
(* back.  A container that got several GPUs is not counted: its limit is   *)
(* their sum.                                                              *)
GPUNotOverpromised ==
  ~moved => \A g \in GPUs :
    SumFunction([p \in {q \in Pods : Running(q) /\ Plain(q) /\ sees[q] = {g}} |-> LimitMiB(p)])
      <= MemoryMiB[g]

(* And a container gets the GPUs its slices are of, and all of them.       *)
GrantVisible ==
  ~moved => \A p \in Pods :
    Running(p) /\ Plain(p) => sees[p] = {Bus[id[1] + 1] : id \in ids[p]}

(* A container with slices has libvgpu preloaded, whoever injected it,     *)
(* even over an LD_PRELOAD of its own once the webhook has seen the pod.   *)
Intercepted ==
  \A p \in Pods :
    Running(p) /\ (Sets(p, "LD_PRELOAD") => InjectedAt \in pod[p].annotations)
      => Getenv(env[p], "LD_PRELOAD", "") = LibVGPU

(* All the slices of the GPUs are offered again after every crash and stop *)
(* of the plugin and every loss of the GPUs.  Only a plugin whose socket a *)
(* kubelet that restarted has removed stays unknown to it: it registers    *)
(* once.  And the list is sent once, of GPUs discovered once: when one     *)
(* came or went since, or nvidia-smi failed before, it may lack slices     *)
(* until the next start of the plugin.                                     *)
Orphaned == plugin = "ready" /\ ~socket
AllSlices == {d.id : d \in buildVGPUDevices(present)}
Offering ==
  \/ present = {}
  \/ Orphaned
  \/ kubelet = "connected" /\ (disturbed \/ offered = AllSlices)
ResourceReturns == []<>Offering

(* While the kubelet listens, what the health checks find reaches it:      *)
(* "health check loop updates device state and triggers re-sends via the   *)
(* health check goroutine" (main.go:222).  Violated: checkHealth sends     *)
(* nothing, and ListAndWatch waits for stopCh alone.                       *)
Told == offered = {d.id : d \in {e \in devices : e.healthy}}
HealthIsSent == (kubelet = "connected" /\ ~Told) ~> (kubelet # "connected" \/ Told)
=============================================================================
