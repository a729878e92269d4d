--------------------------- MODULE MCDevicePlugin ---------------------------
(* Two GPUs in two slices each, and two pods, one of which has variables   *)
(* of its own.  The handlers of the webhook and of the extender are        *)
(* evaluated on small inputs.                                              *)
EXTENDS DevicePlugin

MCBus == <<"g1", "g2">>
MCMemoryMiB == [g \in {"g1", "g2"} |-> IF g = "g1" THEN 7 ELSE 10]

MCPods == {"train", "serve"}
OnePod(container) == [containers |-> <<container>>, inits |-> <<>>, annotations |-> {}]
MCTemplate ==
  [p \in MCPods |->
     IF p = "train" THEN OnePod([vgpu |-> 2, memory |-> 0, env |-> <<>>])
     ELSE OnePod([vgpu |-> 1, memory |-> 0,
                  env |-> <<Var("LD_PRELOAD", "/usr/lib/libjemalloc.so")>>])]

-----------------------------------------------------------------------------
(* PhoenixJobs around the edges of every check.                            *)
Checkpoints ==
  [storageBackend : {"", "pvc", "s3", "nfs", "tape"}, pvcName : {"", "ckpt"},
   bucket : {"", "ckpt"}, intervalSeconds : {{}, {59}, {60}, {86400}, {86401}},
   maxSnapshots : {{}, {0}, {1}, {100}, {101}}]
Specs ==
  [checkpoint : {{}} \cup {{c} : c \in Checkpoints}, template : {{}, {"pod"}},
   departmentLength : {0, 128, 129}, onNodeFailure : {{}, {"restore"}, {"resume"}}]

(* The schema of the CRD (deploy/manifests/crd/phoenixjobs.yaml:26-112),   *)
(* which the API server applies as well.                                   *)
InSchema(spec) ==
  /\ spec.template # {} /\ spec.checkpoint # {}
  /\ spec.onNodeFailure \subseteq {"restore", "restart", "fail"}
  /\ \A c \in spec.checkpoint :
       /\ c.storageBackend \in {"pvc", "s3", "nfs"}
       /\ \A n \in c.intervalSeconds : n \in 60 .. 86400
       /\ \A n \in c.maxSnapshots : n \in 1 .. 100

(* A spec the schema and the handler both let pass has no error; the       *)
(* handler alone lets the ranges pass, the schema alone the missing names. *)
ASSUME AdmittedIsValid ==
  \A spec \in Specs :
    InSchema(spec) /\ handleValidatePhoenixJob({spec}) <=> validatePhoenixJob(spec) = {}
ASSUME HandlerSeesNoNumbers ==
  \E spec \in Specs : handleValidatePhoenixJob({spec}) /\ validatePhoenixJob(spec) # {}
ASSUME SchemaMissesNames ==
  \E spec \in Specs : InSchema(spec) /\ ~handleValidatePhoenixJob({spec})
ASSUME NoSpecRejected == ~handleValidatePhoenixJob({})

-----------------------------------------------------------------------------
(* Requests of two containers and an init container.                       *)
Amounts == [vgpu : 0 .. 2, memory : {0, 1}]
PodsOf == [containers : {<<a, b>> : a \in Amounts, b \in Amounts}, inits : {<<a>> : a \in Amounts}]
ASSUME RequestIsPeak ==
  \A p \in PodsOf :
    LET Sum == p.containers[1].vgpu + p.containers[2].vgpu
        First == p.inits[1].vgpu
    IN RequestedVGPU(p) = IF First > Sum THEN First ELSE Sum

NodesOf == [name : {"a", "b"}, vgpu : {0, 1, 3, 4, 10}, memory : {0}, ready : BOOLEAN,
            aligned : BOOLEAN]
Pairs == {<<a, b>> : a \in {n \in NodesOf : n.name = "a"}, b \in {n \in NodesOf : n.name = "b"}}
Asking(n) == [containers |-> <<[vgpu |-> n, memory |-> 0]>>, inits |-> <<>>]

(* What is filtered out for a request is filtered out for a larger one.    *)
ASSUME FilterMonotone ==
  \A nodes \in Pairs, n \in 1 .. 4 :
    Range(filterHandler(Asking(n + 1), nodes)) \subseteq Range(filterHandler(Asking(n), nodes))

(* Every node gets a score in 0 .. 100, the best comes first, and two that *)
(* differ are at the ends of the scale.                                    *)
ASSUME PrioritiesScaled ==
  \A nodes \in Pairs, n \in {1, 3}, policy \in {"binpack", "spread", "other"}, numa \in BOOLEAN :
    \A list \in prioritizeHandler(Asking(n), nodes, policy, numa) :
      /\ {list[i].host : i \in DOMAIN list} = {"a", "b"}
      /\ <<list[1].score, list[2].score>> \in {<<50, 50>>, <<100, 0>>}

(* Among unlabelled nodes the smaller one that fits is first with binpack, *)
(* the larger one with spread.                                             *)
ASSUME PolicyDecides ==
  \A nodes \in Pairs, n \in {1, 3} :
    (~nodes[1].aligned /\ ~nodes[2].aligned /\ n <= nodes[1].vgpu /\ nodes[1].vgpu < nodes[2].vgpu)
      => /\ \A list \in prioritizeHandler(Asking(n), nodes, "binpack", TRUE) :
              list[1].host = "a"
         /\ \A list \in prioritizeHandler(Asking(n), nodes, "spread", TRUE) :
              list[1].score = 100 => list[1].host = "b"
=============================================================================
