-------------------------- MODULE SchedulerExtender --------------------------
(***************************************************************************)
(* cmd/scheduler-extender/main.go: the answers to kube-scheduler.          *)
(*                                                                         *)
(* A node is [name, vgpu, memory, ready, aligned]: what it can allocate of *)
(* the two resources, its Ready condition and its NUMA label.  A pod is    *)
(* [containers, inits], sequences of [vgpu, memory].                       *)
(***************************************************************************)
EXTENDS Integers, Sequences, SequencesExt

maxPriorityScore == 100

(* Containers run together; init containers one after the other.           *)
getPodResourceRequest(pod, resource) ==
  Max({FoldSeq(LAMBDA c, sum : sum + c[resource], 0, pod.containers)}
        \cup {pod.inits[i][resource] : i \in DOMAIN pod.inits})

RequestedVGPU(pod) == getPodResourceRequest(pod, "vgpu")
RequestedMem(pod) == getPodResourceRequest(pod, "memory")

(* Against all a node can allocate, not what is left of it.  A node with   *)
(* no Ready condition counts as ready.                                     *)
canSchedule(node, vgpu, memory) ==
  node.vgpu >= vgpu /\ node.memory >= memory /\ node.ready

filterHandler(pod, nodes) ==
  IF RequestedVGPU(pod) = 0 /\ RequestedMem(pod) = 0 THEN nodes
  ELSE SelectSeq(nodes, LAMBDA n : canSchedule(n, RequestedVGPU(pod), RequestedMem(pod)))

(* int64() of a float64: an exact quotient may come out one lower.         *)
Truncated(num, den) ==
  IF num % den = 0 THEN {num \div den, num \div den - 1} ELSE {num \div den}

Clamp(score) == Max({0, Min({maxPriorityScore, score})})

(* The scores scoreNode may give.  A request above what the node has is    *)
(* scored too: prioritize does not look at the filter.                     *)
scoreNode(node, vgpu, policy, numaAware) ==
  LET Bonus == IF numaAware /\ node.aligned THEN 10 ELSE 0
      Raw == IF policy = "spread"
               THEN Truncated(node.vgpu * maxPriorityScore, node.vgpu + vgpu)
               ELSE Truncated(vgpu * maxPriorityScore, node.vgpu)
  IN IF node.vgpu = 0 THEN {0} ELSE {Clamp(score + Bonus) : score \in Raw}

(* Scaled to 0 .. 100 and sorted, the best first, equals in their order;   *)
(* a list whose scores are all the same stays as it is, at 50.             *)
normalizePriorities(list) ==
  LET Scores == {list[i].score : i \in DOMAIN list}
      Low == Min(Scores)
      Range100 == Max(Scores) - Low
      Scaled == [i \in DOMAIN list |->
                   [list[i] EXCEPT !.score = ((@ - Low) * maxPriorityScore) \div Range100]]
      Before(i, j) == \/ Scaled[i].score > Scaled[j].score
                      \/ Scaled[i].score = Scaled[j].score /\ i < j
      Rank(i) == 1 + Cardinality({j \in DOMAIN list : Before(j, i)})
  IN IF list = <<>> THEN list
     ELSE IF Range100 = 0
       THEN [i \in DOMAIN list |-> [list[i] EXCEPT !.score = maxPriorityScore \div 2]]
       ELSE [r \in DOMAIN list |-> Scaled[CHOOSE i \in DOMAIN list : Rank(i) = r]]

(* The lists prioritizeHandler may answer with.                            *)
prioritizeHandler(pod, nodes, policy, numaAware) ==
  LET Scores == [i \in DOMAIN nodes |->
                   scoreNode(nodes[i], RequestedVGPU(pod), policy, numaAware)]
      Chosen == {s \in [DOMAIN nodes -> UNION Range(Scores)] :
                   \A i \in DOMAIN nodes : s[i] \in Scores[i]}
  IN {normalizePriorities([i \in DOMAIN nodes |-> [host |-> nodes[i].name, score |-> s[i]]]) :
        s \in Chosen}
=============================================================================
