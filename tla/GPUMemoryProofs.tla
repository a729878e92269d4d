--------------------------- MODULE GPUMemoryProofs ---------------------------
(***************************************************************************)
(* The accounts of GPU memory, proved for any number of threads, GPUs,     *)
(* slices and pods:                                                        *)
(*   - VramQuota, the quota of a container in libvgpu;                     *)
(*   - OversubManager, the counters of the oversubscription manager;       *)
(*   - DevicePlugin, what the kubelet grants to containers.                *)
(* The first two are sums over threads, the third over the containers that *)
(* share a GPU.                                                            *)
(***************************************************************************)
EXTENDS VramQuota, OversubManager, DevicePlugin, SumTheorems

(*----------------------------- the VRAM quota ------------------------------*)
LEMMA SumIsTotal ==
  ASSUME NEW f, NEW S
  PROVE  SumOver(f, S) = Total(f, S)
  BY DEF SumOver, FoldSet, MapThenFoldSet, Total, Totals, Pick

(* What a thread has allocated and not recorded, and what a thread of a    *)
(* process with the file is about to add to it.                            *)
Unrecorded == [t \in Threads |-> IF pc[t] \in {"record", "write"} THEN size[t] ELSE 0]
Claimed == [t \in Threads |->
              IF Mapped(t) /\ pc[t] \in {"alloc", "record", "write"} THEN size[t] ELSE 0]

LEMMA SizesAreNumbers ==
  /\ \A s \in Sizes \cup {0} : s \in Nat
  /\ \A l \in Limits : l \in Nat
  BY QuotaAssumption

LEMMA InFlightIsTotal ==
  ASSUME TypeOK, NEW T \in SUBSET Threads
  PROVE  InFlight(T) = Total(Unrecorded, T)
<1>1. IsFiniteSet(T)
  BY QuotaAssumption, FS_Subset
<1> DEFINE A == {t \in T : pc[t] \in {"record", "write"}}
<1>2. A \in SUBSET T /\ \A t \in A : size[t] \in Int
  BY SizesAreNumbers DEF TypeOK
<1>3. (\A t \in A : Unrecorded[t] = size[t]) /\ (\A t \in T \ A : Unrecorded[t] = 0)
  BY DEF Unrecorded
<1>4. InFlight(T) = Total(size, A)
  BY SumIsTotal DEF InFlight
<1> HIDE DEF A
<1> QED
  BY <1>1, <1>2, <1>3, <1>4, TotalFilter

(* A thread makes requests only in a process that has been set up, and     *)
(* records only in one that has the file.                                  *)
Stages ==
  \A t \in Threads :
    /\ pc[t] # "app" => proc[ProcOf[t]] \in {"up", "degraded"}
    /\ pc[t] \in {"record", "write"} => Mapped(t)

(* What a process is to record it holds.                                   *)
UnrecordedIsHeld == \A p \in Procs : Total(Unrecorded, ThreadsOf(p)) <= used[p]

Balance ==
  recorded + Total(Unrecorded, Threads) + lost = Total(used, Procs) + released + restored

(* All requests that are let through together exceed the limit by one for  *)
(* every thread but one; what a late write brought back was never checked. *)
ExcessOf == (Cardinality(Threads) - 1) * Max(Sizes)
ClaimsBounded == limit # 0 => recorded + Total(Claimed, Threads) <= limit + ExcessOf + restored

QuotaInv == TypeOK /\ Stages /\ UnrecordedIsHeld /\ Balance /\ ClaimsBounded

LEMMA LargestSize == Max(Sizes) \in Nat /\ \A s \in Sizes : s <= Max(Sizes)
<1> DEFINE C == {B \in SUBSET Sizes : B # {} => \E m \in B : \A s \in B : s <= m}
<1>1. {} \in C
  OBVIOUS
<1>2. ASSUME NEW B \in SUBSET Sizes, NEW x \in Sizes, B \in C, x \notin B PROVE B \cup {x} \in C
  <2>1. CASE B = {}
    BY <2>1, QuotaAssumption
  <2>2. CASE B # {}
    <3>1. PICK m \in B : \A s \in B : s <= m
      BY <1>2, <2>2
    <3>2. m \in Nat /\ x \in Nat /\ \A s \in B : s \in Nat
      BY QuotaAssumption
    <3>3. CASE m <= x
      BY <3>1, <3>2, <3>3
    <3>4. CASE x <= m
      BY <3>1, <3>2, <3>4
    <3> QED
      BY <3>2, <3>3, <3>4
  <2> QED
    BY <2>1, <2>2
<1>3. SUBSET Sizes \subseteq C
  <2> HIDE DEF C
  <2> QED
    BY <1>1, <1>2, QuotaAssumption, InductionOnSubsets
<1>4. \E m \in Sizes : \A s \in Sizes : m >= s
  BY <1>3, QuotaAssumption
<1>5. Max(Sizes) \in Sizes /\ \A s \in Sizes : Max(Sizes) >= s
  BY <1>4, Zenon DEF Max
<1> QED
  BY <1>5, QuotaAssumption

(* Every amount is a number, every request at most the largest.            *)
LEMMA Amounts ==
  ASSUME TypeOK
  PROVE  /\ \A t \in Threads : /\ size[t] \in Nat /\ size[t] <= Max(Sizes)
                               /\ Unrecorded[t] \in Nat /\ Claimed[t] \in 0 .. Max(Sizes)
                               /\ ProcOf[t] \in Procs /\ Unrecorded[t] <= Max(Sizes)
         /\ \A p \in Procs : used[p] \in Nat
         /\ recorded \in Nat /\ lost \in Nat /\ released \in Nat /\ restored \in Nat
         /\ limit \in Nat
<1>1. ASSUME NEW t \in Threads PROVE size[t] \in Nat /\ size[t] <= Max(Sizes)
  <2>1. size[t] \in Sizes \cup {0}
    BY DEF TypeOK
  <2> QED
    BY <2>1, SizesAreNumbers, LargestSize
<1>2. \A t \in Threads : /\ Unrecorded[t] \in {0, size[t]} /\ Claimed[t] \in {0, size[t]}
                          /\ ProcOf[t] \in Procs
  BY QuotaAssumption DEF Unrecorded, Claimed
<1>3. limit \in Nat
  BY SizesAreNumbers DEF TypeOK
<1> QED
  BY <1>1, <1>2, <1>3, LargestSize DEF TypeOK

(* The container before its processes start.                               *)
LEMMA InitQuota == Init => QuotaInv
<1> SUFFICES ASSUME Init PROVE QuotaInv
  OBVIOUS
<1>1. TypeOK
  <2>1. 0 \in 0 .. MaxAllocs /\ 0 \in Nat
    BY QuotaAssumption
  <2>2. /\ proc \in [Procs -> {"none", "init", "up", "degraded"}] /\ used \in [Procs -> Nat]
        /\ pc \in [Threads -> {"app", "alloc", "record", "write"}]
    BY DEF Init
  <2>3. size \in [Threads -> Sizes \cup {0}] /\ seen \in [Threads -> Nat]
    BY DEF Init
  <2> QED
    BY <2>1, <2>2, <2>3 DEF Init, TypeOK
<1>2. Stages
  BY DEF Init, Stages
<1>3. \A t \in Threads : Unrecorded[t] = 0 /\ Claimed[t] = 0
  BY DEF Init, Unrecorded, Claimed
<1>4. ASSUME NEW S, IsFiniteSet(S), NEW f, \A x \in S : f[x] = 0 PROVE Total(f, S) = 0
  <2>1. Total(f, {}) = 0
    BY TotalEmpty
  <2> QED
    BY <1>4, <2>1, TotalFilter, FS_EmptySet
<1>5. \A p \in Procs : Total(Unrecorded, ThreadsOf(p)) = 0
  BY <1>3, <1>4, FS_Subset, QuotaAssumption DEF ThreadsOf
<1>6. Total(Unrecorded, Threads) = 0 /\ Total(Claimed, Threads) = 0
  BY <1>3, <1>4, QuotaAssumption
<1>7. Total(used, Procs) = 0
  BY <1>4, QuotaAssumption DEF Init
<1>8. Cardinality(Threads) \in Nat
  BY FS_CardinalityType, QuotaAssumption
<1>9. ClaimsBounded
  <2>1. Cardinality(Threads) - 1 \in Nat
    BY <1>8, FS_EmptySet, QuotaAssumption
  <2>2. ExcessOf \in Nat
    BY <2>1, LargestSize DEF ExcessOf
  <2>3. limit \in Nat
    BY <1>1, SizesAreNumbers DEF TypeOK
  <2> QED
    BY <1>6, <2>2, <2>3 DEF ClaimsBounded, Init
<1> QED
  BY <1>1, <1>2, <1>5, <1>6, <1>7, <1>9 DEF QuotaInv, UnrecordedIsHeld, Balance, Init

LEMMA TotalsAreNumbers ==
  ASSUME TypeOK
  PROVE  /\ \A T \in SUBSET Threads : Total(Unrecorded, T) \in Nat /\ Total(Claimed, T) \in Nat
         /\ Total(used, Procs) \in Nat
         /\ ExcessOf \in Nat
<1>1. ASSUME NEW T \in SUBSET Threads PROVE Total(Unrecorded, T) \in Nat /\ Total(Claimed, T) \in Nat
  <2>1. IsFiniteSet(T) /\ \A t \in T : Unrecorded[t] \in Nat /\ Claimed[t] \in Nat
    BY Amounts, FS_Subset, QuotaAssumption
  <2> QED
    BY <2>1, TotalNat
<1>2. Total(used, Procs) \in Nat
  BY Amounts, TotalNat, QuotaAssumption
<1>3. Cardinality(Threads) - 1 \in Nat
  BY FS_CardinalityType, FS_EmptySet, QuotaAssumption
<1> QED
  BY <1>1, <1>2, <1>3, LargestSize DEF ExcessOf

(* A step of one thread changes what that thread has in hand.              *)
LEMMA OneThread ==
  ASSUME TypeOK, TypeOK', NEW t \in Threads, proc' = proc,
         \A u \in Threads \ {t} : pc'[u] = pc[u] /\ size'[u] = size[u]
  PROVE  /\ \A T \in SUBSET Threads :
              Total(Unrecorded, T)' =
                IF t \in T THEN Total(Unrecorded, T) - Unrecorded[t] + Unrecorded'[t]
                ELSE Total(Unrecorded, T)
         /\ Total(Claimed, Threads)' = Total(Claimed, Threads) - Claimed[t] + Claimed'[t]
<1>1. \A u \in Threads \ {t} : Unrecorded'[u] = Unrecorded[u] /\ Claimed'[u] = Claimed[u]
  BY DEF Unrecorded, Claimed, Mapped
<1>2. \A u \in Threads : /\ Unrecorded[u] \in Int /\ Unrecorded'[u] \in Int
                         /\ Claimed[u] \in Int /\ Claimed'[u] \in Int
  <2>1. \A u \in Threads : Unrecorded[u] \in Nat /\ Claimed[u] \in Nat
    BY Amounts
  <2>2. \A u \in Threads : Unrecorded'[u] \in Nat /\ Claimed'[u] \in Nat
    BY SizesAreNumbers DEF TypeOK, Unrecorded, Claimed
  <2> QED
    BY <2>1, <2>2
<1>3. ASSUME NEW T \in SUBSET Threads, t \in T
      PROVE  Total(Unrecorded', T) = Total(Unrecorded, T) - Unrecorded[t] + Unrecorded'[t]
  <2>1. /\ IsFiniteSet(T) /\ \A u \in T : Unrecorded[u] \in Int
        /\ \A u \in T \ {t} : Unrecorded'[u] = Unrecorded[u]
    BY <1>1, <1>2, FS_Subset, QuotaAssumption
  <2> QED
    BY <1>2, <1>3, <2>1, TotalChange
<1>4. ASSUME NEW T \in SUBSET Threads, t \notin T
      PROVE  Total(Unrecorded', T) = Total(Unrecorded, T)
  <2>1. /\ IsFiniteSet(T) /\ \A u \in T : Unrecorded[u] \in Int
        /\ \A u \in T : Unrecorded'[u] = Unrecorded[u]
    BY <1>1, <1>2, <1>4, FS_Subset, QuotaAssumption
  <2> QED
    BY <2>1, TotalSame
<1>5. Total(Claimed', Threads) = Total(Claimed, Threads) - Claimed[t] + Claimed'[t]
  BY <1>1, <1>2, TotalChange, QuotaAssumption
<1> QED
  BY <1>3, <1>4, <1>5

(* What a process holds changes.                                           *)
LEMMA OneProcess ==
  ASSUME TypeOK, NEW p \in Procs, NEW n \in Nat, used' = [used EXCEPT ![p] = n]
  PROVE  Total(used, Procs)' = Total(used, Procs) - used[p] + n
<1>1. /\ used \in [Procs -> Nat] /\ IsFiniteSet(Procs)
      /\ used'[p] = n /\ \A q \in Procs \ {p} : used'[q] = used[q]
  BY QuotaAssumption DEF TypeOK
<1>2. (\A q \in Procs : used[q] \in Int) /\ used'[p] \in Int
  BY <1>1
<1> DEFINE after == used'
<1>3. \A q \in Procs \ {p} : after[q] = used[q]
  BY <1>1
<1>4. after[p] \in Int /\ IsFiniteSet(Procs)
  BY <1>1, <1>2
<1>5. after[p] = n
  BY <1>1
<1> HIDE DEF after
<1>6. Total(after, Procs) = Total(used, Procs) - used[p] + after[p]
  BY <1>2, <1>3, <1>4, TotalChange
<1> QED
  BY <1>5, <1>6 DEF after

(* A process maps the file and clears it: nobody of it has a request yet.  *)
LEMMA SetUpSteps ==
  ASSUME QuotaInv, NEW p \in Procs, Load(p) \/ LoadFails(p) \/ Clear(p)
  PROVE  QuotaInv'
<1> USE DEF QuotaInv
<1>1. /\ proc[p] \in {"none", "init"}
      /\ \E new \in {"up", "init", "degraded"} : proc' = [proc EXCEPT ![p] = new]
      /\ UNCHANGED <<limit, used, pc, size, seen, allocs, restored, released>>
      /\ recorded' \in {recorded, 0} /\ recorded' + lost' = recorded + lost /\ lost' \in Nat
      /\ magic' \in BOOLEAN
  <2>1. recorded \in Nat /\ lost \in Nat /\ magic \in BOOLEAN
    BY DEF TypeOK
  <2>2. CASE Load(p)
    BY <2>1, <2>2 DEF Load
  <2>3. CASE LoadFails(p)
    BY <2>1, <2>3 DEF LoadFails
  <2>4. CASE Clear(p)
    BY <2>1, <2>4 DEF Clear
  <2> QED
    BY <2>2, <2>3, <2>4
<1>2. TypeOK'
  BY <1>1 DEF TypeOK
<1>3. \A t \in Threads : ProcOf[t] = p => pc[t] = "app"
  BY <1>1 DEF Stages
<1>4. \A q \in Procs : q # p => proc'[q] = proc[q]
  BY <1>1 DEF TypeOK
<1>5. Stages'
  BY <1>1, <1>3, <1>4, QuotaAssumption DEF Stages, Mapped
<1>6. \A t \in Threads : Unrecorded'[t] = Unrecorded[t] /\ Claimed'[t] = Claimed[t]
  BY <1>1, <1>3, <1>4, QuotaAssumption DEF Unrecorded, Claimed, Mapped
<1>7. ASSUME NEW T \in SUBSET Threads
      PROVE  Total(Unrecorded', T) = Total(Unrecorded, T) /\ Total(Claimed', T) = Total(Claimed, T)
  <2>1. IsFiniteSet(T) /\ \A t \in T : Unrecorded[t] \in Int /\ Claimed[t] \in Int
    BY Amounts, FS_Subset, QuotaAssumption
  <2> QED
    BY <1>6, <2>1, TotalSame
<1>8. UnrecordedIsHeld'
  BY <1>1, <1>7 DEF UnrecordedIsHeld, ThreadsOf
<1>9. Balance' /\ ClaimsBounded'
  <2>1. /\ Total(Unrecorded', Threads) = Total(Unrecorded, Threads)
        /\ Total(Claimed', Threads) = Total(Claimed, Threads)
        /\ Total(Unrecorded, Threads) \in Nat /\ Total(Claimed, Threads) \in Nat
        /\ Total(used, Procs) \in Nat /\ ExcessOf \in Nat
    BY <1>7, TotalsAreNumbers
  <2>2. /\ recorded \in Nat /\ lost \in Nat /\ restored \in Nat /\ released \in Nat
        /\ limit \in Nat
    BY Amounts
  <2>5. /\ recorded' \in Nat /\ recorded' <= recorded /\ lost' \in Nat
        /\ recorded' + lost' = recorded + lost
    <3>1. recorded' + lost' = recorded + lost /\ lost' \in Nat
      BY <1>1
    <3>2. recorded' = recorded \/ recorded' = 0
      BY <1>1
    <3>3. recorded' \in Nat /\ recorded' <= recorded
      BY <2>2, <3>2
    <3> QED
      BY <3>1, <3>3
  <2>6. /\ Total(used', Procs) = Total(used, Procs)
        /\ released' = released /\ restored' = restored /\ limit' = limit
    BY <1>1
  <2>3. Balance'
    <3>1. recorded + Total(Unrecorded, Threads) + lost = Total(used, Procs) + released + restored
      BY DEF Balance
    <3> DEFINE r1 == recorded'
               l1 == lost'
               U == Total(Unrecorded, Threads)
               X == Total(used, Procs) + released + restored
    <3>3. U \in Int /\ X \in Int /\ recorded + U + lost = X
      BY <2>1, <2>2, <3>1
    <3>4. r1 \in Int /\ l1 \in Int /\ recorded \in Int /\ lost \in Int
      BY <2>2, <2>5
    <3>5. r1 + l1 = recorded + lost
      BY <2>5
    <3> HIDE DEF U, X, r1, l1
    <3>2. r1 + U + l1 = X
      BY <3>3, <3>4, <3>5
    <3> QED
      BY <3>2, <2>1, <2>6 DEF Balance, U, X, r1, l1
  <2>4. ClaimsBounded'
    BY <2>1, <2>2, <2>5, <2>6 DEF ClaimsBounded, ExcessOf
  <2> QED
    BY <2>3, <2>4
<1> QED
  BY <1>2, <1>5, <1>8, <1>9

(* What a step of one thread has to keep for the others to keep the rest.  *)
LEMMA ThreadStep ==
  ASSUME QuotaInv, TypeOK', NEW t \in Threads, proc' = proc,
         \A u \in Threads \ {t} : pc'[u] = pc[u] /\ size'[u] = size[u],
         pc'[t] # "app" => proc[ProcOf[t]] \in {"up", "degraded"},
         pc'[t] \in {"record", "write"} => Mapped(t),
         \A q \in Procs \ {ProcOf[t]} : used'[q] = used[q],
         Total(Unrecorded, ThreadsOf(ProcOf[t])) - Unrecorded[t] + Unrecorded'[t]
           <= used'[ProcOf[t]],
         Balance', ClaimsBounded'
  PROVE  QuotaInv'
<1>1. Stages'
  BY DEF QuotaInv, Stages, Mapped
<1>2. ASSUME NEW p \in Procs PROVE Total(Unrecorded', ThreadsOf(p)) <= used'[p]
  <2>1. ThreadsOf(p) \in SUBSET Threads /\ (t \in ThreadsOf(p) <=> p = ProcOf[t])
    BY DEF ThreadsOf
  <2>2. TypeOK /\ Total(Unrecorded, ThreadsOf(p)) <= used[p]
    BY DEF QuotaInv, UnrecordedIsHeld
  <2>3. Total(Unrecorded', ThreadsOf(p)) =
           IF t \in ThreadsOf(p) THEN Total(Unrecorded, ThreadsOf(p)) - Unrecorded[t] + Unrecorded'[t]
           ELSE Total(Unrecorded, ThreadsOf(p))
    BY <2>1, <2>2, OneThread
  <2>4. CASE p = ProcOf[t]
    BY <2>1, <2>3, <2>4
  <2>5. CASE p # ProcOf[t]
    BY <2>1, <2>2, <2>3, <2>5
  <2> QED
    BY <2>4, <2>5
<1>3. UnrecordedIsHeld'
  BY <1>2 DEF UnrecordedIsHeld, ThreadsOf
<1> QED
  BY <1>1, <1>3 DEF QuotaInv

(* The check: the others have let through at most one request each.       *)
LEMMA CheckStep ==
  ASSUME QuotaInv, NEW t \in Threads, Check(t)
  PROVE  QuotaInv'
<1> USE DEF QuotaInv
<1>1. PICK s \in Sizes : /\ limit # 0 => Current(t) + s <= limit
                         /\ size' = [size EXCEPT ![t] = s]
  BY DEF Check
<1>2. /\ pc[t] = "app" /\ proc[ProcOf[t]] \in {"up", "degraded"} /\ allocs < MaxAllocs
      /\ pc' = [pc EXCEPT ![t] = "alloc"] /\ allocs' = allocs + 1
      /\ UNCHANGED <<limit, magic, recorded, proc, used, seen, lost, restored, released>>
  BY DEF Check
<1>3. pc'[t] = "alloc" /\ size'[t] = s
  BY <1>1, <1>2 DEF TypeOK
<1>4. TypeOK'
  <2>1. allocs' \in 0 .. MaxAllocs
    BY <1>2, QuotaAssumption DEF TypeOK
  <2> QED
    BY <1>1, <1>2, <2>1 DEF TypeOK
<1>5. \A u \in Threads \ {t} : pc'[u] = pc[u] /\ size'[u] = size[u]
  BY <1>1, <1>2 DEF TypeOK
<1>6. Unrecorded[t] = 0 /\ Unrecorded'[t] = 0 /\ Claimed[t] = 0
  BY <1>2, <1>3 DEF Unrecorded, Claimed
<1>7. Claimed'[t] = IF Mapped(t) THEN s ELSE 0
  BY <1>2, <1>3 DEF Claimed, Mapped
<1>8. /\ Total(Unrecorded', Threads) = Total(Unrecorded, Threads) - 0 + 0
      /\ Total(Claimed', Threads) = Total(Claimed, Threads) - 0 + Claimed'[t]
  BY <1>2, <1>4, <1>5, <1>6, OneThread
<1>9. /\ Total(Unrecorded, Threads) \in Nat /\ Total(Claimed, Threads) \in Nat
      /\ Total(used, Procs) \in Nat /\ ExcessOf \in Nat
      /\ s \in Nat /\ ProcOf[t] \in Procs
  BY TotalsAreNumbers, SizesAreNumbers, Amounts
<1>10. recorded \in Nat /\ lost \in Nat /\ restored \in Nat /\ released \in Nat /\ limit \in Nat
  BY Amounts
<1>11. Total(Unrecorded', Threads) = Total(Unrecorded, Threads)
  BY <1>8, <1>9
<1>12. Balance'
  BY <1>2, <1>11 DEF Balance
<1>13. ClaimsBounded'
  <2>1. CASE ~Mapped(t)
    <3>1. Total(Claimed', Threads) = Total(Claimed, Threads)
      BY <1>7, <1>8, <1>9, <2>1
    <3> QED
      BY <1>2, <3>1 DEF ClaimsBounded, ExcessOf
  <2>2. CASE Mapped(t)
    <3>1. limit # 0 => recorded + s <= limit
      BY <1>1, <2>2 DEF Current
    <3>2. Total(Claimed, Threads) <= ExcessOf
      <4>1. \A u \in Threads : Claimed[u] \in 0 .. Max(Sizes) /\ Claimed[u] \in Int
        BY Amounts
      <4>2. IsFiniteSet(Threads)
        BY QuotaAssumption
      <4>3. Total(Claimed, Threads) = Claimed[t] + Total(Claimed, Threads \ {t})
        BY <4>1, <4>2, TotalRemove
      <4>4. /\ IsFiniteSet(Threads \ {t})
            /\ Cardinality(Threads \ {t}) = Cardinality(Threads) - 1
        BY <4>2, FS_RemoveElement
      <4>5. \A u \in Threads \ {t} : Claimed[u] \in 0 .. Max(Sizes)
        BY <4>1
      <4>6. /\ Total(Claimed, Threads \ {t}) \in Nat
            /\ Total(Claimed, Threads \ {t}) <= Cardinality(Threads \ {t}) * Max(Sizes)
        BY <4>4, <4>5, LargestSize, TotalBound
      <4> QED
        BY <1>6, <4>3, <4>4, <4>6 DEF ExcessOf
    <3>3. Total(Claimed', Threads) = Total(Claimed, Threads) + s
      BY <1>7, <1>8, <1>9, <2>2
    <3> QED
      BY <1>2, <1>9, <1>10, <3>1, <3>2, <3>3 DEF ClaimsBounded, ExcessOf
  <2> QED
    BY <2>1, <2>2
<1>14. Total(Unrecorded, ThreadsOf(ProcOf[t])) <= used[ProcOf[t]]
  BY <1>9 DEF UnrecordedIsHeld
<1>15. Total(Unrecorded, ThreadsOf(ProcOf[t])) \in Nat
  BY TotalsAreNumbers DEF ThreadsOf
<1>16. Total(Unrecorded, ThreadsOf(ProcOf[t])) - Unrecorded[t] + Unrecorded'[t] <= used'[ProcOf[t]]
  BY <1>2, <1>6, <1>14, <1>15
<1> QED
  BY <1>2, <1>3, <1>4, <1>5, <1>12, <1>13, <1>16, ThreadStep

LEMMA RecordReadStep ==
  ASSUME QuotaInv, NEW t \in Threads, RecordRead(t)
  PROVE  QuotaInv'
<1> USE DEF QuotaInv
<1>1. /\ pc[t] = "record" /\ pc' = [pc EXCEPT ![t] = "write"]
      /\ seen' = [seen EXCEPT ![t] = recorded]
      /\ UNCHANGED <<limit, magic, recorded, proc, used, size, allocs, lost, restored, released>>
  BY DEF RecordRead
<1>2. TypeOK'
  BY <1>1 DEF TypeOK
<1>3. pc'[t] = "write" /\ \A u \in Threads \ {t} : pc'[u] = pc[u]
  BY <1>1 DEF TypeOK
<1>4. Mapped(t)
  BY <1>1 DEF Stages
<1>5. Unrecorded' = Unrecorded /\ Claimed' = Claimed
  BY <1>1, <1>3 DEF Unrecorded, Claimed, Mapped
<1>6. Balance' /\ ClaimsBounded' /\ UnrecordedIsHeld'
  BY <1>1, <1>5 DEF Balance, ClaimsBounded, UnrecordedIsHeld, ExcessOf, ThreadsOf
<1>7. Stages'
  BY <1>1, <1>3, <1>4 DEF Stages, Mapped
<1> QED
  BY <1>2, <1>6, <1>7

LEMMA RealAllocFailsStep ==
  ASSUME QuotaInv, NEW t \in Threads, RealAllocFails(t)
  PROVE  QuotaInv'
<1> USE DEF QuotaInv
<1>1. /\ pc[t] = "alloc" /\ pc' = [pc EXCEPT ![t] = "app"]
      /\ size' = [size EXCEPT ![t] = 0] /\ seen' = [seen EXCEPT ![t] = 0]
      /\ UNCHANGED <<limit, magic, recorded, proc, used, allocs, lost, restored, released>>
  BY DEF RealAllocFails, Back
<1>2. TypeOK'
  BY <1>1 DEF TypeOK
<1>3. pc'[t] = "app" /\ \A u \in Threads \ {t} : pc'[u] = pc[u] /\ size'[u] = size[u]
  BY <1>1 DEF TypeOK
<1>4. Unrecorded[t] = 0 /\ Unrecorded'[t] = 0 /\ Claimed'[t] = 0
  BY <1>1, <1>3 DEF Unrecorded, Claimed
<1>5. /\ Total(Unrecorded', Threads) = Total(Unrecorded, Threads) - 0 + 0
      /\ Total(Claimed', Threads) = Total(Claimed, Threads) - Claimed[t] + 0
  BY <1>1, <1>2, <1>3, <1>4, OneThread
<1>6. /\ Total(Unrecorded, Threads) \in Nat /\ Total(Claimed, Threads) \in Nat /\ ExcessOf \in Nat
      /\ Claimed[t] \in Nat
      /\ recorded \in Nat /\ restored \in Nat /\ limit \in Nat
  BY TotalsAreNumbers, Amounts
<1>7. /\ Total(Unrecorded', Threads) = Total(Unrecorded, Threads)
      /\ Total(Claimed', Threads) \in Nat /\ Total(Claimed', Threads) <= Total(Claimed, Threads)
  <2>1. Claimed[t] <= Total(Claimed, Threads)
    BY Amounts, TotalNat, QuotaAssumption
  <2> QED
    BY <1>5, <1>6, <2>1
<1>8. Balance'
  BY <1>1, <1>7 DEF Balance
<1>9. ClaimsBounded'
  BY <1>1, <1>6, <1>7 DEF ClaimsBounded, ExcessOf
<1>10. Total(Unrecorded, ThreadsOf(ProcOf[t])) - Unrecorded[t] + Unrecorded'[t] <= used'[ProcOf[t]]
  <2>1. Total(Unrecorded, ThreadsOf(ProcOf[t])) <= used[ProcOf[t]]
    BY Amounts DEF UnrecordedIsHeld
  <2>2. Total(Unrecorded, ThreadsOf(ProcOf[t])) \in Nat
    BY TotalsAreNumbers DEF ThreadsOf
  <2> QED
    BY <1>1, <1>4, <2>1, <2>2
<1> QED
  BY <1>1, <1>2, <1>3, <1>8, <1>9, <1>10, ThreadStep

(* The driver allocates: the amount waits to be recorded, or is lost.      *)
LEMMA RealAllocStep ==
  ASSUME QuotaInv, NEW t \in Threads, RealAlloc(t)
  PROVE  QuotaInv'
<1> USE DEF QuotaInv
<1> DEFINE p == ProcOf[t]
<1>1. /\ pc[t] = "alloc" /\ used' = [used EXCEPT ![p] = @ + size[t]]
      /\ UNCHANGED <<limit, magic, recorded, proc, allocs, restored, released>>
  BY DEF RealAlloc
<1>2. CASE Mapped(t)
  <2>1. pc' = [pc EXCEPT ![t] = "record"] /\ UNCHANGED <<size, seen, lost>>
    BY <1>2 DEF RealAlloc
  <2>2. p \in Procs /\ size[t] \in Nat /\ used[p] \in Nat
    BY Amounts
  <2>3. TypeOK'
    BY <1>1, <2>1, <2>2 DEF TypeOK
  <2>4. pc'[t] = "record" /\ \A u \in Threads \ {t} : pc'[u] = pc[u] /\ size'[u] = size[u]
    BY <2>1 DEF TypeOK
  <2>5. /\ Unrecorded[t] = 0 /\ Unrecorded'[t] = size[t]
        /\ Claimed[t] = size[t] /\ Claimed'[t] = size[t]
    BY <1>1, <1>2, <2>1, <2>4 DEF Unrecorded, Claimed, Mapped
  <2>6. /\ Total(Unrecorded', Threads) = Total(Unrecorded, Threads) - 0 + size[t]
        /\ Total(Claimed', Threads) = Total(Claimed, Threads) - size[t] + size[t]
    BY <1>1, <2>3, <2>4, <2>5, OneThread
  <2>7. Total(used', Procs) = Total(used, Procs) - used[p] + (used[p] + size[t])
    <3>1. used[p] + size[t] \in Nat /\ used' = [used EXCEPT ![p] = used[p] + size[t]]
      BY <1>1, <2>2
    <3> QED
      BY <2>2, <3>1, OneProcess, Zenon
  <2>8. /\ Total(Unrecorded, Threads) \in Nat /\ Total(Claimed, Threads) \in Nat
        /\ Total(used, Procs) \in Nat
        /\ recorded \in Nat /\ lost \in Nat /\ restored \in Nat /\ released \in Nat
    BY TotalsAreNumbers, Amounts
  <2>9. /\ Total(Unrecorded', Threads) = Total(Unrecorded, Threads) + size[t]
        /\ Total(Claimed', Threads) = Total(Claimed, Threads)
        /\ Total(used', Procs) = Total(used, Procs) + size[t]
    BY <2>2, <2>6, <2>7, <2>8
  <2>10. Balance'
    <3>1. /\ recorded + Total(Unrecorded, Threads) + lost = Total(used, Procs) + released + restored
      BY DEF Balance
    <3>2. recorded + (Total(Unrecorded, Threads) + size[t]) + lost
            = (Total(used, Procs) + size[t]) + released + restored
      BY <2>2, <2>8, <3>1
    <3> QED
      BY <1>1, <2>1, <2>9, <3>2 DEF Balance
  <2>11. ClaimsBounded'
    BY <1>1, <2>9 DEF ClaimsBounded, ExcessOf
  <2>12. Total(Unrecorded, ThreadsOf(p)) - Unrecorded[t] + Unrecorded'[t] <= used'[p]
    <3>1. Total(Unrecorded, ThreadsOf(p)) <= used[p]
      BY <2>2 DEF UnrecordedIsHeld
    <3>2. Total(Unrecorded, ThreadsOf(p)) \in Nat
      BY TotalsAreNumbers DEF ThreadsOf
    <3>3. used'[p] = used[p] + size[t]
      BY <1>1, <2>2 DEF TypeOK
    <3> QED
      BY <2>2, <2>5, <3>1, <3>2, <3>3
  <2>13. \A q \in Procs \ {p} : used'[q] = used[q]
    BY <1>1 DEF TypeOK
  <2> QED
    BY <1>1, <1>2, <2>3, <2>4, <2>10, <2>11, <2>12, <2>13, ThreadStep DEF Mapped
<1>3. CASE ~Mapped(t)
  <2>1. /\ pc' = [pc EXCEPT ![t] = "app"] /\ size' = [size EXCEPT ![t] = 0]
        /\ seen' = [seen EXCEPT ![t] = 0] /\ lost' = lost + size[t]
    BY <1>3 DEF RealAlloc, Back
  <2>2. p \in Procs /\ size[t] \in Nat /\ used[p] \in Nat /\ lost \in Nat
    BY Amounts
  <2>3. TypeOK'
    BY <1>1, <2>1, <2>2 DEF TypeOK
  <2>4. pc'[t] = "app" /\ \A u \in Threads \ {t} : pc'[u] = pc[u] /\ size'[u] = size[u]
    BY <2>1 DEF TypeOK
  <2>5. Unrecorded[t] = 0 /\ Unrecorded'[t] = 0 /\ Claimed[t] = 0 /\ Claimed'[t] = 0
    BY <1>1, <1>3, <2>4 DEF Unrecorded, Claimed
  <2>6. /\ Total(Unrecorded', Threads) = Total(Unrecorded, Threads) - 0 + 0
        /\ Total(Claimed', Threads) = Total(Claimed, Threads) - 0 + 0
    BY <1>1, <2>3, <2>4, <2>5, OneThread
  <2>7. Total(used', Procs) = Total(used, Procs) - used[p] + (used[p] + size[t])
    <3>1. used[p] + size[t] \in Nat /\ used' = [used EXCEPT ![p] = used[p] + size[t]]
      BY <1>1, <2>2
    <3> QED
      BY <2>2, <3>1, OneProcess, Zenon
  <2>8. /\ Total(Unrecorded, Threads) \in Nat /\ Total(Claimed, Threads) \in Nat
        /\ Total(used, Procs) \in Nat
        /\ recorded \in Nat /\ restored \in Nat /\ released \in Nat
    BY TotalsAreNumbers, Amounts
  <2>9. /\ Total(Unrecorded', Threads) = Total(Unrecorded, Threads)
        /\ Total(Claimed', Threads) = Total(Claimed, Threads)
        /\ Total(used', Procs) = Total(used, Procs) + size[t]
    BY <2>2, <2>6, <2>7, <2>8
  <2>10. Balance'
    <3>1. /\ recorded + Total(Unrecorded, Threads) + lost = Total(used, Procs) + released + restored
      BY DEF Balance
    <3>2. recorded + Total(Unrecorded, Threads) + (lost + size[t])
            = (Total(used, Procs) + size[t]) + released + restored
      BY <2>2, <2>8, <3>1
    <3> QED
      BY <1>1, <2>1, <2>9, <3>2 DEF Balance
  <2>11. ClaimsBounded'
    BY <1>1, <2>9 DEF ClaimsBounded, ExcessOf
  <2>12. Total(Unrecorded, ThreadsOf(p)) - Unrecorded[t] + Unrecorded'[t] <= used'[p]
    <3>1. Total(Unrecorded, ThreadsOf(p)) <= used[p]
      BY <2>2 DEF UnrecordedIsHeld
    <3>2. Total(Unrecorded, ThreadsOf(p)) \in Nat
      BY TotalsAreNumbers DEF ThreadsOf
    <3>3. used'[p] = used[p] + size[t]
      BY <1>1, <2>2 DEF TypeOK
    <3> QED
      BY <2>2, <2>5, <3>1, <3>2, <3>3
  <2>13. \A q \in Procs \ {p} : used'[q] = used[q]
    BY <1>1 DEF TypeOK
  <2> QED
    BY <1>1, <2>3, <2>4, <2>10, <2>11, <2>12, <2>13, ThreadStep
<1> QED
  BY <1>2, <1>3

(* The late half of +=: what is overwritten or brought back is counted.    *)
LEMMA RecordWriteStep ==
  ASSUME QuotaInv, NEW t \in Threads, RecordWrite(t)
  PROVE  QuotaInv'
<1> USE DEF QuotaInv
<1> DEFINE s == size[t]
<1>1. /\ pc[t] = "write" /\ pc' = [pc EXCEPT ![t] = "app"]
      /\ size' = [size EXCEPT ![t] = 0] /\ seen' = [seen EXCEPT ![t] = 0]
      /\ recorded' = seen[t] + s
      /\ lost' = lost + Excess(recorded, seen[t])
      /\ restored' = restored + Excess(seen[t], recorded)
      /\ UNCHANGED <<limit, magic, proc, used, allocs, released>>
  BY DEF RecordWrite, Back
<1>2. /\ s \in Nat /\ recorded \in Nat /\ lost \in Nat /\ restored \in Nat /\ released \in Nat
      /\ limit \in Nat /\ seen[t] \in Nat
  BY Amounts DEF TypeOK
<1>3. /\ Excess(recorded, seen[t]) \in Nat /\ Excess(seen[t], recorded) \in Nat
      /\ Excess(recorded, seen[t]) + seen[t] = Excess(seen[t], recorded) + recorded
  BY <1>2 DEF Excess
<1>4. TypeOK'
  BY <1>1, <1>2, <1>3 DEF TypeOK
<1>5. pc'[t] = "app" /\ \A u \in Threads \ {t} : pc'[u] = pc[u] /\ size'[u] = size[u]
  BY <1>1 DEF TypeOK
<1>6. Mapped(t)
  BY <1>1 DEF Stages
<1>7. Unrecorded[t] = s /\ Unrecorded'[t] = 0 /\ Claimed[t] = s /\ Claimed'[t] = 0
  BY <1>1, <1>5, <1>6 DEF Unrecorded, Claimed
<1>8. /\ Total(Unrecorded', Threads) = Total(Unrecorded, Threads) - s + 0
      /\ Total(Claimed', Threads) = Total(Claimed, Threads) - s + 0
  BY <1>1, <1>4, <1>5, <1>7, OneThread
<1>9. /\ Total(Unrecorded, Threads) \in Nat /\ Total(Claimed, Threads) \in Nat
      /\ Total(used, Procs) \in Nat /\ ExcessOf \in Nat
  BY TotalsAreNumbers
<1>10. /\ Total(Unrecorded', Threads) = Total(Unrecorded, Threads) - s
       /\ Total(Claimed', Threads) = Total(Claimed, Threads) - s
  BY <1>2, <1>8, <1>9
<1>11. Balance'
  <2>1. recorded + Total(Unrecorded, Threads) + lost = Total(used, Procs) + released + restored
    BY DEF Balance
  <2>2. seen[t] + s + (Total(Unrecorded, Threads) - s) + (lost + Excess(recorded, seen[t]))
          = Total(used, Procs) + released + (restored + Excess(seen[t], recorded))
    BY <1>2, <1>3, <1>9, <2>1
  <2> QED
    BY <1>1, <1>10, <2>2 DEF Balance
<1>12. ClaimsBounded'
  <2>1. limit # 0 => recorded + Total(Claimed, Threads) <= limit + ExcessOf + restored
    BY DEF ClaimsBounded
  <2>2. limit # 0 => seen[t] + s + (Total(Claimed, Threads) - s)
                       <= limit + ExcessOf + (restored + Excess(seen[t], recorded))
    BY <1>2, <1>3, <1>9, <2>1
  <2> QED
    BY <1>1, <1>10, <2>2 DEF ClaimsBounded, ExcessOf
<1>13. Total(Unrecorded, ThreadsOf(ProcOf[t])) - Unrecorded[t] + Unrecorded'[t] <= used'[ProcOf[t]]
  <2>1. Total(Unrecorded, ThreadsOf(ProcOf[t])) <= used[ProcOf[t]] /\ used[ProcOf[t]] \in Nat
    BY Amounts DEF UnrecordedIsHeld
  <2>2. Total(Unrecorded, ThreadsOf(ProcOf[t])) \in Nat
    BY TotalsAreNumbers DEF ThreadsOf
  <2> QED
    BY <1>1, <1>2, <1>7, <2>1, <2>2
<1> QED
  BY <1>1, <1>4, <1>5, <1>11, <1>12, <1>13, ThreadStep

LEMMA FreeStep ==
  ASSUME QuotaInv, NEW t \in Threads, Free(t)
  PROVE  QuotaInv'
<1> USE DEF QuotaInv
<1> DEFINE p == ProcOf[t]
<1>1. PICK s \in Sizes : /\ s + InFlight(ThreadsOf(p)) <= used[p]
                         /\ used' = [used EXCEPT ![p] = @ - s]
                         /\ released' = released + s
  BY DEF Free
<1>2. /\ pc[t] = "app" /\ proc[p] \in {"up", "degraded"}
      /\ UNCHANGED <<limit, magic, recorded, proc, pc, size, seen, allocs, lost, restored>>
  BY DEF Free
<1>3. /\ s \in Nat /\ p \in Procs /\ used[p] \in Nat
      /\ recorded \in Nat /\ lost \in Nat /\ restored \in Nat /\ released \in Nat
  BY Amounts, SizesAreNumbers
<1>4. s + Total(Unrecorded, ThreadsOf(p)) <= used[p] /\ Total(Unrecorded, ThreadsOf(p)) \in Nat
  BY <1>1, InFlightIsTotal, TotalsAreNumbers DEF ThreadsOf
<1>5. used[p] - s \in Nat /\ used' = [used EXCEPT ![p] = used[p] - s]
  BY <1>1, <1>3, <1>4
<1>6. TypeOK'
  BY <1>1, <1>2, <1>3, <1>5 DEF TypeOK
<1>7. Unrecorded' = Unrecorded /\ Claimed' = Claimed
  BY <1>2 DEF Unrecorded, Claimed, Mapped
<1>8. Total(used', Procs) = Total(used, Procs) - used[p] + (used[p] - s)
  BY <1>3, <1>5, OneProcess, Zenon
<1>9. /\ Total(Unrecorded, Threads) \in Nat /\ Total(used, Procs) \in Nat
  BY TotalsAreNumbers
<1>10. Total(used', Procs) = Total(used, Procs) - s
  BY <1>3, <1>8, <1>9
<1>11. Balance'
  <2>1. recorded + Total(Unrecorded, Threads) + lost = Total(used, Procs) + released + restored
    BY DEF Balance
  <2>2. recorded + Total(Unrecorded, Threads) + lost
          = (Total(used, Procs) - s) + (released + s) + restored
    BY <1>3, <1>9, <2>1
  <2> QED
    BY <1>1, <1>2, <1>7, <1>10, <2>2 DEF Balance
<1>12. ClaimsBounded' /\ Stages'
  BY <1>2, <1>7 DEF ClaimsBounded, ExcessOf, Stages, Mapped
<1>13. UnrecordedIsHeld'
  <2>1. ASSUME NEW q \in Procs PROVE Total(Unrecorded, ThreadsOf(q)) <= used'[q]
    <3>1. CASE q = p
      <4>1. used'[p] = used[p] - s
        BY <1>3, <1>5 DEF TypeOK
      <4> QED
        BY <1>3, <1>4, <3>1, <4>1
    <3>2. CASE q # p
      <4>1. used'[q] = used[q]
        BY <1>5, <3>2 DEF TypeOK
      <4> QED
        BY <4>1 DEF UnrecordedIsHeld
    <3> QED
      BY <3>1, <3>2
  <2> QED
    BY <1>7, <2>1 DEF UnrecordedIsHeld, ThreadsOf
<1> QED
  BY <1>6, <1>11, <1>12, <1>13

(* A process exits: only what it had recorded stays, as released.          *)
LEMMA ExitStep ==
  ASSUME QuotaInv, NEW p \in Procs, Exit(p)
  PROVE  QuotaInv'
<1> USE DEF QuotaInv
<1> DEFINE T == ThreadsOf(p)
           Rest == Threads \ T
           Mine == Total(Unrecorded, T)
<1>1. /\ proc' = [proc EXCEPT ![p] = "none"]
      /\ used' = [used EXCEPT ![p] = 0]
      /\ released' = released + used[p] - InFlight(T)
      /\ pc' = [t \in Threads |-> IF ProcOf[t] = p THEN "app" ELSE pc[t]]
      /\ size' = [t \in Threads |-> IF ProcOf[t] = p THEN 0 ELSE size[t]]
      /\ seen' = [t \in Threads |-> IF ProcOf[t] = p THEN 0 ELSE seen[t]]
      /\ UNCHANGED <<limit, magic, recorded, allocs, lost, restored>>
  BY DEF Exit
<1>2. T \in SUBSET Threads /\ Rest \in SUBSET Threads
  BY DEF ThreadsOf
<1>3. InFlight(T) = Mine /\ Mine \in Nat /\ Mine <= used[p]
  BY <1>2, InFlightIsTotal, TotalsAreNumbers DEF UnrecordedIsHeld
<1>4. /\ recorded \in Nat /\ lost \in Nat /\ restored \in Nat /\ released \in Nat /\ used[p] \in Nat
      /\ limit \in Nat
  BY Amounts
<1>5. released' = released + used[p] - Mine /\ released' \in Nat
  BY <1>1, <1>3, <1>4
<1>6. TypeOK'
  <2>1. /\ pc' \in [Threads -> {"app", "alloc", "record", "write"}]
        /\ size' \in [Threads -> Sizes \cup {0}] /\ seen' \in [Threads -> Nat]
    BY <1>1 DEF TypeOK
  <2> QED
    BY <1>1, <1>5, <2>1 DEF TypeOK
<1>7. \A t \in T : /\ pc'[t] = "app" /\ Unrecorded'[t] = 0 /\ Claimed'[t] = 0
  BY <1>1 DEF ThreadsOf, Unrecorded, Claimed
<1>8. \A t \in Rest : /\ ProcOf[t] \in Procs \ {p} /\ pc'[t] = pc[t] /\ size'[t] = size[t]
                      /\ proc'[ProcOf[t]] = proc[ProcOf[t]]
  BY <1>1, Amounts DEF ThreadsOf, TypeOK
<1>9. \A t \in Rest : Unrecorded'[t] = Unrecorded[t] /\ Claimed'[t] = Claimed[t]
  BY <1>8 DEF Unrecorded, Claimed, Mapped
<1>10. Stages'
  BY <1>2, <1>7, <1>8 DEF Stages, Mapped
<1>11. \A t \in Threads : Unrecorded[t] \in Int /\ Claimed[t] \in Int
  BY Amounts
<1>12. Threads \ Rest = T /\ IsFiniteSet(Threads)
  BY <1>2, QuotaAssumption
<1> HIDE DEF T, Rest
<1>13. /\ Total(Unrecorded', Threads) = Total(Unrecorded, Rest)
       /\ Total(Claimed', Threads) = Total(Claimed, Rest)
  <2>1. \A t \in Rest : Unrecorded[t] \in Int /\ Claimed[t] \in Int
    BY <1>2, <1>11
  <2>2. \A t \in Threads \ Rest : Unrecorded'[t] = 0 /\ Claimed'[t] = 0
    BY <1>7, <1>12
  <2>3. Total(Unrecorded, Rest) = Total(Unrecorded', Threads)
    BY <1>2, <1>9, <1>12, <2>1, <2>2, TotalFilter
  <2>4. Total(Claimed, Rest) = Total(Claimed', Threads)
    BY <1>2, <1>9, <1>12, <2>1, <2>2, TotalFilter
  <2> QED
    BY <2>3, <2>4
<1>14. /\ Total(Unrecorded, Threads) = Total(Unrecorded, T) + Total(Unrecorded, Rest)
       /\ Total(Claimed, Threads) = Total(Claimed, T) + Total(Claimed, Rest)
  BY <1>2, <1>11, <1>12, TotalSplit DEF Rest
<1>15. /\ Total(Unrecorded, Threads) \in Nat /\ Total(Unrecorded, Rest) \in Nat
       /\ Total(Claimed, T) \in Nat /\ Total(Claimed, Rest) \in Nat
       /\ Total(used, Procs) \in Nat /\ ExcessOf \in Nat
  BY <1>2, TotalsAreNumbers
<1>16. Total(used', Procs) = Total(used, Procs) - used[p]
  <2>1. Total(used', Procs) = Total(used, Procs) - used[p] + 0
    BY <1>1, OneProcess
  <2> QED
    BY <1>4, <1>15, <2>1
<1>17. Balance'
  <2>1. recorded + Total(Unrecorded, Threads) + lost = Total(used, Procs) + released + restored
    BY DEF Balance
  <2>2. recorded + Total(Unrecorded, Rest) + lost
          = (Total(used, Procs) - used[p]) + (released + used[p] - Mine) + restored
    <3>1. Total(Unrecorded, Threads) = Mine + Total(Unrecorded, Rest) /\ Mine \in Nat
      BY <1>3, <1>14
    <3> HIDE DEF Mine
    <3> QED
      BY <1>4, <1>15, <2>1, <3>1
  <2> HIDE DEF Mine
  <2> QED
    BY <1>1, <1>5, <1>13, <1>16, <2>2 DEF Balance
<1>18. ClaimsBounded'
  <2>1. limit # 0 => recorded + Total(Claimed, Rest) <= limit + ExcessOf + restored
    BY <1>4, <1>14, <1>15 DEF ClaimsBounded
  <2> QED
    BY <1>1, <1>13, <2>1 DEF ClaimsBounded, ExcessOf
<1>19. ASSUME NEW q \in Procs PROVE Total(Unrecorded', ThreadsOf(q)) <= used'[q]
  <2>1. IsFiniteSet(ThreadsOf(q)) /\ ThreadsOf(q) \in SUBSET Threads
    BY FS_Subset, QuotaAssumption DEF ThreadsOf
  <2>2. CASE q = p
    <3>4. used'[q] = 0
      BY <1>1, <2>2 DEF TypeOK
    <3>5. \A t \in ThreadsOf(q) : Unrecorded'[t] = 0
      BY <1>7, <2>2 DEF T
    <3>1. used'[q] = 0 /\ \A t \in ThreadsOf(q) : Unrecorded'[t] \in 0 .. 0
      BY <3>4, <3>5
    <3>2. /\ Total(Unrecorded', ThreadsOf(q)) \in Nat
          /\ Total(Unrecorded', ThreadsOf(q)) <= Cardinality(ThreadsOf(q)) * 0
      BY <2>1, <3>1, TotalBound
    <3>3. Cardinality(ThreadsOf(q)) \in Nat
      BY <2>1, FS_CardinalityType
    <3> QED
      BY <3>1, <3>2, <3>3
  <2>3. CASE q # p
    <3>1. used'[q] = used[q] /\ \A t \in ThreadsOf(q) : Unrecorded[t] \in Int /\ t \in Rest
      BY <1>1, <1>11, <2>1, <2>3 DEF T, Rest, ThreadsOf, TypeOK
    <3>2. \A t \in ThreadsOf(q) : Unrecorded'[t] = Unrecorded[t]
      BY <1>9, <3>1
    <3>3. Total(Unrecorded', ThreadsOf(q)) = Total(Unrecorded, ThreadsOf(q))
      BY <2>1, <3>1, <3>2, TotalSame
    <3> QED
      BY <3>1, <3>3 DEF UnrecordedIsHeld
  <2> QED
    BY <2>2, <2>3
<1>20. UnrecordedIsHeld'
  BY <1>19 DEF UnrecordedIsHeld, ThreadsOf
<1> QED
  BY <1>6, <1>10, <1>17, <1>18, <1>20

LEMMA QuotaStep ==
  ASSUME QuotaInv, [Next]_vars
  PROVE  QuotaInv'
<1>1. CASE Next
  <2>1. ASSUME NEW p \in Procs, Load(p) \/ LoadFails(p) \/ Clear(p) PROVE QuotaInv'
    BY <2>1, SetUpSteps
  <2>2. ASSUME NEW p \in Procs, Exit(p) PROVE QuotaInv'
    BY <2>2, ExitStep
  <2>3. ASSUME NEW t \in Threads,
               \/ Check(t) \/ RealAlloc(t) \/ RealAllocFails(t)
               \/ RecordRead(t) \/ RecordWrite(t) \/ Free(t)
        PROVE  QuotaInv'
    BY <2>3, CheckStep, RealAllocStep, RealAllocFailsStep, RecordReadStep, RecordWriteStep, FreeStep
  <2> QED
    BY <1>1, <2>1, <2>2, <2>3 DEF Next
<1>2. CASE UNCHANGED vars
  <2>1. Unrecorded' = Unrecorded /\ Claimed' = Claimed
    BY <1>2 DEF vars, Unrecorded, Claimed, Mapped
  <2>2. TypeOK' /\ Stages'
    BY <1>2 DEF vars, QuotaInv, TypeOK, Stages, Mapped
  <2>3. UnrecordedIsHeld' /\ Balance' /\ ClaimsBounded'
    BY <1>2, <2>1 DEF vars, QuotaInv, UnrecordedIsHeld, ThreadsOf, Balance, ClaimsBounded, ExcessOf
  <2> QED
    BY <2>2, <2>3 DEF QuotaInv
<1> QED
  BY <1>1, <1>2

(* The inductive invariant holds.                                          *)
LEMMA QuotaInvariant == Spec => []QuotaInv
  BY InitQuota, QuotaStep, PTL DEF Spec

LEMMA UsedIsTotal == Used = Total(used, Procs)
  BY SumIsTotal DEF Used

(* Type correctness: no step leaves a variable out of its type; what Exit  *)
(* and Free subtract never exceeds what a process holds or has released.   *)
THEOREM QuotaTypeCorrect == Spec => []TypeOK
<1>1. QuotaInv => TypeOK
  BY DEF QuotaInv
<1> QED
  BY <1>1, QuotaInvariant, PTL

(* recordAlloc and its unprotected += : the amount in the file is exactly  *)
(* what is held, corrected by what is on its way, lost, released or        *)
(* brought back, for any number of processes, threads and allocations.     *)
THEOREM Accounted == Spec => []AccountExact
<1>1. QuotaInv => AccountExact
  BY InFlightIsTotal, UsedIsTotal DEF QuotaInv, Balance, AccountExact
<1> QED
  BY <1>1, QuotaInvariant, PTL

(* phoenix_check_vram_alloc: the container exceeds its limit by at most    *)
(* one request for every thread but one, and what was lost.                *)
THEOREM ExcessIsBounded == Spec => []UsageBounded
<1>1. ASSUME QuotaInv PROVE UsageBounded
  <2>1. TypeOK /\ Balance /\ ClaimsBounded /\ Stages
    BY <1>1 DEF QuotaInv
  <2>2. /\ Total(Unrecorded, Threads) \in Nat /\ Total(Claimed, Threads) \in Nat
        /\ Total(used, Procs) \in Nat /\ ExcessOf \in Nat
        /\ recorded \in Nat /\ lost \in Nat /\ restored \in Nat /\ released \in Nat
        /\ limit \in Nat
    BY <2>1, TotalsAreNumbers, Amounts
  <2>3. Total(Unrecorded, Threads) <= Total(Claimed, Threads)
    <3>1. \A t \in Threads : /\ Unrecorded[t] \in Int /\ Claimed[t] \in Int
                             /\ Unrecorded[t] <= Claimed[t]
      <4>1. \A t \in Threads : Unrecorded[t] \in Nat /\ Claimed[t] \in Nat
        BY <2>1, Amounts
      <4>2. \A t \in Threads : Unrecorded[t] = 0 \/ Unrecorded[t] = Claimed[t]
        BY <2>1 DEF Stages, Unrecorded, Claimed
      <4> QED
        BY <4>1, <4>2
    <3> QED
      BY <3>1, TotalLess, QuotaAssumption
  <2>4. Used <= limit + ExcessOf + lost \/ limit = 0
    BY <2>1, <2>2, <2>3, UsedIsTotal DEF Balance, ClaimsBounded
  <2> QED
    BY <2>4 DEF UsageBounded, ExcessOf
<1> QED
  BY <1>1, QuotaInvariant, PTL

(*--------------------- the oversubscription counters ----------------------*)
(* What a thread adds to virtualUsedMiB, and what the other two counters   *)
(* still lack of it, or have too much while it is freed.                   *)
Charged == [t \in Callers |->
  IF at[t] \in {"loadPhysical", "casPhysical", "addSwap", "held"} THEN amount[t] ELSE 0]
Owed == [t \in Callers |->
  IF at[t] \in {"loadPhysical", "casPhysical"} THEN amount[t]
  ELSE IF at[t] = "addSwap" THEN local[t]
  ELSE IF at[t] \in {"loadSwap", "freeSwap"} THEN 0 - amount[t]
  ELSE IF at[t] = "freePhysical" THEN 0 - local[t]
  ELSE 0]

VirtualInv ==
  /\ virtual = Total(Charged, Callers) /\ virtual <= VirtualCap
  /\ \A t \in Callers :
       at[t] = "casVirtual" => Plus(local[t], amount[t]) <= VirtualCap

Freeing(t) == at[t] \in {"loadSwap", "freeSwap", "freePhysical"}
Quiet(t) == at[t] \in {"idle", "held"}

(* While Allocs run, what a thread has loaded of physicalUsedMiB is a      *)
(* lower bound, and swap is used only when physical memory is full; a Free *)
(* that runs alone finds in swap what it has loaded.                       *)
SplitInv ==
  /\ physical + swap + Total(Owed, Callers) = virtual
  /\ physical <= PhysicalCap
  /\ swap > 0 => physical = PhysicalCap
  /\ \A t \in Callers :
       /\ Freeing(t) => \A u \in Callers \ {t} : Quiet(u)
       /\ at[t] = "casPhysical" => local[t] <= physical
       /\ at[t] = "addSwap" => physical = PhysicalCap
       /\ at[t] = "freeSwap" => local[t] = swap
       /\ at[t] = "freePhysical" => swap = 0

OversubInv == OversubTypeOK /\ VirtualInv /\ (~freeRaced => SplitInv)

(* What is granted and not freed is the total charged.                     *)
LEMMA HeldIsTotal ==
  ASSUME OversubTypeOK
  PROVE  Held = Total(Charged, Callers)
<1> DEFINE A == Counted
<1>1. Held = Total(amount, A)
  BY DEF Held, MapThenSumSet, MapThenFoldSet, Total, Totals, Pick
<1>2. /\ A \in SUBSET Callers /\ \A t \in A : Charged[t] = amount[t]
      /\ \A t \in Callers \ A : Charged[t] = 0
  BY DEF Counted, Charged
<1>4. \A t \in A : amount[t] \in Int
  <2>1. \A t \in Callers : amount[t] \in Requests
    BY DEF OversubTypeOK
  <2>2. \A s \in Requests : s \in Int
    BY OversubAssumption
  <2> QED
    BY <1>2, <2>1, <2>2
<1>3. IsFiniteSet(Callers)
  BY OversubAssumption
<1> HIDE DEF A
<1> QED
  BY <1>1, <1>2, <1>3, <1>4, TotalFilter

(* No counter wraps within its range.                                      *)
LEMMA WordArithmetic ==
  \A a, b \in Nat :
    /\ Plus(a, b) \in Word /\ Minus(a, b) \in Word
    /\ a + b < Modulus => Plus(a, b) = a + b
    /\ b <= a /\ a < Modulus => Minus(a, b) = a - b
<1>1. Modulus \in Nat \ {0}
  BY OversubAssumption
<1>2. ASSUME NEW a \in Int
      PROVE  a % Modulus \in 0 .. Modulus - 1 /\ (a \in 0 .. Modulus - 1 => a % Modulus = a)
  BY <1>1
<1>3. ASSUME NEW a \in Nat, NEW b \in Nat
      PROVE  /\ a + b \in Int /\ a - b \in Int
             /\ a + b < Modulus => a + b \in 0 .. Modulus - 1
             /\ b <= a /\ a < Modulus => a - b \in 0 .. Modulus - 1
  BY <1>1
<1> QED
  BY <1>2, <1>3 DEF Plus, Minus, Word

(* The values of the counters and of what is derived from them.            *)
LEMMA OversubNumbers ==
  ASSUME OversubTypeOK
  PROVE  /\ IsFiniteSet(Callers)
         /\ PhysicalCap \in Nat /\ VirtualCap \in Nat /\ Modulus \in Nat /\ PhysicalCap < Modulus
         /\ \A s \in Requests : s \in Nat /\ s > 0 /\ VirtualCap + s < Modulus
         /\ virtual \in Nat /\ physical \in Nat /\ swap \in Nat
         /\ \A t \in Callers :
              /\ amount[t] \in Requests /\ local[t] \in Nat
              /\ Charged[t] \in Nat /\ Owed[t] \in Int
<1>1. /\ IsFiniteSet(Callers)
      /\ PhysicalCap \in Nat /\ VirtualCap \in Nat /\ Modulus \in Nat /\ PhysicalCap < Modulus
      /\ \A s \in Requests : s \in Nat /\ s > 0 /\ VirtualCap + s < Modulus
  <2>1. /\ Requests \subseteq Nat \ {0} /\ \A s \in Requests : VirtualCap + s < Modulus
        /\ PhysicalCap \in Nat /\ VirtualCap \in Nat /\ Modulus \in Nat /\ PhysicalCap < Modulus
    BY OversubAssumption
  <2> QED
    BY <2>1, OversubAssumption
<1>2. /\ virtual \in Nat /\ physical \in Nat /\ swap \in Nat
      /\ \A t \in Callers : amount[t] \in Requests /\ local[t] \in Nat
  BY DEF OversubTypeOK, Word
<1>3. ASSUME NEW t \in Callers PROVE Charged[t] \in Nat /\ Owed[t] \in Int
  <2>1. amount[t] \in Nat /\ local[t] \in Nat
    BY <1>1, <1>2
  <2>2. 0 - amount[t] \in Int /\ 0 - local[t] \in Int
    BY <2>1
  <2> QED
    BY <2>1, <2>2 DEF Charged, Owed
<1> QED
  BY <1>1, <1>2, <1>3

(* The step of one thread.                                                 *)
LEMMA OneCall ==
  ASSUME OversubTypeOK, OversubTypeOK', NEW t \in Callers,
         \A u \in Callers \ {t} : at'[u] = at[u] /\ amount'[u] = amount[u] /\ local'[u] = local[u]
  PROVE  /\ Total(Charged, Callers) \in Nat /\ Charged[t] <= Total(Charged, Callers)
         /\ Total(Owed, Callers) \in Int
         /\ Total(Charged', Callers) = Total(Charged, Callers) - Charged[t] + Charged'[t]
         /\ Total(Owed', Callers) = Total(Owed, Callers) - Owed[t] + Owed'[t]
<1>1. /\ IsFiniteSet(Callers)
      /\ \A u \in Callers : Charged[u] \in Nat /\ Charged[u] \in Int /\ Owed[u] \in Int
  BY OversubNumbers
<1>2. Charged'[t] \in Int /\ Owed'[t] \in Int
  <2>1. /\ amount'[t] \in Int /\ local'[t] \in Int
    BY OversubNumbers DEF OversubTypeOK, Word
  <2>2. 0 - amount'[t] \in Int /\ 0 - local'[t] \in Int
    BY <2>1
  <2> QED
    BY <2>1, <2>2 DEF Charged, Owed
<1>3. \A u \in Callers \ {t} : Charged'[u] = Charged[u] /\ Owed'[u] = Owed[u]
  BY DEF Charged, Owed
<1>4. Total(Charged, Callers) \in Nat /\ Charged[t] <= Total(Charged, Callers)
  BY <1>1, TotalNat
<1>5. Total(Charged', Callers) = Total(Charged, Callers) - Charged[t] + Charged'[t]
  BY <1>1, <1>2, <1>3, TotalChange
<1>6. /\ Total(Owed, Callers) \in Int
      /\ Total(Owed', Callers) = Total(Owed, Callers) - Owed[t] + Owed'[t]
  BY <1>1, <1>2, <1>3, TotalChange
<1> QED
  BY <1>4, <1>5, <1>6

(* When no other thread owes, the total is what the one owes.              *)
LEMMA OwedAlone ==
  ASSUME OversubTypeOK, NEW t \in Callers,
         \A u \in Callers \ {t} : Quiet(u)
  PROVE  Total(Owed, Callers) = Owed[t]
<1>1. IsFiniteSet(Callers) /\ \A u \in Callers : Owed[u] \in Int
  BY OversubNumbers
<1>2. \A u \in Callers \ {t} : Owed[u] = 0
  BY DEF Quiet, Owed
<1>3. Total(Owed, Callers) = Owed[t] + Total(Owed, Callers \ {t})
  BY <1>1, TotalRemove
<1>4. Total(Owed, Callers \ {t}) = 0
  <2>1. IsFiniteSet(Callers \ {t}) /\ IsFiniteSet({}) /\ Total(Owed, {}) = 0
    BY <1>1, FS_RemoveElement, FS_EmptySet, TotalEmpty
  <2>2. Total(Owed, {}) = Total(Owed, Callers \ {t})
    BY <1>2, <2>1, TotalFilter
  <2> QED
    BY <2>1, <2>2
<1>5. Owed[t] \in Int
  BY <1>1
<1> QED
  BY <1>3, <1>4, <1>5

(* While nobody is in Free, what a thread owes is within the limit.        *)
LEMMA OwedFits ==
  ASSUME OversubInv, ~freeRaced, NEW t \in Callers,
         at[t] \in {"loadPhysical", "casPhysical", "addSwap"}
  PROVE  physical + swap + Owed[t] < Modulus
<1> USE DEF OversubInv
<1>1. ASSUME NEW u \in Callers PROVE Owed[u] \in Nat
  <2>1. ~Freeing(u)
    BY DEF SplitInv, Quiet, Freeing
  <2>2. amount[u] \in Nat /\ local[u] \in Nat
    BY OversubNumbers
  <2> QED
    BY <2>1, <2>2 DEF Owed, Freeing
<1>2. Total(Owed, Callers) \in Nat /\ Owed[t] <= Total(Owed, Callers)
  BY <1>1, OversubNumbers, TotalNat
<1>3. physical + swap + Total(Owed, Callers) = virtual /\ virtual <= VirtualCap
  BY DEF SplitInv, VirtualInv
<1>4. /\ physical \in Nat /\ swap \in Nat /\ virtual \in Nat /\ VirtualCap \in Nat
      /\ Modulus \in Nat /\ Owed[t] \in Nat
      /\ amount[t] \in Nat /\ VirtualCap + amount[t] < Modulus
  BY <1>1, OversubNumbers
<1> QED
  BY <1>2, <1>3, <1>4

LEMMA OversubStart ==
  ASSUME OversubInit
  PROVE  OversubInv
<1>1. PhysicalCap \in Nat /\ VirtualCap \in Nat /\ Modulus \in Nat \ {0}
  BY OversubAssumption
<1>2. /\ virtual = 0 /\ physical = 0 /\ swap = 0 /\ freeRaced = FALSE
      /\ amount \in [Callers -> Requests]
      /\ at \in [Callers -> {"idle"}] /\ local \in [Callers -> {0}]
  BY DEF OversubInit
<1>3. OversubTypeOK
  <2>1. 0 \in Word
    BY <1>1 DEF Word
  <2>2. at \in [Callers -> PCs]
    BY <1>2 DEF PCs
  <2> QED
    BY <1>2, <2>1, <2>2 DEF OversubTypeOK
<1>4. \A t \in Callers : /\ at[t] = "idle" /\ Charged[t] = 0 /\ Owed[t] = 0
  BY <1>2 DEF Charged, Owed
<1>5. Total(Charged, Callers) = 0 /\ Total(Owed, Callers) = 0
  <2>1. /\ Total(Charged, {}) = 0 /\ Total(Owed, {}) = 0 /\ IsFiniteSet(Callers)
    BY TotalEmpty, OversubAssumption
  <2>2. Total(Charged, {}) = Total(Charged, Callers) /\ Total(Owed, {}) = Total(Owed, Callers)
    BY <1>4, <2>1, TotalFilter
  <2> QED
    BY <2>1, <2>2
<1> QED
  BY <1>1, <1>2, <1>3, <1>4, <1>5 DEF OversubInv, VirtualInv, SplitInv, Freeing

LEMMA LoadVirtualStep ==
  ASSUME OversubInv, NEW t \in Callers, LoadVirtual(t)
  PROVE  OversubInv'
<1> USE DEF OversubInv
<1>1. PICK s \in Requests : Plus(virtual, s) <= VirtualCap /\ amount' = [amount EXCEPT ![t] = s]
  BY DEF LoadVirtual
<1>2. /\ at[t] = "idle" /\ at' = [at EXCEPT ![t] = "casVirtual"]
      /\ local' = [local EXCEPT ![t] = virtual]
      /\ freeRaced' = (freeRaced \/ InFree # {})
      /\ UNCHANGED <<virtual, physical, swap>>
  BY DEF LoadVirtual, GotoWith
<1>3. OversubTypeOK'
  BY <1>1, <1>2 DEF OversubTypeOK, PCs
<1>4. /\ at'[t] = "casVirtual" /\ local'[t] = virtual /\ amount'[t] = s
      /\ \A u \in Callers \ {t} : at'[u] = at[u] /\ amount'[u] = amount[u] /\ local'[u] = local[u]
  BY <1>1, <1>2 DEF OversubTypeOK
<1>5. Charged[t] = 0 /\ Charged'[t] = 0 /\ Owed[t] = 0 /\ Owed'[t] = 0
  BY <1>2, <1>4 DEF Charged, Owed
<1>6. Total(Charged', Callers) = Total(Charged, Callers) /\ Total(Owed', Callers) = Total(Owed, Callers)
  BY <1>3, <1>4, <1>5, OneCall
<1>7. VirtualInv'
  BY <1>1, <1>2, <1>4, <1>6 DEF VirtualInv, Plus
<1>8. ASSUME ~freeRaced' PROVE SplitInv'
  <2>1. ~freeRaced /\ \A u \in Callers : ~Freeing(u)
    BY <1>2, <1>8 DEF InFree, Freeing
  <2>2. physical' + swap' + Total(Owed', Callers) = virtual'
    BY <1>2, <1>6, <2>1 DEF SplitInv
  <2> QED
    BY <1>2, <1>4, <2>1, <2>2 DEF SplitInv, Freeing
<1> QED
  BY <1>3, <1>7, <1>8

LEMMA CasVirtualStep ==
  ASSUME OversubInv, NEW t \in Callers, CasVirtual(t)
  PROVE  OversubInv'
<1> USE DEF OversubInv
<1>1. /\ at[t] = "casVirtual" /\ UNCHANGED <<physical, swap, amount, freeRaced>>
  BY DEF CasVirtual
<1>2. /\ amount[t] \in Nat /\ amount[t] > 0 /\ VirtualCap + amount[t] < Modulus
      /\ virtual \in Nat /\ physical \in Nat /\ swap \in Nat
      /\ VirtualCap \in Nat /\ Modulus \in Nat
      /\ Charged[t] = 0 /\ Owed[t] = 0
  BY <1>1, OversubNumbers DEF Charged, Owed
<1>3. virtual <= VirtualCap /\ virtual + amount[t] < Modulus
  BY <1>2 DEF VirtualInv
<1>4. Plus(virtual, amount[t]) = virtual + amount[t] /\ virtual + amount[t] \in Word
  BY <1>2, <1>3, WordArithmetic
<1>5. CASE /\ virtual = local[t] /\ virtual' = Plus(virtual, amount[t])
           /\ Goto(t, "loadPhysical")
  <2>1. at' = [at EXCEPT ![t] = "loadPhysical"] /\ local' = [local EXCEPT ![t] = 0]
    BY <1>5 DEF Goto, GotoWith
  <2>2. 0 \in Word
    BY <1>2, <1>3 DEF Word
  <2>3. OversubTypeOK'
    BY <1>1, <1>4, <1>5, <2>1, <2>2 DEF OversubTypeOK, PCs
  <2>4. /\ at'[t] = "loadPhysical"
        /\ \A u \in Callers \ {t} : at'[u] = at[u] /\ amount'[u] = amount[u] /\ local'[u] = local[u]
    BY <1>1, <2>1 DEF OversubTypeOK
  <2>5. Charged'[t] = amount[t] /\ Owed'[t] = amount[t]
    BY <1>1, <2>4 DEF Charged, Owed
  <2>6. /\ Total(Charged, Callers) \in Nat /\ Total(Owed, Callers) \in Int
        /\ Total(Charged', Callers) = Total(Charged, Callers) + amount[t]
        /\ Total(Owed', Callers) = Total(Owed, Callers) + amount[t]
    BY <1>2, <2>3, <2>4, <2>5, OneCall
  <2>7. virtual' = virtual + amount[t]
    BY <1>4, <1>5
  <2>8. VirtualInv'
    <3>1. virtual + amount[t] <= VirtualCap
      BY <1>1, <1>4, <1>5 DEF VirtualInv
    <3>2. \A u \in Callers : at'[u] = "casVirtual" => u # t
      BY <2>4
    <3> QED
      BY <1>1, <2>4, <2>6, <2>7, <3>1, <3>2 DEF VirtualInv, Plus
  <2>9. ASSUME ~freeRaced' PROVE SplitInv'
    <3>1. physical + swap + (Total(Owed, Callers) + amount[t]) = virtual + amount[t]
      BY <1>1, <1>2, <2>6, <2>9 DEF SplitInv
    <3>2. physical' + swap' + Total(Owed', Callers) = virtual'
      BY <1>1, <2>6, <2>7, <3>1
    <3>3. \A u \in Callers : ~Freeing(u)
      BY <1>1, <2>9 DEF SplitInv, Freeing, Quiet
    <3> QED
      BY <1>1, <2>4, <2>9, <3>2, <3>3 DEF SplitInv, Freeing
  <2> QED
    BY <2>3, <2>8, <2>9
<1>6. CASE /\ virtual # local[t] /\ Plus(virtual, amount[t]) <= VirtualCap
           /\ GotoWith(t, "casVirtual", virtual)
           /\ UNCHANGED virtual
  <2>1. at' = [at EXCEPT ![t] = "casVirtual"] /\ local' = [local EXCEPT ![t] = virtual]
    BY <1>6 DEF GotoWith
  <2>2. OversubTypeOK'
    BY <1>1, <1>6, <2>1 DEF OversubTypeOK, PCs
  <2>3. /\ at' = at /\ local'[t] = virtual
        /\ \A u \in Callers \ {t} : local'[u] = local[u]
    BY <1>1, <2>1 DEF OversubTypeOK
  <2>4. \A u \in Callers : Charged'[u] = Charged[u] /\ Owed'[u] = Owed[u]
    BY <1>1, <2>3 DEF Charged, Owed
  <2>5. Charged' = Charged /\ Owed' = Owed
    BY <2>4 DEF Charged, Owed
  <2>6. VirtualInv'
    BY <1>1, <1>6, <2>3, <2>5 DEF VirtualInv, Plus
  <2>7. ~freeRaced' => SplitInv'
    BY <1>1, <1>6, <2>3, <2>5 DEF SplitInv, Freeing, Quiet
  <2> QED
    BY <2>2, <2>6, <2>7
<1>7. CASE /\ virtual # local[t] /\ Goto(t, "idle") /\ UNCHANGED virtual
  <2>1. at' = [at EXCEPT ![t] = "idle"] /\ local' = [local EXCEPT ![t] = 0]
    BY <1>7 DEF Goto, GotoWith
  <2>2. 0 \in Word
    BY <1>2, <1>3 DEF Word
  <2>3. OversubTypeOK'
    BY <1>1, <1>7, <2>1, <2>2 DEF OversubTypeOK, PCs
  <2>4. /\ at'[t] = "idle"
        /\ \A u \in Callers \ {t} : at'[u] = at[u] /\ local'[u] = local[u]
    BY <1>1, <2>1 DEF OversubTypeOK
  <2>5. \A u \in Callers : Charged'[u] = Charged[u] /\ Owed'[u] = Owed[u]
    BY <1>1, <2>4 DEF Charged, Owed
  <2>6. Charged' = Charged /\ Owed' = Owed
    BY <2>5 DEF Charged, Owed
  <2>7. VirtualInv'
    BY <1>1, <1>7, <2>4, <2>6 DEF VirtualInv, Plus
  <2>8. ~freeRaced' => SplitInv'
    BY <1>1, <1>7, <2>4, <2>6 DEF SplitInv, Freeing, Quiet
  <2> QED
    BY <2>3, <2>7, <2>8
<1> QED
  BY <1>5, <1>6, <1>7 DEF CasVirtual

LEMMA LoadPhysicalStep ==
  ASSUME OversubInv, NEW t \in Callers, LoadPhysical(t)
  PROVE  OversubInv'
<1> USE DEF OversubInv
<1>1. /\ at[t] = "loadPhysical" /\ at' = [at EXCEPT ![t] = "casPhysical"]
      /\ local' = [local EXCEPT ![t] = physical]
      /\ UNCHANGED <<virtual, physical, swap, amount, freeRaced>>
  BY DEF LoadPhysical, GotoWith
<1>2. OversubTypeOK'
  BY <1>1 DEF OversubTypeOK, PCs
<1>3. /\ at'[t] = "casPhysical" /\ local'[t] = physical
      /\ \A u \in Callers \ {t} : at'[u] = at[u] /\ local'[u] = local[u]
  BY <1>1 DEF OversubTypeOK
<1>4. \A u \in Callers : Charged'[u] = Charged[u] /\ Owed'[u] = Owed[u]
  BY <1>1, <1>3 DEF Charged, Owed
<1>5. Charged' = Charged /\ Owed' = Owed
  BY <1>4 DEF Charged, Owed
<1>6. VirtualInv'
  BY <1>1, <1>3, <1>5 DEF VirtualInv, Plus
<1>7. ASSUME ~freeRaced' PROVE SplitInv'
  <2>1. \A u \in Callers : ~Freeing(u)
    BY <1>1, <1>7 DEF SplitInv, Freeing, Quiet
  <2>2. physical \in Nat
    BY OversubNumbers
  <2> QED
    BY <1>1, <1>3, <1>5, <1>7, <2>1, <2>2 DEF SplitInv, Freeing
<1> QED
  BY <1>2, <1>6, <1>7

(* The compare-and-swap that divides a request.                            *)
LEMMA CasPhysicalStep ==
  ASSUME OversubInv, NEW t \in Callers, CasPhysical(t)
  PROVE  OversubInv'
<1> USE DEF OversubInv
<1> DEFINE s == amount[t]
           l == local[t]
<1>1. /\ at[t] = "casPhysical" /\ UNCHANGED <<virtual, swap, amount, freeRaced>>
  BY DEF CasPhysical
<1>2. PICK next \in {"held", "addSwap", "loadPhysical"}, rest \in {0, s, Minus(s, PhysicalCap - l)} :
        /\ at' = [at EXCEPT ![t] = next] /\ local' = [local EXCEPT ![t] = rest]
        /\ \/ /\ Fits(t) /\ physical = l
              /\ physical' = Plus(physical, s) /\ next = "held" /\ rest = 0
           \/ /\ ~Fits(t) /\ l >= PhysicalCap
              /\ physical' = physical /\ next = "addSwap" /\ rest = s
           \/ /\ ~Fits(t) /\ l < PhysicalCap /\ physical = l
              /\ physical' = PhysicalCap /\ next = "addSwap"
              /\ rest = Minus(s, PhysicalCap - l)
           \/ /\ physical' = physical /\ next = "loadPhysical" /\ rest = 0
  BY DEF CasPhysical, Goto, GotoWith
<1>3. /\ s \in Nat /\ s > 0 /\ l \in Nat /\ s < Modulus /\ Modulus \in Nat
      /\ PhysicalCap \in Nat /\ PhysicalCap < Modulus
      /\ virtual \in Nat /\ physical \in Nat /\ swap \in Nat
  <2>1. /\ s \in Nat /\ s > 0 /\ VirtualCap \in Nat /\ VirtualCap + s < Modulus /\ Modulus \in Nat
    BY OversubNumbers
  <2>2. s < Modulus
    BY <2>1
  <2> QED
    BY <2>1, <2>2, OversubNumbers
<1>4. /\ rest \in Word /\ physical' \in Word
      /\ l < PhysicalCap => rest \in Nat
  <2>1. 0 \in Word /\ s \in Word /\ PhysicalCap \in Word
    BY <1>3 DEF Word
  <2>2. Plus(physical, s) \in Word /\ physical \in Word
    BY <1>3, WordArithmetic DEF OversubTypeOK
  <2>3. Minus(s, PhysicalCap - l) \in Word
    <3>1. s - (PhysicalCap - l) \in Int /\ Modulus \in Nat \ {0}
      BY <1>3
    <3> QED
      BY <3>1 DEF Minus, Word
  <2>4. rest \in Word
    BY <1>2, <2>1, <2>3
  <2>5. physical' \in Word
    BY <1>2, <2>1, <2>2
  <2> QED
    BY <1>3, <2>4, <2>5 DEF Word
<1>5. OversubTypeOK'
  BY <1>1, <1>2, <1>4 DEF OversubTypeOK, PCs
<1>6. /\ at'[t] = next /\ local'[t] = rest
      /\ \A u \in Callers \ {t} : at'[u] = at[u] /\ local'[u] = local[u]
  BY <1>1, <1>2 DEF OversubTypeOK
<1>7. Charged[t] = s /\ Charged'[t] = s /\ Owed[t] = s
  BY <1>1, <1>6 DEF Charged, Owed
<1>8. /\ Total(Charged, Callers) \in Nat /\ Total(Owed, Callers) \in Int
      /\ Total(Charged', Callers) = Total(Charged, Callers) - s + s
      /\ Total(Owed', Callers) = Total(Owed, Callers) - s + Owed'[t]
  BY <1>1, <1>5, <1>6, <1>7, OneCall
<1>9. VirtualInv'
  <2>1. Total(Charged', Callers) = Total(Charged, Callers)
    BY <1>3, <1>8
  <2>2. at'[t] # "casVirtual"
    BY <1>6
  <2> QED
    BY <1>1, <1>6, <2>1, <2>2 DEF VirtualInv, Plus
<1>10. ASSUME ~freeRaced' PROVE SplitInv'
  <2>1. /\ ~freeRaced /\ SplitInv /\ \A u \in Callers : ~Freeing(u)
    BY <1>1, <1>10 DEF SplitInv, Freeing, Quiet
  <2>2. /\ l <= physical /\ physical <= PhysicalCap /\ (swap > 0 => physical = PhysicalCap)
        /\ physical + swap + Total(Owed, Callers) = virtual
    BY <1>1, <2>1 DEF SplitInv
  <2>3. physical + swap + s < Modulus
    BY <1>1, <1>7, <2>1, OwedFits
  <2>4. l + s < Modulus /\ Plus(l, s) = l + s /\ (Fits(t) <=> l + s <= PhysicalCap)
    <3>1. l + s < Modulus
      BY <1>3, <2>2, <2>3
    <3> QED
      BY <1>3, <3>1, WordArithmetic DEF Fits
  <2>5. /\ physical' \in Nat /\ physical <= physical' /\ physical' <= PhysicalCap
        /\ physical = PhysicalCap => physical' = PhysicalCap
        /\ next = "addSwap" => physical' = PhysicalCap
        /\ physical' + Owed'[t] = physical + s
        /\ Owed'[t] \in Int
    <3>1. CASE /\ Fits(t) /\ physical = l
               /\ physical' = Plus(physical, s) /\ next = "held" /\ rest = 0
      <4>1. Owed'[t] = 0 /\ physical' = l + s
        BY <1>6, <2>4, <3>1 DEF Owed
      <4> QED
        BY <1>3, <2>4, <3>1, <4>1
    <3>2. CASE /\ ~Fits(t) /\ l >= PhysicalCap
               /\ physical' = physical /\ next = "addSwap" /\ rest = s
      <4>1. Owed'[t] = s
        BY <1>6, <3>2 DEF Owed
      <4> QED
        BY <1>3, <2>2, <3>2, <4>1
    <3>3. CASE /\ ~Fits(t) /\ l < PhysicalCap /\ physical = l
               /\ physical' = PhysicalCap /\ next = "addSwap"
               /\ rest = Minus(s, PhysicalCap - l)
      <4>1. PhysicalCap - l \in Nat /\ PhysicalCap - l <= s
        BY <1>3, <2>4, <3>3
      <4>2. rest = s - (PhysicalCap - l)
        BY <1>3, <3>3, <4>1, WordArithmetic
      <4>3. Owed'[t] = rest
        BY <1>6, <3>3 DEF Owed
      <4> QED
        BY <1>3, <3>3, <4>1, <4>2, <4>3
    <3>4. CASE physical' = physical /\ next = "loadPhysical" /\ rest = 0
      <4>1. Owed'[t] = s
        BY <1>1, <1>6, <3>4 DEF Owed
      <4> QED
        BY <1>3, <2>2, <3>4, <4>1
    <3> QED
      BY <1>2, <3>1, <3>2, <3>3, <3>4
  <2>6. physical' + swap' + Total(Owed', Callers) = virtual'
    <3> DEFINE p1 == physical'
               o1 == Owed'[t]
               T1 == Total(Owed', Callers)
    <3>1. p1 \in Int /\ o1 \in Int /\ p1 + o1 = physical + s
      BY <2>5
    <3>2. T1 = Total(Owed, Callers) - s + o1
      BY <1>8
    <3> HIDE DEF p1, o1, T1
    <3>3. p1 + swap + T1 = virtual
      BY <1>3, <1>8, <2>2, <3>1, <3>2
    <3> QED
      BY <1>1, <3>3 DEF p1, T1
  <2>7. ASSUME NEW u \in Callers
        PROVE  /\ ~Freeing(u)'
               /\ at'[u] = "casPhysical" => local'[u] <= physical'
               /\ at'[u] = "addSwap" => physical' = PhysicalCap
               /\ at'[u] # "freeSwap" /\ at'[u] # "freePhysical"
    <3>1. CASE u = t
      BY <1>6, <2>5, <3>1 DEF Freeing
    <3>2. CASE u # t
      <4>1. /\ ~Freeing(u) /\ at'[u] = at[u] /\ local'[u] = local[u] /\ local[u] \in Nat
            /\ at[u] = "casPhysical" => local[u] <= physical
            /\ at[u] = "addSwap" => physical = PhysicalCap
        BY <1>6, <2>1, <3>2, OversubNumbers DEF SplitInv
      <4> QED
        BY <1>3, <2>5, <4>1 DEF Freeing
    <3> QED
      BY <3>1, <3>2
  <2>8. swap' > 0 => physical' = PhysicalCap
    BY <1>1, <2>2, <2>5
  <2> QED
    BY <2>5, <2>6, <2>7, <2>8 DEF SplitInv
<1> QED
  BY <1>5, <1>9, <1>10

LEMMA AddSwapStep ==
  ASSUME OversubInv, NEW t \in Callers, AddSwap(t)
  PROVE  OversubInv'
<1> USE DEF OversubInv
<1>1. /\ at[t] = "addSwap" /\ swap' = Plus(swap, local[t])
      /\ at' = [at EXCEPT ![t] = "held"] /\ local' = [local EXCEPT ![t] = 0]
      /\ UNCHANGED <<virtual, physical, amount, freeRaced>>
  BY DEF AddSwap, Goto, GotoWith
<1>2. /\ local[t] \in Nat /\ amount[t] \in Nat /\ Modulus \in Nat
      /\ virtual \in Nat /\ physical \in Nat /\ swap \in Nat
  BY OversubNumbers
<1>3. OversubTypeOK'
  <2>1. 0 \in Word
    BY OversubAssumption DEF Word
  <2> QED
    BY <1>1, <1>2, <2>1, WordArithmetic DEF OversubTypeOK, PCs
<1>4. /\ at'[t] = "held" /\ \A u \in Callers \ {t} : at'[u] = at[u] /\ local'[u] = local[u]
  BY <1>1 DEF OversubTypeOK
<1>5. /\ Charged[t] = amount[t] /\ Charged'[t] = amount[t] /\ Owed[t] = local[t] /\ Owed'[t] = 0
  BY <1>1, <1>4 DEF Charged, Owed
<1>6. /\ Total(Charged, Callers) \in Nat /\ Total(Owed, Callers) \in Int
      /\ Total(Charged', Callers) = Total(Charged, Callers) - amount[t] + amount[t]
      /\ Total(Owed', Callers) = Total(Owed, Callers) - local[t] + 0
  BY <1>1, <1>3, <1>4, <1>5, OneCall
<1>7. VirtualInv'
  <2>1. Total(Charged', Callers) = Total(Charged, Callers)
    BY <1>2, <1>6
  <2> QED
    BY <1>1, <1>4, <2>1 DEF VirtualInv, Plus
<1>8. ASSUME ~freeRaced' PROVE SplitInv'
  <2>1. /\ ~freeRaced /\ SplitInv /\ \A u \in Callers : ~Freeing(u)
    BY <1>1, <1>8 DEF SplitInv, Freeing, Quiet
  <2>2. /\ physical = PhysicalCap /\ physical + swap + Total(Owed, Callers) = virtual
    BY <1>1, <2>1 DEF SplitInv
  <2>3. physical + swap + local[t] < Modulus
    BY <1>1, <1>5, <2>1, OwedFits
  <2>4. swap' = swap + local[t]
    <3>1. swap + local[t] < Modulus
      BY <1>2, <2>3
    <3> QED
      BY <1>1, <1>2, <3>1, WordArithmetic
  <2>5. physical' + swap' + Total(Owed', Callers) = virtual'
    <3>1. physical + (swap + local[t]) + (Total(Owed, Callers) - local[t] + 0) = virtual
      BY <1>2, <1>6, <2>2
    <3> QED
      BY <1>1, <1>6, <2>4, <3>1
  <2>6. physical' <= PhysicalCap /\ (swap' > 0 => physical' = PhysicalCap)
    BY <1>1, <1>2, <2>2
  <2> QED
    BY <1>1, <1>4, <2>1, <2>5, <2>6 DEF SplitInv, Freeing
<1> QED
  BY <1>3, <1>7, <1>8

(* Free starts: it is alone, or freeRaced is set.                          *)
LEMMA SubVirtualStep ==
  ASSUME OversubInv, NEW t \in Callers, SubVirtual(t)
  PROVE  OversubInv'
<1> USE DEF OversubInv
<1>1. /\ at[t] = "held" /\ virtual' = Minus(virtual, amount[t])
      /\ at' = [at EXCEPT ![t] = "loadSwap"] /\ local' = [local EXCEPT ![t] = 0]
      /\ freeRaced' = (freeRaced \/ InCall # {})
      /\ UNCHANGED <<physical, swap, amount>>
  BY DEF SubVirtual, Goto, GotoWith
<1>2. /\ amount[t] \in Nat /\ VirtualCap \in Nat /\ VirtualCap + amount[t] < Modulus /\ Modulus \in Nat
      /\ virtual \in Nat /\ physical \in Nat /\ swap \in Nat
  BY OversubNumbers
<1>3. OversubTypeOK'
  <2>1. 0 \in Word
    BY OversubAssumption DEF Word
  <2> QED
    BY <1>1, <1>2, <2>1, WordArithmetic DEF OversubTypeOK, PCs
<1>4. /\ at'[t] = "loadSwap" /\ \A u \in Callers \ {t} : at'[u] = at[u] /\ local'[u] = local[u]
  BY <1>1 DEF OversubTypeOK
<1>5. /\ Charged[t] = amount[t] /\ Charged'[t] = 0 /\ Owed[t] = 0 /\ Owed'[t] = 0 - amount[t]
  BY <1>1, <1>4 DEF Charged, Owed
<1>6. /\ Total(Charged, Callers) \in Nat /\ Total(Owed, Callers) \in Int
      /\ amount[t] <= Total(Charged, Callers)
      /\ Total(Charged', Callers) = Total(Charged, Callers) - amount[t] + 0
      /\ Total(Owed', Callers) = Total(Owed, Callers) - 0 + (0 - amount[t])
  BY <1>1, <1>3, <1>4, <1>5, OneCall
<1>7. virtual' = virtual - amount[t]
  <2>1. amount[t] <= virtual /\ virtual < Modulus
    BY <1>2, <1>6 DEF VirtualInv
  <2> QED
    BY <1>1, <1>2, <2>1, WordArithmetic
<1>8. VirtualInv'
  BY <1>1, <1>2, <1>4, <1>6, <1>7 DEF VirtualInv, Plus
<1>9. ASSUME ~freeRaced' PROVE SplitInv'
  <2>1. ~freeRaced /\ \A u \in Callers : Quiet(u)
    BY <1>1, <1>9 DEF InCall, Quiet
  <2>2. physical' + swap' + Total(Owed', Callers) = virtual'
    <3>1. physical + swap + Total(Owed, Callers) = virtual
      BY <2>1 DEF SplitInv
    <3>2. physical + swap + (Total(Owed, Callers) - 0 + (0 - amount[t])) = virtual - amount[t]
      BY <1>2, <1>6, <3>1
    <3> QED
      BY <1>1, <1>6, <1>7, <3>2
  <2>3. \A u \in Callers \ {t} : Quiet(u)'
    BY <1>4, <2>1 DEF Quiet
  <2> QED
    BY <1>1, <1>4, <2>1, <2>2, <2>3 DEF SplitInv, Freeing, Quiet
<1> QED
  BY <1>3, <1>8, <1>9

LEMMA LoadSwapStep ==
  ASSUME OversubInv, NEW t \in Callers, LoadSwap(t)
  PROVE  OversubInv'
<1> USE DEF OversubInv
<1>1. /\ at[t] = "loadSwap" /\ at' = [at EXCEPT ![t] = "freeSwap"]
      /\ local' = [local EXCEPT ![t] = swap]
      /\ UNCHANGED <<virtual, physical, swap, amount, freeRaced>>
  BY DEF LoadSwap, GotoWith
<1>2. OversubTypeOK'
  BY <1>1 DEF OversubTypeOK, PCs
<1>3. /\ at'[t] = "freeSwap" /\ local'[t] = swap
      /\ \A u \in Callers \ {t} : at'[u] = at[u] /\ local'[u] = local[u]
  BY <1>1 DEF OversubTypeOK
<1>4. \A u \in Callers : Charged'[u] = Charged[u] /\ Owed'[u] = Owed[u]
  BY <1>1, <1>3 DEF Charged, Owed
<1>5. Charged' = Charged /\ Owed' = Owed
  BY <1>4 DEF Charged, Owed
<1>6. VirtualInv'
  BY <1>1, <1>3, <1>5 DEF VirtualInv, Plus
<1>7. ASSUME ~freeRaced' PROVE SplitInv'
  <2>1. \A u \in Callers \ {t} : Quiet(u) /\ ~Freeing(u) /\ Quiet(u)' /\ ~Freeing(u)'
    BY <1>1, <1>3, <1>7 DEF SplitInv, Freeing, Quiet
  <2> QED
    BY <1>1, <1>3, <1>5, <1>7, <2>1 DEF SplitInv, Freeing, Quiet
<1> QED
  BY <1>2, <1>6, <1>7

LEMMA FreeSwapStep ==
  ASSUME OversubInv, NEW t \in Callers, FreeSwap(t)
  PROVE  OversubInv'
<1> USE DEF OversubInv
<1> DEFINE s == amount[t]
           l == local[t]
<1>1. /\ at[t] = "freeSwap" /\ UNCHANGED <<virtual, amount, freeRaced>>
  BY DEF FreeSwap
<1>2. /\ s \in Nat /\ s > 0 /\ l \in Nat /\ l < Modulus /\ Modulus \in Nat /\ PhysicalCap \in Nat
      /\ virtual \in Nat /\ physical \in Nat /\ swap \in Nat
      /\ swap < Modulus /\ physical < Modulus /\ s < Modulus
  <2>1. s \in Nat /\ s > 0 /\ VirtualCap \in Nat /\ VirtualCap + s < Modulus /\ Modulus \in Nat
    BY OversubNumbers
  <2>2. s < Modulus
    BY <2>1
  <2> QED
    BY <2>1, <2>2, OversubNumbers DEF OversubTypeOK, Word
<1>3. PICK next \in {"idle", "freePhysical"}, rest \in {0, s - l} :
        /\ at' = [at EXCEPT ![t] = next] /\ local' = [local EXCEPT ![t] = rest]
        /\ \/ /\ l >= s /\ swap' = Minus(swap, s) /\ physical' = physical
              /\ next = "idle" /\ rest = 0
           \/ /\ 0 < l /\ l < s /\ swap' = 0 /\ physical' = physical
              /\ next = "freePhysical" /\ rest = s - l
           \/ /\ l = 0 /\ physical' = Minus(physical, s) /\ swap' = swap
              /\ next = "idle" /\ rest = 0
  BY DEF FreeSwap, Goto, GotoWith
<1>4. rest \in Word /\ physical' \in Word /\ swap' \in Word
  <2>1. /\ 0 \in Word /\ physical \in Word /\ swap \in Word
        /\ Minus(swap, s) \in Word /\ Minus(physical, s) \in Word
    BY <1>2, WordArithmetic DEF Word
  <2>2. l < s => s - l \in Word
    BY <1>2 DEF Word
  <2> QED
    BY <1>3, <2>1, <2>2
<1>5. OversubTypeOK'
  BY <1>1, <1>3, <1>4 DEF OversubTypeOK, PCs
<1>6. /\ at'[t] = next /\ local'[t] = rest
      /\ \A u \in Callers \ {t} : at'[u] = at[u] /\ local'[u] = local[u]
  BY <1>1, <1>3 DEF OversubTypeOK
<1>7. /\ Charged[t] = 0 /\ Charged'[t] = 0 /\ Owed[t] = 0 - s /\ Owed'[t] = 0 - rest
  BY <1>1, <1>3, <1>6 DEF Charged, Owed
<1>8. /\ Total(Charged', Callers) = Total(Charged, Callers)
      /\ Total(Owed', Callers) = Total(Owed, Callers) - (0 - s) + (0 - rest)
  BY <1>1, <1>5, <1>6, <1>7, OneCall
<1>9. VirtualInv'
  BY <1>1, <1>6, <1>8 DEF VirtualInv, Plus
<1>10. ASSUME ~freeRaced' PROVE SplitInv'
  <2>1. SplitInv /\ l = swap /\ \A u \in Callers \ {t} : Quiet(u) /\ Quiet(u)'
    BY <1>1, <1>6, <1>10 DEF SplitInv, Freeing, Quiet
  <2>2. Total(Owed, Callers) = 0 - s
    BY <1>7, <2>1, OwedAlone
  <2>3. /\ physical + swap = virtual + s /\ physical <= PhysicalCap
        /\ swap > 0 => physical = PhysicalCap
    BY <1>2, <2>1, <2>2 DEF SplitInv
  <2>4. /\ physical' \in Nat /\ swap' \in Nat /\ rest \in Nat
        /\ physical' + swap' + (0 - rest) = virtual
        /\ physical' <= PhysicalCap /\ (swap' > 0 => physical' = PhysicalCap)
        /\ next = "freePhysical" => swap' = 0
    <3>1. CASE /\ l >= s /\ swap' = Minus(swap, s) /\ physical' = physical
               /\ next = "idle" /\ rest = 0
      <4>1. swap' = swap - s
        BY <1>2, <2>1, <3>1, WordArithmetic
      <4> QED
        BY <1>2, <2>1, <2>3, <3>1, <4>1
    <3>2. CASE /\ 0 < l /\ l < s /\ swap' = 0 /\ physical' = physical
               /\ next = "freePhysical" /\ rest = s - l
      BY <1>2, <2>1, <2>3, <3>2
    <3>3. CASE /\ l = 0 /\ physical' = Minus(physical, s) /\ swap' = swap
               /\ next = "idle" /\ rest = 0
      <4>1. s <= physical
        BY <1>2, <2>1, <2>3, <3>3
      <4>2. physical' = physical - s
        BY <1>2, <3>3, <4>1, WordArithmetic
      <4> QED
        <5>1. /\ physical - s \in Nat /\ swap = 0 /\ (physical - s) + 0 + (0 - 0) = virtual
              /\ physical - s <= PhysicalCap
          BY <1>2, <2>1, <2>3, <3>3, <4>1
        <5>2. physical' = physical - s /\ swap' = 0 /\ rest = 0 /\ next = "idle"
          BY <3>3, <4>2, <5>1
        <5> QED
          BY <5>1, <5>2
    <3> QED
      BY <1>3, <3>1, <3>2, <3>3
  <2>5. physical' + swap' + Total(Owed', Callers) = virtual'
    <3>1. Total(Owed', Callers) = 0 - rest
      BY <1>2, <1>8, <2>2, <2>4
    <3> QED
      BY <1>1, <2>4, <3>1
  <2>6. ASSUME NEW u \in Callers
        PROVE  /\ Freeing(u)' => \A v \in Callers \ {u} : Quiet(v)'
               /\ at'[u] = "casPhysical" => local'[u] <= physical'
               /\ at'[u] = "addSwap" => physical' = PhysicalCap
               /\ at'[u] = "freeSwap" => local'[u] = swap'
               /\ at'[u] = "freePhysical" => swap' = 0
    BY <1>6, <2>1, <2>4 DEF Freeing, Quiet
  <2> QED
    BY <2>4, <2>5, <2>6 DEF SplitInv
<1> QED
  BY <1>5, <1>9, <1>10

LEMMA FreePhysicalStep ==
  ASSUME OversubInv, NEW t \in Callers, FreePhysical(t)
  PROVE  OversubInv'
<1> USE DEF OversubInv
<1> DEFINE l == local[t]
<1>1. /\ at[t] = "freePhysical" /\ physical' = Minus(physical, l)
      /\ at' = [at EXCEPT ![t] = "idle"] /\ local' = [local EXCEPT ![t] = 0]
      /\ UNCHANGED <<virtual, swap, amount, freeRaced>>
  BY DEF FreePhysical, Goto, GotoWith
<1>2. /\ l \in Nat /\ Modulus \in Nat /\ PhysicalCap \in Nat
      /\ virtual \in Nat /\ physical \in Nat /\ swap \in Nat /\ physical < Modulus
  BY OversubNumbers DEF OversubTypeOK, Word
<1>3. OversubTypeOK'
  <2>1. 0 \in Word
    BY OversubAssumption DEF Word
  <2> QED
    BY <1>1, <1>2, <2>1, WordArithmetic DEF OversubTypeOK, PCs
<1>4. /\ at'[t] = "idle" /\ \A u \in Callers \ {t} : at'[u] = at[u] /\ local'[u] = local[u]
  BY <1>1 DEF OversubTypeOK
<1>5. Charged[t] = 0 /\ Charged'[t] = 0 /\ Owed[t] = 0 - l /\ Owed'[t] = 0
  BY <1>1, <1>4 DEF Charged, Owed
<1>6. /\ Total(Charged', Callers) = Total(Charged, Callers)
      /\ Total(Owed', Callers) = Total(Owed, Callers) - (0 - l) + 0
  BY <1>1, <1>3, <1>4, <1>5, OneCall
<1>7. VirtualInv'
  BY <1>1, <1>4, <1>6 DEF VirtualInv, Plus
<1>8. ASSUME ~freeRaced' PROVE SplitInv'
  <2>1. SplitInv /\ swap = 0 /\ \A u \in Callers \ {t} : Quiet(u) /\ Quiet(u)'
    BY <1>1, <1>4, <1>8 DEF SplitInv, Freeing, Quiet
  <2>2. Total(Owed, Callers) = 0 - l
    BY <1>5, <2>1, OwedAlone
  <2>3. physical - l = virtual /\ l <= physical /\ physical <= PhysicalCap
    BY <1>2, <2>1, <2>2 DEF SplitInv
  <2>4. physical' = physical - l
    BY <1>1, <1>2, <2>3, WordArithmetic
  <2>5. Total(Owed', Callers) = 0
    BY <1>2, <1>6, <2>2
  <2>6. physical' + swap' + Total(Owed', Callers) = virtual'
    BY <1>1, <1>2, <2>1, <2>3, <2>4, <2>5
  <2>7. physical' <= PhysicalCap /\ swap' = 0
    BY <1>1, <1>2, <2>1, <2>3, <2>4
  <2>8. \A u \in Callers : Quiet(u)'
    BY <1>4, <2>1 DEF Quiet
  <2> QED
    BY <2>6, <2>7, <2>8 DEF SplitInv, Freeing, Quiet
<1> QED
  BY <1>3, <1>7, <1>8

LEMMA OversubStep ==
  ASSUME OversubInv, [OversubNext]_oversubVars
  PROVE  OversubInv'
<1>1. CASE OversubNext
  <2>1. ASSUME NEW t \in Callers,
               \/ LoadVirtual(t) \/ CasVirtual(t) \/ LoadPhysical(t)
               \/ CasPhysical(t) \/ AddSwap(t) \/ SubVirtual(t)
               \/ LoadSwap(t) \/ FreeSwap(t) \/ FreePhysical(t)
        PROVE  OversubInv'
    BY <2>1, LoadVirtualStep, CasVirtualStep, LoadPhysicalStep, CasPhysicalStep, AddSwapStep,
       SubVirtualStep, LoadSwapStep, FreeSwapStep, FreePhysicalStep
  <2> QED
    BY <1>1, <2>1 DEF OversubNext
<1>2. CASE UNCHANGED oversubVars
  <2>1. Charged' = Charged /\ Owed' = Owed
    BY <1>2 DEF oversubVars, Charged, Owed
  <2> QED
    BY <1>2, <2>1 DEF oversubVars, OversubInv, OversubTypeOK, VirtualInv, SplitInv,
                      Freeing, Quiet, Plus
<1> QED
  BY <1>1, <1>2

(* The inductive invariant holds.                                          *)
LEMMA OversubInvariant == OversubSpec => []OversubInv
<1>1. OversubInit => OversubInv
  BY OversubStart
<1>2. OversubInv /\ [OversubNext]_oversubVars => OversubInv'
  BY OversubStep
<1> QED
  BY <1>1, <1>2, PTL DEF OversubSpec

(* Type correctness of the counters.                                       *)
THEOREM OversubTypeCorrect == OversubSpec => []OversubTypeOK
<1>1. OversubInv => OversubTypeOK
  BY DEF OversubInv
<1> QED
  BY <1>1, OversubInvariant, PTL

(* Alloc and Free: virtualUsedMiB is the sum of the allocations granted    *)
(* and not freed, within the limit, for any number of threads and sizes,   *)
(* whatever races; so it never wraps either.                               *)
THEOREM VirtualIsExact == OversubSpec => []VirtualExact
<1>1. OversubInv => VirtualExact
  BY HeldIsTotal DEF OversubInv, VirtualInv, VirtualExact
<1> QED
  BY <1>1, OversubInvariant, PTL

(* Alloc: physical memory is filled first and swap takes the rest, for any *)
(* interleaving of Allocs and any Free that overlaps no other call.        *)
THEOREM SplitIsExact == OversubSpec => []SplitExactUnlessFreeRaces
<1>1. ASSUME OversubInv, ~freeRaced, InCall = {}
      PROVE  /\ physical = IF Held <= PhysicalCap THEN Held ELSE PhysicalCap
             /\ swap = Held - physical
  <2>1. /\ OversubTypeOK /\ SplitInv /\ Held = virtual
    BY <1>1, HeldIsTotal DEF OversubInv, VirtualInv
  <2>2. \A t \in Callers : Owed[t] = 0
    BY <1>1 DEF InCall, Owed
  <2>3. Total(Owed, Callers) = 0
    <3>1. Total(Owed, {}) = 0 /\ IsFiniteSet(Callers)
      BY <1>1, TotalEmpty, OversubAssumption
    <3>2. Total(Owed, {}) = Total(Owed, Callers)
      BY <2>2, <3>1, TotalFilter
    <3> QED
      BY <3>1, <3>2
  <2>4. /\ physical + swap = virtual /\ physical <= PhysicalCap
        /\ swap > 0 => physical = PhysicalCap
        /\ physical \in Nat /\ swap \in Nat /\ virtual \in Nat /\ PhysicalCap \in Nat
    BY <1>1, <2>1, <2>3, OversubNumbers DEF SplitInv
  <2> QED
    BY <2>1, <2>4
<1>2. OversubInv => SplitExactUnlessFreeRaces
  BY <1>1 DEF SplitExactUnlessFreeRaces
<1> QED
  BY <1>2, OversubInvariant, PTL

(*---------------------------- the device plugin ----------------------------*)
(* What the kubelet offers is of a plugin that is up.                      *)
OfferInv ==
  /\ kubelet # "unknown" => plugin = "ready"
  /\ kubelet # "connected" => offered = {}
  /\ offered \subseteq {d.id : d \in devices}

(* A slice is of the GPU whose number it has, while no GPU has moved.      *)
IsSlice(id, g) == id[1] = Number(g, GPUs)
SliceInv ==
  /\ ~moved => \A g \in present : Number(g, present) = Number(g, GPUs)
  /\ \A d \in devices : /\ d.id[2] \in 0 .. slicesPerGPU - 1
                        /\ d.memory = MemoryMiB[d.uuid] \div slicesPerGPU
                        /\ ~moved => IsSlice(d.id, d.uuid)

(* A pod has slices of its own, and its variables are the answer of the    *)
(* plugin for them before those it was created or admitted with.           *)
NumbersIn(slices) == {id[1] : id \in slices}
AnswerFor(slices, limitMiB) ==
  <<Var("LD_PRELOAD", LibVGPU),
    Var("NVIDIA_VISIBLE_DEVICES", NumbersIn(slices)),
    Var("VGPU_MEMORY_LIMIT_MIB", limitMiB)>>
GivenTo(q, slices, limitMiB) == AnswerFor(slices, limitMiB) \o q.containers[1].env
Answered(p) ==
  /\ env[p] = GivenTo(pod[p], ids[p], env[p][3].value)
  /\ ~moved => \A g \in GPUs :
       (\A id \in ids[p] : IsSlice(id, g))
         => env[p][3].value = Cardinality(ids[p]) * (MemoryMiB[g] \div slicesPerGPU)
GrantInv ==
  /\ \A p, q \in Pods : p # q => ids[p] \cap ids[q] = {}
  /\ \A p \in Pods : phase[p] # "none" => pod[p] \in Admitted(p)
  /\ \A p \in Pods : ids[p] # {} => phase[p] \in {"allocated", "running"} /\ Answered(p)
  /\ \A p \in Pods : \A id \in ids[p] :
       id[2] \in 0 .. slicesPerGPU - 1 /\ (~moved => \E g \in GPUs : IsSlice(id, g))

PluginInv == PluginTypeOK /\ OfferInv /\ SliceInv /\ GrantInv /\ GrantVisible

(*------------------------- the numbers of the GPUs -------------------------*)
LEMMA SlotIs ==
  /\ IsFiniteSet(GPUs)
  /\ \A g \in GPUs : Slot(g) \in DOMAIN Bus /\ Bus[Slot(g)] = g
  /\ \A i \in DOMAIN Bus : Bus[i] \in GPUs /\ Slot(Bus[i]) = i
  /\ \A g \in GPUs : Slot(g) \in Nat \ {0}
<1>1. Bus \in Seq(GPUs) /\ \A i, j \in DOMAIN Bus : Bus[i] = Bus[j] => i = j
  BY PluginAssumption DEF IsInjective
<1>2. DOMAIN Bus = 1 .. Len(Bus) /\ Len(Bus) \in Nat
  BY <1>1
<1>3. \A i \in DOMAIN Bus : Bus[i] \in GPUs /\ Slot(Bus[i]) = i
  BY <1>1 DEF Slot, GPUs, Range
<1>4. \A g \in GPUs : Slot(g) \in DOMAIN Bus /\ Bus[Slot(g)] = g
  BY <1>3 DEF GPUs, Range
<1>5. IsFiniteSet(GPUs)
  <2>1. Bus \in Surjection(1 .. Len(Bus), GPUs)
    BY <1>1, <1>2 DEF Surjection, GPUs, Range
  <2>2. IsFiniteSet(1 .. Len(Bus))
    BY <1>2, FS_Interval
  <2> QED
    BY <2>1, <2>2, FS_Surjection
<1>6. \A g \in GPUs : Slot(g) \in Nat \ {0}
  BY <1>2, <1>4
<1> QED
  BY <1>3, <1>4, <1>5, <1>6

(* They are given out from 0 in the order of the bus.                      *)
Below(g, gs) == {h \in gs : Slot(h) < Slot(g)}

LEMMA NumberBelow ==
  ASSUME NEW gs \in SUBSET GPUs, NEW g \in GPUs
  PROVE  /\ IsFiniteSet(gs) /\ Cardinality(gs) \in Nat
         /\ IsFiniteSet(Below(g, gs)) /\ Number(g, gs) \in Nat
         /\ Number(g, gs) = Cardinality(Below(g, gs))
         /\ g \in gs => Number(g, gs) < Cardinality(gs)
<1>1. IsFiniteSet(gs) /\ Cardinality(gs) \in Nat
  BY SlotIs, FS_Subset, FS_CardinalityType
<1>2. Below(g, gs) \in SUBSET gs
  BY DEF Below
<1>3. /\ IsFiniteSet(Below(g, gs)) /\ Cardinality(Below(g, gs)) \in Nat
      /\ Cardinality(Below(g, gs)) <= Cardinality(gs)
      /\ Cardinality(Below(g, gs)) = Cardinality(gs) => Below(g, gs) = gs
  BY <1>1, <1>2, FS_Subset, FS_CardinalityType
<1>4. g \notin Below(g, gs)
  BY SlotIs DEF Below
<1>5. Number(g, gs) = Cardinality(Below(g, gs))
  BY DEF Number, Below
<1> QED
  BY <1>1, <1>3, <1>4, <1>5

LEMMA NumberGrows ==
  ASSUME NEW gs \in SUBSET GPUs, NEW g \in gs, NEW h \in gs, Slot(g) < Slot(h)
  PROVE  Number(g, gs) < Number(h, gs)
<1>1. Below(g, gs) \in SUBSET Below(h, gs) /\ g \in Below(h, gs) /\ g \notin Below(g, gs)
  BY SlotIs DEF Below
<1>2. IsFiniteSet(Below(h, gs)) /\ Number(h, gs) = Cardinality(Below(h, gs)) /\ Number(h, gs) \in Nat
      /\ Number(g, gs) = Cardinality(Below(g, gs)) /\ Number(g, gs) \in Nat
  BY NumberBelow
<1>3. /\ Cardinality(Below(g, gs)) <= Cardinality(Below(h, gs))
      /\ Cardinality(Below(h, gs)) = Cardinality(Below(g, gs)) => Below(h, gs) = Below(g, gs)
  BY <1>1, <1>2, FS_Subset
<1> QED
  BY <1>1, <1>2, <1>3

LEMMA NumberInjective ==
  ASSUME NEW gs \in SUBSET GPUs, NEW g \in gs, NEW h \in gs, Number(g, gs) = Number(h, gs)
  PROVE  g = h
<1>1. Slot(g) \in Nat /\ Slot(h) \in Nat /\ (Slot(g) = Slot(h) => g = h)
  BY SlotIs
<1>2. ~(Slot(g) < Slot(h)) /\ ~(Slot(h) < Slot(g))
  BY NumberGrows, NumberBelow
<1> QED
  BY <1>1, <1>2

(* Every number below that of the GPUs is given out.                       *)
LEMMA NumberSurjective ==
  ASSUME NEW gs \in SUBSET GPUs, NEW i \in Nat, i < Cardinality(gs)
  PROVE  \E g \in gs : Number(g, gs) = i
<1> DEFINE n == Cardinality(gs)
           f == [g \in gs |-> Number(g, gs)]
<1>0. n \in Nat
  BY SlotIs, FS_Subset, FS_CardinalityType
<1>1. \A g \in gs : Number(g, gs) \in 0 .. n - 1
  <2>1. TAKE g \in gs
  <2>2. Number(g, gs) \in Nat /\ Number(g, gs) < n
    BY NumberBelow
  <2> HIDE DEF n
  <2> QED
    BY <1>0, <2>2
<1>2. IsFiniteSet(0 .. n - 1) /\ Cardinality(0 .. n - 1) = n
  <2> HIDE DEF n
  <2>1. n - 1 \in Int
    BY <1>0
  <2>2. /\ IsFiniteSet(0 .. n - 1)
        /\ Cardinality(0 .. n - 1) = IF 0 > n - 1 THEN 0 ELSE n - 1 - 0 + 1
    BY <2>1, FS_Interval
  <2> QED
    BY <1>0, <2>2
<1>3. f \in [gs -> 0 .. n - 1]
  BY <1>1
<1>4. \A g, h \in gs : f[g] = f[h] => g = h
  BY NumberInjective
<1>5. f \in Injection(gs, 0 .. n - 1)
  BY <1>3, <1>4, Zenon DEF Injection, IsInjective
<1>6. f \in Surjection(gs, 0 .. n - 1)
  <2> HIDE DEF f
  <2> QED
    BY <1>2, <1>5, FS_Injection
<1>7. \A k \in 0 .. n - 1 : \E g \in gs : f[g] = k
  BY <1>6 DEF Surjection
<1>8. i \in 0 .. n - 1
  BY <1>0
<1> QED
  BY <1>7, <1>8

(* With all GPUs there, the number is the place on the bus.                *)
LEMMA NumberIsPlace ==
  ASSUME NEW g \in GPUs
  PROVE  Number(g, GPUs) = Slot(g) - 1 /\ Bus[Number(g, GPUs) + 1] = g
<1> DEFINE k == Slot(g) - 1
           f == [i \in 1 .. k |-> Bus[i]]
<1>1. k \in Nat /\ Slot(g) \in 1 .. Len(Bus) /\ DOMAIN Bus = 1 .. Len(Bus) /\ Len(Bus) \in Nat
  BY SlotIs, PluginAssumption
<1>2. \A i \in 1 .. k : i \in DOMAIN Bus /\ i < Slot(g)
  BY <1>1
<1>3. f \in [1 .. k -> Below(g, GPUs)]
  BY <1>2, SlotIs DEF Below
<1>4. \A i, j \in 1 .. k : f[i] = f[j] => i = j
  BY <1>2, PluginAssumption DEF IsInjective
<1>5. \A h \in Below(g, GPUs) : \E i \in 1 .. k : f[i] = h
  <2>1. TAKE h \in Below(g, GPUs)
  <2>2. h \in GPUs /\ Slot(h) < Slot(g) /\ Slot(h) \in Nat \ {0} /\ Slot(h) \in DOMAIN Bus /\ Bus[Slot(h)] = h
    BY SlotIs DEF Below
  <2>3. Slot(h) \in 1 .. k
    BY <1>1, <2>2
  <2>4. f[Slot(h)] = h
    BY <2>2, <2>3
  <2> QED
    BY <2>3, <2>4
<1>6. f \in Bijection(1 .. k, Below(g, GPUs))
  BY <1>3, <1>4, <1>5 DEF Bijection, Injection, Surjection, IsInjective
<1> HIDE DEF k, f
<1>7. IsFiniteSet(1 .. k) /\ Cardinality(1 .. k) = k
  <2>1. Cardinality(1 .. k) = (IF 1 > k THEN 0 ELSE k - 1 + 1)
    BY <1>1, FS_Interval
  <2>2. IsFiniteSet(1 .. k)
    BY <1>1, FS_Interval
  <2> QED
    BY <1>1, <2>1, <2>2
<1>8. Cardinality(Below(g, GPUs)) = k
  <2>1. ExistsBijection(1 .. k, Below(g, GPUs))
    BY <1>6 DEF ExistsBijection
  <2> QED
    BY <1>7, <2>1, FS_Bijection
<1>9. Number(g, GPUs) = k
  BY <1>8, NumberBelow
<1> QED
  BY <1>9, <1>1, SlotIs DEF k

(*------------------------------ environments -------------------------------*)
(* The last entry of a name is the one in force.                           *)
IsLast(list, i, name) ==
  /\ i \in DOMAIN list /\ list[i].name = name
  /\ \A j \in DOMAIN list : i < j => list[j].name # name

LEMMA LastInForce ==
  ASSUME NEW list, DOMAIN list \subseteq Int, NEW i, NEW name, IsLast(list, i, name)
  PROVE  \A default : Getenv(list, name, default) = list[i].value
<1> DEFINE Of == {j \in DOMAIN list : list[j].name = name}
<1>1. i \in Of /\ \A j \in Of : i >= j
  BY DEF IsLast
<1>2. Max(Of) = i
  <2>1. Of \subseteq Int
    OBVIOUS
  <2> HIDE DEF Of
  <2>2. \A k \in Of : (\A j \in Of : k >= j) => k = i
    BY <1>1, <2>1
  <2> QED
    BY <1>1, <2>2 DEF Max
<1>3. \A default : Getenv(list, name, default) = IF Of = {} THEN default ELSE list[Max(Of)].value
  BY DEF Getenv
<1> HIDE DEF Of
<1> QED
  BY <1>1, <1>2, <1>3

Own(p) == Template[p].containers[1].env

LEMMA Created ==
  ASSUME NEW p \in Pods
  PROVE  /\ Own(p) \in Seq(Range(Own(p))) /\ Len(Own(p)) \in Nat
         /\ DOMAIN Own(p) = 1 .. Len(Own(p))
         /\ InjectedAt \notin Template[p].annotations
         /\ \A name : Sets(p, name) <=> \E i \in 1 .. Len(Own(p)) : Own(p)[i].name = name
<1>1. Own(p) \in Seq(Range(Own(p))) /\ InjectedAt \notin Template[p].annotations
  BY PluginAssumption DEF Own
<1>2. Len(Own(p)) \in Nat /\ DOMAIN Own(p) = 1 .. Len(Own(p))
  BY <1>1
<1>3. \A name : Sets(p, name) <=> \E i \in DOMAIN Own(p) : Own(p)[i].name = name
  BY DEF Sets, Own, Range
<1> QED
  BY <1>1, <1>2, <1>3

(* The webhook adds two variables at the end, or leaves the pod alone.     *)
LEMMA AdmittedEnv ==
  ASSUME NEW p \in Pods, NEW q \in Admitted(p)
  PROVE  \/ q.containers[1].env = Own(p) /\ InjectedAt \notin q.annotations
         \/ q.containers[1].env = Inject(Own(p))
<1>1. CASE q = Template[p]
  BY <1>1, Created DEF Own
<1>2. CASE q # Template[p]
  <2> DEFINE c == Template[p].containers[1]
  <2>1. q = MutatePod(Template[p]) /\ hasVGPU(Template[p])
    BY <1>2 DEF Admitted, MutatePod
  <2>2. q.containers = [i \in DOMAIN Template[p].containers |->
                          [Template[p].containers[i] EXCEPT !.env = Inject(@)]]
    BY <2>1 DEF MutatePod
  <2>3. DOMAIN Template[p].containers = {1} /\ "env" \in DOMAIN c
    BY PluginAssumption
  <2>4. q.containers[1] = [c EXCEPT !.env = Inject(@)]
    BY <2>2, <2>3
  <2> HIDE DEF c
  <2>5. q.containers[1].env = Inject(c.env)
    BY <2>3, <2>4
  <2> QED
    BY <2>5 DEF c, Own
<1> QED
  BY <1>1, <1>2

(* What a container has that was given slices.                             *)
LEMMA GivenEnv ==
  ASSUME NEW p \in Pods, NEW q \in Admitted(p), NEW slices, NEW limitMiB
  PROVE  /\ GivenTo(q, slices, limitMiB)[3].value = limitMiB
         /\ ~Sets(p, "NVIDIA_VISIBLE_DEVICES")
              => Getenv(GivenTo(q, slices, limitMiB), "NVIDIA_VISIBLE_DEVICES", {}) = NumbersIn(slices)
         /\ ~Sets(p, "VGPU_MEMORY_LIMIT_MIB")
              => Getenv(GivenTo(q, slices, limitMiB), "VGPU_MEMORY_LIMIT_MIB", 0) = limitMiB
         /\ (Sets(p, "LD_PRELOAD") => InjectedAt \in q.annotations)
              => \A default : Getenv(GivenTo(q, slices, limitMiB), "LD_PRELOAD", default) = LibVGPU
<1> DEFINE list == GivenTo(q, slices, limitMiB)
           n == Len(Own(p))
           visible == Var("NVIDIA_VISIBLE_DEVICES", NumbersIn(slices))
           capped == Var("VGPU_MEMORY_LIMIT_MIB", limitMiB)
           preload == Var("LD_PRELOAD", LibVGPU)
           enabled == Var("PHOENIXGPU_VGPU_ENABLED", "1")
<1>1. /\ preload.name = "LD_PRELOAD" /\ preload.value = LibVGPU
      /\ visible.name = "NVIDIA_VISIBLE_DEVICES" /\ visible.value = NumbersIn(slices)
      /\ capped.name = "VGPU_MEMORY_LIMIT_MIB" /\ capped.value = limitMiB
      /\ enabled.name = "PHOENIXGPU_VGPU_ENABLED"
  BY DEF Var
<1>2. AnswerFor(slices, limitMiB) = <<preload, visible, capped>>
  BY DEF AnswerFor
<1>3. Inject(Own(p)) = Own(p) \o <<preload, enabled>>
  BY DEF Inject
<1>4. \/ list = <<preload, visible, capped>> \o Own(p) /\ InjectedAt \notin q.annotations
      \/ list = <<preload, visible, capped>> \o (Own(p) \o <<preload, enabled>>)
  BY <1>2, <1>3, AdmittedEnv DEF GivenTo
<1>5. n \in Nat /\ Own(p) \in Seq(Range(Own(p)))
  BY Created
<1> HIDE DEF list, n, visible, capped, preload, enabled
<1> DEFINE m == Len(list)
<1>6. /\ m \in Nat /\ DOMAIN list = 1 .. m /\ m >= 3
      /\ list[1] = preload /\ list[2] = visible /\ list[3] = capped
      /\ \A i \in 1 .. n : list[3 + i] = Own(p)[i]
      /\ \/ m = 3 + n /\ InjectedAt \notin q.annotations
         \/ m = 5 + n /\ list[4 + n] = preload /\ list[5 + n] = enabled
  <2> DEFINE V == Range(Own(p)) \cup {preload, visible, capped, enabled}
  <2>1. Own(p) \in Seq(V) /\ <<preload, visible, capped>> \in Seq(V) /\ <<preload, enabled>> \in Seq(V)
    BY <1>5
  <2> HIDE DEF V
  <2>2. CASE list = <<preload, visible, capped>> \o Own(p) /\ InjectedAt \notin q.annotations
    <3>1. Len(list) = 3 + n /\ list \in Seq(V)
      BY <2>1, <2>2 DEF n
    <3>2. /\ list[1] = preload /\ list[2] = visible /\ list[3] = capped
          /\ \A i \in 1 .. n : list[3 + i] = Own(p)[i]
      BY <2>1, <2>2, <1>5 DEF n
    <3> QED
      BY <2>2, <3>1, <3>2, <1>5
  <2>3. CASE list = <<preload, visible, capped>> \o (Own(p) \o <<preload, enabled>>)
    <3> DEFINE tail == Own(p) \o <<preload, enabled>>
    <3>1. tail \in Seq(V) /\ Len(tail) = n + 2
      BY <2>1 DEF n
    <3>2. (\A i \in 1 .. n : tail[i] = Own(p)[i]) /\ tail[n + 1] = preload /\ tail[n + 2] = enabled
      BY <2>1, <1>5 DEF n
    <3> HIDE DEF tail
    <3>3. list = <<preload, visible, capped>> \o tail
      BY <2>3 DEF tail
    <3>4. Len(list) = 5 + n /\ list \in Seq(V)
      BY <2>1, <3>1, <3>3, <1>5
    <3>5. /\ list[1] = preload /\ list[2] = visible /\ list[3] = capped
          /\ \A i \in 1 .. n + 2 : list[3 + i] = tail[i]
      BY <2>1, <3>1, <3>3, <1>5
    <3>6. n + 1 \in 1 .. n + 2 /\ n + 2 \in 1 .. n + 2 /\ 3 + (n + 1) = 4 + n /\ 3 + (n + 2) = 5 + n
      BY <1>5
    <3>7. list[4 + n] = preload /\ list[5 + n] = enabled
      BY <3>2, <3>5, <3>6, Zenon
    <3>8. \A i \in 1 .. n : i \in 1 .. n + 2
      BY <1>5
    <3>9. \A i \in 1 .. n : list[3 + i] = Own(p)[i]
      BY <3>2, <3>5, <3>8, Zenon
    <3> QED
      BY <3>4, <3>5, <3>7, <3>9, <1>5
  <2> QED
    BY <1>4, <2>2, <2>3
<1> HIDE DEF m
<1>7. DOMAIN list \subseteq Int /\ 1 \in DOMAIN list /\ 2 \in DOMAIN list /\ 3 \in DOMAIN list
  BY <1>6
<1>8. ASSUME NEW i \in DOMAIN list, 3 < i
      PROVE  \/ Sets(p, list[i].name)
             \/ m = 5 + n /\ i = 4 + n
             \/ m = 5 + n /\ i = 5 + n
  <2>0. i \in Int /\ i <= m
    BY <1>6
  <2>1. CASE i <= 3 + n
    <3>1. i - 3 \in 1 .. n /\ 3 + (i - 3) = i
      BY <1>5, <1>8, <2>0, <2>1
    <3>2. list[i] = Own(p)[i - 3]
      BY <1>6, <3>1, Zenon
    <3> QED
      BY <3>1, <3>2, Created, Zenon DEF n
  <2>2. CASE ~(i <= 3 + n)
    <3>1. m = 3 + n \/ m = 5 + n
      BY <1>6
    <3> QED
      BY <1>5, <2>0, <2>2, <3>1
  <2> QED
    BY <2>1, <2>2
<1>9. \A i \in DOMAIN list : 3 < i =>
        \/ Sets(p, list[i].name)
        \/ list[i].name = "LD_PRELOAD" /\ m = 5 + n /\ i = 4 + n
        \/ list[i].name = "PHOENIXGPU_VGPU_ENABLED" /\ m = 5 + n /\ i = 5 + n
  <2>1. m = 5 + n => list[4 + n] = preload /\ list[5 + n] = enabled
    BY <1>5, <1>6
  <2> QED
    BY <1>1, <1>8, <2>1, Zenon
<1>10. \A i \in DOMAIN list : (1 < i => i = 2 \/ 2 < i) /\ (2 < i => i = 3 \/ 3 < i)
  BY <1>6
<1>11. list[3].value = limitMiB
  BY <1>1, <1>6
<1>12. ASSUME ~Sets(p, "NVIDIA_VISIBLE_DEVICES")
       PROVE  Getenv(list, "NVIDIA_VISIBLE_DEVICES", {}) = NumbersIn(slices)
  <2>5. list[3].name # "NVIDIA_VISIBLE_DEVICES"
    BY <1>1, <1>6
  <2>6. \A j \in DOMAIN list : 3 < j => list[j].name # "NVIDIA_VISIBLE_DEVICES"
    BY <1>9, <1>12
  <2>1. \A j \in DOMAIN list : 2 < j => list[j].name # "NVIDIA_VISIBLE_DEVICES"
    BY <1>10, <2>5, <2>6
  <2>2. list[2].name = "NVIDIA_VISIBLE_DEVICES"
    BY <1>1, <1>6
  <2>4. list[2].value = NumbersIn(slices)
    BY <1>1, <1>6
  <2>3. \A default : Getenv(list, "NVIDIA_VISIBLE_DEVICES", default) = list[2].value
    <3>1. IsLast(list, 2, "NVIDIA_VISIBLE_DEVICES")
      BY <1>7, <2>1, <2>2 DEF IsLast
    <3> QED
      BY <1>7, <3>1, LastInForce
  <2> QED
    BY <2>3, <2>4
<1>13. ASSUME ~Sets(p, "VGPU_MEMORY_LIMIT_MIB")
       PROVE  Getenv(list, "VGPU_MEMORY_LIMIT_MIB", 0) = limitMiB
  <2>1. \A j \in DOMAIN list : 3 < j => list[j].name # "VGPU_MEMORY_LIMIT_MIB"
    BY <1>9, <1>13
  <2>2. list[3].name = "VGPU_MEMORY_LIMIT_MIB"
    BY <1>1, <1>6
  <2>3. Getenv(list, "VGPU_MEMORY_LIMIT_MIB", 0) = list[3].value
    <3>1. IsLast(list, 3, "VGPU_MEMORY_LIMIT_MIB")
      BY <1>7, <2>1, <2>2 DEF IsLast
    <3> QED
      BY <1>7, <3>1, LastInForce
  <2> QED
    BY <1>11, <2>3
<1>14. ASSUME Sets(p, "LD_PRELOAD") => InjectedAt \in q.annotations
       PROVE  \A default : Getenv(list, "LD_PRELOAD", default) = LibVGPU
  <2>1. CASE m = 5 + n
    <3>1. 4 + n \in DOMAIN list /\ list[4 + n] = preload /\ list[5 + n] = enabled
      BY <2>1, <1>5, <1>6
    <3>2. \A j \in DOMAIN list : 4 + n < j => j = 5 + n
      BY <2>1, <1>5, <1>6
    <3>3. \A j \in DOMAIN list : 4 + n < j => list[j].name # "LD_PRELOAD"
      BY <1>1, <3>1, <3>2
    <3>4. list[4 + n].name = "LD_PRELOAD" /\ list[4 + n].value = LibVGPU
      BY <1>1, <3>1
    <3>5. \A default : Getenv(list, "LD_PRELOAD", default) = list[4 + n].value
      <4>1. IsLast(list, 4 + n, "LD_PRELOAD")
        BY <3>1, <3>3, <3>4 DEF IsLast
      <4> QED
        BY <1>7, <4>1, LastInForce
    <3> QED
      BY <3>4, <3>5
  <2>2. CASE m # 5 + n
    <3>1. ~Sets(p, "LD_PRELOAD")
      BY <1>6, <1>14, <2>2
    <3>5. list[2].name # "LD_PRELOAD" /\ list[3].name # "LD_PRELOAD"
      BY <1>1, <1>6
    <3>6. \A j \in DOMAIN list : 3 < j => list[j].name # "LD_PRELOAD"
      BY <1>9, <2>2, <3>1
    <3>2. \A j \in DOMAIN list : 1 < j => list[j].name # "LD_PRELOAD"
      BY <1>10, <3>5, <3>6
    <3>3. list[1].name = "LD_PRELOAD" /\ list[1].value = LibVGPU
      BY <1>1, <1>6
    <3>4. \A default : Getenv(list, "LD_PRELOAD", default) = list[1].value
      <4>1. IsLast(list, 1, "LD_PRELOAD")
        BY <1>7, <3>2, <3>3 DEF IsLast
      <4> QED
        BY <1>7, <4>1, LastInForce
    <3> QED
      BY <3>3, <3>4
  <2> QED
    BY <2>1, <2>2
<1> QED
  BY <1>11, <1>12, <1>13, <1>14 DEF list

(*------------------------------ type correctness ---------------------------*)
LEMMA Built ==
  ASSUME NEW gs \in SUBSET GPUs
  PROVE  /\ buildVGPUDevices(gs) \subseteq Slices
         /\ \A d \in buildVGPUDevices(gs) :
              /\ d.uuid \in gs /\ d.id[1] = Number(d.uuid, gs)
              /\ d.id[2] \in 0 .. slicesPerGPU - 1
              /\ d.memory = MemoryMiB[d.uuid] \div slicesPerGPU
         /\ \A d, e \in buildVGPUDevices(gs) : d.id = e.id => d = e
<1>1. ASSUME NEW d \in buildVGPUDevices(gs)
      PROVE  /\ d \in Slices
             /\ d.uuid \in gs /\ d.id = <<Number(d.uuid, gs), d.id[2]>>
             /\ d.id[1] = Number(d.uuid, gs)
             /\ d.id[2] \in 0 .. slicesPerGPU - 1
             /\ d.memory = MemoryMiB[d.uuid] \div slicesPerGPU
             /\ d.healthy = TRUE
  <2>1. PICK g \in gs, s \in 0 .. slicesPerGPU - 1 :
           d = [id |-> <<Number(g, gs), s>>, uuid |-> g,
                memory |-> MemoryMiB[g] \div slicesPerGPU, healthy |-> TRUE]
    BY <1>1 DEF buildVGPUDevices
  <2>2. Number(g, gs) \in Nat /\ MemoryMiB[g] \in Nat /\ slicesPerGPU \in Nat \ {0}
    BY NumberBelow, PluginAssumption
  <2>3. s \in Nat /\ MemoryMiB[g] \div slicesPerGPU \in Nat
    BY <2>2
  <2>4. d \in Slices
    BY <2>1, <2>2, <2>3 DEF Slices, SliceIDs
  <2> QED
    BY <2>1, <2>4
<1>2. ASSUME NEW d \in buildVGPUDevices(gs), NEW e \in buildVGPUDevices(gs), d.id = e.id
      PROVE  d = e
  <2>1. Number(d.uuid, gs) = Number(e.uuid, gs) /\ d.uuid \in gs /\ e.uuid \in gs
    BY <1>1, <1>2
  <2>2. d.uuid = e.uuid
    BY <2>1, NumberInjective
  <2>3. d.memory = e.memory /\ d.healthy = e.healthy
    BY <1>1, <2>2
  <2>4. d \in Slices /\ e \in Slices
    BY <1>1
  <2> QED
    BY <1>2, <2>2, <2>3, <2>4 DEF Slices
<1> QED
  BY <1>1, <1>2

LEMMA InitTyped == PluginInit => PluginTypeOK
<1> SUFFICES ASSUME PluginInit PROVE PluginTypeOK
  OBVIOUS
<1>1. /\ phase \in [Pods -> {"none", "pending", "bound", "allocated", "running"}]
      /\ pod \in [Pods -> {NoPod} \cup UNION {Admitted(p) : p \in Pods}]
      /\ ids \in [Pods -> SUBSET SliceIDs] /\ sees \in [Pods -> SUBSET GPUs]
      /\ DOMAIN env = Pods
  BY DEF PluginInit
<1> QED
  BY <1>1 DEF PluginInit, PluginTypeOK

NodeTyped ==
  /\ present \subseteq GPUs /\ moved \in BOOLEAN /\ disturbed \in BOOLEAN
  /\ plugin \in {"down", "start", "register", "ready"}
  /\ devices \subseteq Slices
  /\ \A d, e \in devices : d.id = e.id => d = e
  /\ socket \in BOOLEAN
  /\ kubelet \in {"unknown", "registered", "connected"}
  /\ offered \subseteq SliceIDs
PodsTyped ==
  /\ phase \in [Pods -> {"none", "pending", "bound", "allocated", "running"}]
  /\ pod \in [Pods -> {NoPod} \cup UNION {Admitted(p) : p \in Pods}]
  /\ ids \in [Pods -> SUBSET SliceIDs] /\ sees \in [Pods -> SUBSET GPUs]
  /\ DOMAIN env = Pods

LEMMA Parts == PluginTypeOK <=> NodeTyped /\ PodsTyped
  BY DEF PluginTypeOK, NodeTyped, PodsTyped

(* Unhealthy slices keep their names.                                      *)
LEMMA HealthNames ==
  ASSUME NodeTyped, checkHealth
  PROVE  /\ devices' \subseteq Slices
         /\ \A e \in devices' : \E d \in devices :
              e.id = d.id /\ e.uuid = d.uuid /\ e.memory = d.memory
         /\ \A d, e \in devices' : d.id = e.id => d = e
         /\ {d.id : d \in devices'} = {d.id : d \in devices}
<1>1. PICK answers \in BOOLEAN :
         devices' = {[d EXCEPT !.healthy = answers /\ d.uuid \in present] : d \in devices}
  BY DEF checkHealth
<1> DEFINE Now(d) == [d EXCEPT !.healthy = answers /\ d.uuid \in present]
<1>2. \A d \in devices : /\ Now(d) \in Slices /\ Now(d).id = d.id /\ Now(d).uuid = d.uuid
                         /\ Now(d).memory = d.memory
  BY DEF Slices, NodeTyped
<1>3. devices' = {Now(d) : d \in devices}
  BY <1>1
<1> HIDE DEF Now
<1>4. \A d, e \in devices : d.id = e.id => d = e
  BY DEF NodeTyped
<1> QED
  BY <1>2, <1>3, <1>4

LEMMA Appears ==
  ASSUME NodeTyped, GPULost \/ GPUBack
  PROVE  \E gs \in SUBSET GPUs : Appear(gs)
<1>1. ASSUME NEW g \in present, Appear(present \ {g}) PROVE \E gs \in SUBSET GPUs : Appear(gs)
  <2>1. present \ {g} \in SUBSET GPUs
    BY DEF NodeTyped
  <2> QED
    BY <1>1, <2>1
<1>2. ASSUME NEW g \in GPUs \ present, Appear(present \cup {g})
      PROVE  \E gs \in SUBSET GPUs : Appear(gs)
  <2>1. present \cup {g} \in SUBSET GPUs
    BY DEF NodeTyped
  <2> QED
    BY <1>2, <2>1
<1> QED
  BY <1>1, <1>2 DEF GPULost, GPUBack

LEMMA NodeTypedStep ==
  ASSUME NodeTyped, PluginNext
  PROVE  NodeTyped'
<1>1. CASE GPULost \/ GPUBack
  <2>1. PICK gs \in SUBSET GPUs : Appear(gs)
    BY <1>1, Appears
  <2>2. moved' \in BOOLEAN
    BY <2>1 DEF Appear, NodeTyped
  <2> QED
    BY <2>1, <2>2 DEF Appear, NodeTyped
<1>2. CASE discoverGPUs
  <2>1. present \in SUBSET GPUs /\ devices' = buildVGPUDevices(present)
    BY <1>2 DEF NodeTyped, discoverGPUs
  <2>2. devices' \subseteq Slices /\ \A d, e \in devices' : d.id = e.id => d = e
    BY <2>1, Built
  <2> QED
    BY <1>2, <2>2 DEF NodeTyped, discoverGPUs
<1>3. CASE Start \/ Register \/ Stop \/ Crash \/ ConnectFails \/ KubeletRestarts
  BY <1>3 DEF NodeTyped, Start, Register, Stop, Crash, ConnectFails, KubeletRestarts
<1>4. CASE checkHealth
  <2>1. UNCHANGED <<present, moved, plugin, socket, kubelet, offered>>
    BY <1>4 DEF checkHealth
  <2>2. disturbed' \in BOOLEAN
    BY <1>4 DEF checkHealth
  <2> QED
    BY <1>4, <2>1, <2>2, HealthNames DEF NodeTyped
<1>5. CASE ListAndWatch
  <2>1. offered' \subseteq SliceIDs
    BY <1>5 DEF ListAndWatch, NodeTyped, Slices
  <2> QED
    BY <1>5, <2>1 DEF ListAndWatch, NodeTyped
<1>6. CASE \E p \in Pods : Create(p) \/ Bind(p) \/ Allocate(p) \/ Run(p) \/ End(p)
  <2>1. UNCHANGED nodeVars
    BY <1>6 DEF Create, Bind, Allocate, Run, End
  <2> QED
    BY <2>1 DEF nodeVars, NodeTyped
<1> QED
  BY <1>1, <1>2, <1>3, <1>4, <1>5, <1>6 DEF PluginNext

LEMMA PodsTypedStep ==
  ASSUME NodeTyped, PodsTyped, PluginNext
  PROVE  PodsTyped'
<1>1. CASE UNCHANGED podVars
  BY <1>1 DEF podVars, PodsTyped
<1>2. ASSUME NEW p \in Pods, Create(p) PROVE PodsTyped'
  <2>1. PICK q \in Admitted(p) : pod' = [pod EXCEPT ![p] = q]
    BY <1>2 DEF Create
  <2>2. pod' \in [Pods -> {NoPod} \cup UNION {Admitted(r) : r \in Pods}]
    BY <2>1 DEF PodsTyped
  <2> QED
    BY <1>2, <2>2 DEF Create, PodsTyped
<1>3. ASSUME NEW p \in Pods, Bind(p) PROVE PodsTyped'
  BY <1>3 DEF Bind, PodsTyped
<1>4. ASSUME NEW p \in Pods, Allocate(p) PROVE PodsTyped'
  <2>1. PICK slices, value :
           /\ slices \in SUBSET (offered \ HeldSlices)
           /\ ids' = [ids EXCEPT ![p] = slices]
           /\ env' = [env EXCEPT ![p] = value]
    BY <1>4 DEF Allocate
  <2>2. slices \subseteq SliceIDs
    BY <2>1 DEF NodeTyped
  <2>3. ids' \in [Pods -> SUBSET SliceIDs] /\ DOMAIN env' = Pods
    BY <2>1, <2>2 DEF PodsTyped
  <2>4. /\ phase' = [phase EXCEPT ![p] = "allocated"]
        /\ UNCHANGED <<pod, sees>>
    BY <1>4 DEF Allocate
  <2> QED
    BY <2>3, <2>4 DEF PodsTyped
<1>5. ASSUME NEW p \in Pods, Run(p) PROVE PodsTyped'
  <2>1. PICK S \in SUBSET present : sees' = [sees EXCEPT ![p] = S]
    BY <1>5 DEF Run
  <2>2. sees' \in [Pods -> SUBSET GPUs]
    BY <2>1 DEF NodeTyped, PodsTyped
  <2>3. /\ phase' = [phase EXCEPT ![p] = "running"]
        /\ UNCHANGED <<pod, ids, env>>
    BY <1>5 DEF Run
  <2> QED
    BY <2>2, <2>3 DEF PodsTyped
<1>6. ASSUME NEW p \in Pods, End(p) PROVE PodsTyped'
  BY <1>6 DEF End, PodsTyped
<1>7. \/ UNCHANGED podVars
      \/ \E p \in Pods : Create(p) \/ Bind(p) \/ Allocate(p) \/ Run(p) \/ End(p)
  BY DEF PluginNext, GPULost, GPUBack, Appear, discoverGPUs, Start, Register, Stop, Crash,
         checkHealth, ListAndWatch, ConnectFails, KubeletRestarts
<1> QED
  BY <1>1, <1>2, <1>3, <1>4, <1>5, <1>6, <1>7

LEMMA PluginTypeStep == PluginTypeOK /\ [PluginNext]_pluginVars => PluginTypeOK'
<1> SUFFICES ASSUME PluginTypeOK, [PluginNext]_pluginVars PROVE PluginTypeOK'
  OBVIOUS
<1>1. CASE PluginNext
  <2>1. NodeTyped' /\ PodsTyped'
    BY <1>1, Parts, NodeTypedStep, PodsTypedStep
  <2> QED
    BY <2>1 DEF PluginTypeOK, NodeTyped, PodsTyped
<1>2. CASE UNCHANGED pluginVars
  BY <1>2 DEF pluginVars, nodeVars, podVars, PluginTypeOK
<1> QED
  BY <1>1, <1>2

(* Every variable of the plugin, the kubelet and the pods has a value of   *)
(* its kind, whatever GPUs, pods and number of slices there are; no two    *)
(* slices have one name.                                                   *)
THEOREM PluginTypeCorrect == PluginSpec => []PluginTypeOK
  BY InitTyped, PluginTypeStep, PTL DEF PluginSpec

(*------------------------------- the invariant -----------------------------*)
LEMMA InitPluginInv == PluginInit => PluginInv
<1> SUFFICES ASSUME PluginInit PROVE PluginInv
  OBVIOUS
<1>1. OfferInv /\ SliceInv
  BY DEF PluginInit, OfferInv, SliceInv
<1>2. \A p \in Pods : ids[p] = {} /\ phase[p] = "none"
  BY DEF PluginInit
<1>3. GrantInv /\ GrantVisible
  BY <1>2 DEF GrantInv, GrantVisible, Running
<1> QED
  BY <1>1, <1>3, InitTyped DEF PluginInv

LEMMA OfferStep ==
  ASSUME NodeTyped, OfferInv, PluginNext
  PROVE  OfferInv'
<1>1. CASE GPULost \/ GPUBack \/ \E p \in Pods : Create(p) \/ Bind(p) \/ Allocate(p) \/ Run(p) \/ End(p)
  <2>1. UNCHANGED <<plugin, devices, kubelet, offered>>
    BY <1>1 DEF GPULost, GPUBack, Appear, Create, Bind, Allocate, Run, End, nodeVars
  <2> QED
    BY <2>1 DEF OfferInv
<1>2. CASE discoverGPUs
  <2>1. /\ kubelet = "unknown" /\ offered = {} /\ UNCHANGED <<kubelet, offered>>
    BY <1>2 DEF discoverGPUs, OfferInv
  <2> QED
    BY <2>1 DEF OfferInv
<1>3. CASE Start \/ Register \/ Stop \/ Crash \/ ConnectFails \/ KubeletRestarts
  BY <1>3 DEF OfferInv, Start, Register, Stop, Crash, ConnectFails, KubeletRestarts
<1>4. CASE checkHealth
  <2>1. plugin = "ready" /\ UNCHANGED <<plugin, kubelet, offered>>
    BY <1>4 DEF checkHealth
  <2>2. {d.id : d \in devices'} = {d.id : d \in devices}
    BY <1>4, HealthNames
  <2> QED
    BY <2>1, <2>2 DEF OfferInv
<1>5. CASE ListAndWatch
  BY <1>5 DEF ListAndWatch, OfferInv
<1> QED
  BY <1>1, <1>2, <1>3, <1>4, <1>5 DEF PluginNext

LEMMA Moving ==
  ASSUME NodeTyped, PluginNext
  PROVE  moved => moved'
BY DEF PluginNext, GPULost, GPUBack, Appear, discoverGPUs, Start, Register, Stop, Crash,
       checkHealth, ListAndWatch, ConnectFails, KubeletRestarts,
       Create, Bind, Allocate, Run, End, nodeVars

LEMMA SliceStep ==
  ASSUME NodeTyped, SliceInv, PluginNext
  PROVE  SliceInv'
<1>1. CASE GPULost \/ GPUBack
  <2>1. PICK gs \in SUBSET GPUs : Appear(gs)
    BY <1>1, Appears
  <2>2. /\ present' = gs /\ devices' = devices
        /\ ~moved' => ~moved /\ \A g \in gs : Number(g, gs) = Number(g, GPUs)
    BY <2>1 DEF Appear
  <2> QED
    BY <2>2 DEF SliceInv, IsSlice
<1>2. CASE discoverGPUs
  <2>1. present \in SUBSET GPUs /\ devices' = buildVGPUDevices(present)
        /\ present' = present /\ moved' = moved
    BY <1>2 DEF NodeTyped, discoverGPUs
  <2>2. \A d \in devices' :
          /\ d.uuid \in present /\ d.id[1] = Number(d.uuid, present)
          /\ d.id[2] \in 0 .. slicesPerGPU - 1
          /\ d.memory = MemoryMiB[d.uuid] \div slicesPerGPU
    BY <2>1, Built
  <2> QED
    BY <2>1, <2>2 DEF SliceInv, IsSlice
<1>3. CASE Start \/ Register \/ Stop \/ Crash \/ ListAndWatch \/ ConnectFails \/ KubeletRestarts
  <2>1. present' = present /\ moved' = moved /\ devices' \subseteq devices
    BY <1>3 DEF Start, Register, Stop, Crash, ListAndWatch, ConnectFails, KubeletRestarts
  <2> QED
    BY <2>1 DEF SliceInv, IsSlice
<1>4. CASE checkHealth
  <2>1. present' = present /\ moved' = moved
    BY <1>4 DEF checkHealth
  <2>2. \A e \in devices' : \E d \in devices : e.id = d.id /\ e.uuid = d.uuid /\ e.memory = d.memory
    BY <1>4, HealthNames
  <2> QED
    BY <2>1, <2>2 DEF SliceInv, IsSlice
<1>5. CASE \E p \in Pods : Create(p) \/ Bind(p) \/ Allocate(p) \/ Run(p) \/ End(p)
  <2>1. UNCHANGED nodeVars
    BY <1>5 DEF Create, Bind, Allocate, Run, End
  <2> QED
    BY <2>1 DEF SliceInv, IsSlice, nodeVars
<1> QED
  BY <1>1, <1>2, <1>3, <1>4, <1>5 DEF PluginNext

(* A GPU has so many slices.                                               *)
LEMMA SlicesOfOne ==
  \A i : /\ IsFiniteSet({i} \X (0 .. slicesPerGPU - 1))
         /\ Cardinality({i} \X (0 .. slicesPerGPU - 1)) = slicesPerGPU
<1>1. slicesPerGPU \in Nat \ {0} /\ slicesPerGPU - 1 \in Int
  BY PluginAssumption
<1>2. /\ IsFiniteSet(0 .. slicesPerGPU - 1)
      /\ Cardinality(0 .. slicesPerGPU - 1)
           = IF 0 > slicesPerGPU - 1 THEN 0 ELSE slicesPerGPU - 1 - 0 + 1
  BY <1>1, FS_Interval
<1>3. Cardinality(0 .. slicesPerGPU - 1) = slicesPerGPU
  BY <1>1, <1>2
<1>4. ASSUME NEW i
      PROVE  /\ IsFiniteSet({i} \X (0 .. slicesPerGPU - 1))
             /\ Cardinality({i} \X (0 .. slicesPerGPU - 1)) = slicesPerGPU
  <2>1. IsFiniteSet({i}) /\ Cardinality({i}) = 1
    BY FS_Singleton
  <2>2. Cardinality({i} \X (0 .. slicesPerGPU - 1)) = 1 * Cardinality(0 .. slicesPerGPU - 1)
    BY <1>2, <2>1, FS_Product
  <2>3. IsFiniteSet({i} \X (0 .. slicesPerGPU - 1))
    BY <1>2, <2>1, FS_Product
  <2> QED
    BY <1>1, <1>3, <2>2, <2>3
<1> QED
  BY <1>4

(* The answer of Allocate: the memory is that of the slices.               *)
LEMMA Allocated ==
  ASSUME NodeTyped, SliceInv, NEW slices, slices \subseteq {d.id : d \in devices}
  PROVE  \E limitMiB :
           /\ AllocateEnvs(slices) = AnswerFor(slices, limitMiB)
           /\ ~moved => \A g \in GPUs :
                (\A id \in slices : IsSlice(id, g))
                  => limitMiB = Cardinality(slices) * (MemoryMiB[g] \div slicesPerGPU)
<1> DEFINE Given == {d \in devices : d.id \in slices}
           memory == [d \in Given |-> d.memory]
           limitMiB == SumFunction(memory)
<1>1. {d.id[1] : d \in Given} = {id[1] : id \in slices}
  OBVIOUS
<1>2. AllocateEnvs(slices) = AnswerFor(slices, limitMiB)
  BY <1>1 DEF AllocateEnvs, AnswerFor, NumbersIn
<1>3. limitMiB = Total(memory, Given)
  <2>1. DOMAIN memory = Given
    OBVIOUS
  <2> HIDE DEF memory, Given
  <2> QED
    BY <2>1 DEF SumFunction, SumFunctionOnSet, FoldFunctionOnSet, MapThenFoldSet, Total, Totals, Pick
<1>4. ASSUME ~moved, NEW g \in GPUs, \A id \in slices : IsSlice(id, g)
      PROVE  limitMiB = Cardinality(slices) * (MemoryMiB[g] \div slicesPerGPU)
  <2> DEFINE m == MemoryMiB[g] \div slicesPerGPU
  <2>1. m \in Nat
    BY PluginAssumption
  <2>2. \A d \in Given : memory[d] = m
    <3>1. TAKE d \in Given
    <3>2. d.uuid \in GPUs /\ IsSlice(d.id, d.uuid) /\ IsSlice(d.id, g)
          /\ d.memory = MemoryMiB[d.uuid] \div slicesPerGPU
      BY <1>4 DEF NodeTyped, SliceInv, Slices
    <3>3. d.uuid = g
      BY <3>2, NumberInjective DEF IsSlice
    <3> QED
      BY <3>2, <3>3
  <2>3. IsFiniteSet(slices)
    <3>1. slices \in SUBSET ({Number(g, GPUs)} \X (0 .. slicesPerGPU - 1))
      BY <1>4 DEF IsSlice, SliceInv, NodeTyped, Slices, SliceIDs
    <3> QED
      BY <3>1, SlicesOfOne, FS_Subset
  <2>4. IsFiniteSet(Given) /\ Cardinality(Given) = Cardinality(slices)
    <3> DEFINE h == [id \in slices |-> CHOOSE d \in devices : d.id = id]
    <3>1. \A id \in slices : h[id] \in Given /\ h[id].id = id
      OBVIOUS
    <3>2. \A d \in Given : h[d.id] = d
      BY <3>1 DEF NodeTyped
    <3>3. h \in [slices -> Given] /\ DOMAIN h = slices
      BY <3>1
    <3> HIDE DEF h
    <3>4. h \in Injection(slices, Given)
      BY <3>1, <3>3, Zenon DEF Injection, IsInjective
    <3>5. h \in Surjection(slices, Given)
      BY <3>2, <3>3 DEF Surjection
    <3>6. ExistsBijection(slices, Given)
      BY <3>4, <3>5 DEF ExistsBijection, Bijection
    <3> HIDE DEF Given
    <3> QED
      BY <2>3, <3>6, FS_Bijection
  <2> HIDE DEF m, Given, memory
  <2>5. Total(memory, Given) = Cardinality(Given) * m
    BY <2>1, <2>2, <2>4, TotalConstant
  <2> QED
    BY <1>3, <2>4, <2>5 DEF m
<1> HIDE DEF limitMiB
<1> QED
  BY <1>2, <1>4

LEMMA AllocateGrants ==
  ASSUME NodeTyped, PodsTyped, OfferInv, SliceInv, GrantInv, NEW p \in Pods, Allocate(p)
  PROVE  GrantInv'
<1>1. PICK slices \in SUBSET (offered \ HeldSlices) :
         /\ ids' = [ids EXCEPT ![p] = slices]
         /\ env' = [env EXCEPT ![p] = (IF slices = {} THEN <<>> ELSE AllocateEnvs(slices))
                                        \o pod[p].containers[1].env]
  BY DEF Allocate
<1>2. /\ phase[p] = "bound" /\ phase' = [phase EXCEPT ![p] = "allocated"]
      /\ UNCHANGED <<moved, devices, pod>>
  BY DEF Allocate, nodeVars
<1>3. slices \subseteq {d.id : d \in devices}
  BY <1>1 DEF OfferInv
<1>4. /\ ids'[p] = slices /\ (\A q \in Pods \ {p} : ids'[q] = ids[q] /\ env'[q] = env[q])
      /\ phase'[p] = "allocated" /\ (\A q \in Pods \ {p} : phase'[q] = phase[q])
      /\ env'[p] = (IF slices = {} THEN <<>> ELSE AllocateEnvs(slices))
                     \o pod[p].containers[1].env
  BY <1>1, <1>2 DEF PodsTyped
<1>5. pod[p] \in Admitted(p)
  BY <1>2 DEF GrantInv
<1>6. (\A p1, q1 \in Pods : p1 # q1 => ids[p1] \cap ids[q1] = {})'
  <2>1. \A q \in Pods : slices \cap ids[q] = {}
    BY <1>1 DEF HeldSlices
  <2> QED
    BY <1>4, <2>1 DEF GrantInv
<1>7. (\A q \in Pods : phase[q] # "none" => pod[q] \in Admitted(q))'
  <2>1. \A q \in Pods : phase'[q] # "none" => phase[q] # "none"
    BY <1>2, <1>4
  <2> QED
    BY <1>2, <2>1 DEF GrantInv
<1>8. ASSUME slices # {} PROVE Answered(p)'
  <2>1. PICK limitMiB :
          /\ AllocateEnvs(slices) = AnswerFor(slices, limitMiB)
          /\ ~moved => \A g \in GPUs :
               (\A id \in slices : IsSlice(id, g))
                 => limitMiB = Cardinality(slices) * (MemoryMiB[g] \div slicesPerGPU)
    BY <1>3, Allocated
  <2>2. env'[p] = GivenTo(pod[p], slices, limitMiB)
    BY <1>4, <1>8, <2>1 DEF GivenTo
  <2>3. env'[p][3].value = limitMiB
    <3>1. GivenTo(pod[p], slices, limitMiB)[3].value = limitMiB
      BY <1>5, GivenEnv
    <3> QED
      BY <2>2, <3>1
  <2>4. env'[p] = GivenTo(pod'[p], ids'[p], env'[p][3].value)
    BY <1>2, <1>4, <2>2, <2>3
  <2>5. ~moved' => \A g \in GPUs :
          (\A id \in ids'[p] : IsSlice(id, g))
            => env'[p][3].value = Cardinality(ids'[p]) * (MemoryMiB[g] \div slicesPerGPU)
    BY <1>2, <1>4, <2>1, <2>3
  <2> QED
    BY <2>4, <2>5 DEF Answered, IsSlice
<1>9. ASSUME NEW q \in Pods \ {p}, Answered(q) PROVE Answered(q)'
  BY <1>2, <1>4, <1>9 DEF Answered, IsSlice
<1>10. (\A q \in Pods : ids[q] # {} => phase[q] \in {"allocated", "running"} /\ Answered(q))'
  <2>1. TAKE q \in Pods
  <2>2. CASE q = p
    BY <1>4, <1>8, <2>2
  <2>3. CASE q # p
    BY <1>4, <1>9, <2>3 DEF GrantInv
  <2> QED
    BY <2>2, <2>3
<1>11. \A id \in slices : id[2] \in 0 .. slicesPerGPU - 1 /\ (~moved => \E g \in GPUs : IsSlice(id, g))
  BY <1>3 DEF SliceInv, NodeTyped, Slices
<1>12. (\A q \in Pods : \A id \in ids[q] :
          id[2] \in 0 .. slicesPerGPU - 1 /\ (~moved => \E g \in GPUs : IsSlice(id, g)))'
  BY <1>2, <1>4, <1>11 DEF GrantInv, IsSlice
<1> QED
  BY <1>6, <1>7, <1>10, <1>12 DEF GrantInv

LEMMA GrantStep ==
  ASSUME NodeTyped, PodsTyped, OfferInv, SliceInv, GrantInv, PluginNext
  PROVE  GrantInv'
<1>1. ASSUME UNCHANGED podVars PROVE GrantInv'
  <2>1. moved => moved'
    BY Moving
  <2>2. \A p \in Pods : Answered(p) => Answered(p)'
    BY <1>1, <2>1 DEF podVars, Answered, IsSlice
  <2>3. /\ \A p, q \in Pods : p # q => ids'[p] \cap ids'[q] = {}
        /\ \A p \in Pods : phase'[p] # "none" => pod'[p] \in Admitted(p)
        /\ \A p \in Pods : ids'[p] # {} => phase'[p] \in {"allocated", "running"} /\ Answered(p)'
    BY <1>1, <2>2 DEF podVars, GrantInv
  <2>4. \A p \in Pods : \A id \in ids'[p] :
          id[2] \in 0 .. slicesPerGPU - 1 /\ (~moved' => \E g \in GPUs : IsSlice(id, g))
    BY <1>1, <2>1 DEF podVars, GrantInv
  <2> QED
    BY <2>3, <2>4 DEF GrantInv, IsSlice
<1>2. ASSUME NEW p \in Pods, Create(p) \/ Bind(p) \/ Run(p) \/ End(p) PROVE GrantInv'
  <2>1. /\ moved' = moved
        /\ \A q \in Pods \ {p} : /\ phase'[q] = phase[q] /\ pod'[q] = pod[q]
                                 /\ ids'[q] = ids[q] /\ env'[q] = env[q]
    BY <1>2 DEF Create, Bind, Run, End, nodeVars, PodsTyped
  <2>2. \/ ids'[p] = {}
        \/ /\ ids'[p] = ids[p] /\ env'[p] = env[p] /\ pod'[p] = pod[p]
           /\ phase'[p] = "running" /\ phase[p] # "none"
    <3>1. CASE Create(p) \/ Bind(p)
      <4>1. ids[p] = {}
        BY <3>1 DEF Create, Bind, GrantInv
      <4> QED
        BY <3>1, <4>1 DEF Create, Bind
    <3>2. CASE Run(p)
      BY <3>2 DEF Run, PodsTyped
    <3>3. CASE End(p)
      BY <3>3 DEF End, PodsTyped
    <3> QED
      BY <1>2, <3>1, <3>2, <3>3
  <2>3. phase'[p] # "none" => pod'[p] \in Admitted(p)
    <3>1. CASE Create(p)
      BY <3>1 DEF Create, PodsTyped
    <3>2. CASE Bind(p) \/ Run(p)
      BY <3>2 DEF Bind, Run, GrantInv
    <3>3. CASE End(p)
      BY <3>3 DEF End, PodsTyped
    <3> QED
      BY <1>2, <3>1, <3>2, <3>3
  <2>4. ASSUME NEW q \in Pods, ids'[q] # {}
        PROVE  phase'[q] \in {"allocated", "running"} /\ Answered(q)'
    <3>1. /\ ids'[q] = ids[q] /\ env'[q] = env[q] /\ pod'[q] = pod[q]
          /\ phase'[q] = phase[q] \/ phase'[q] = "running"
      BY <2>1, <2>2, <2>4
    <3>2. phase[q] \in {"allocated", "running"} /\ Answered(q)
      BY <2>4, <3>1 DEF GrantInv
    <3> QED
      BY <2>1, <3>1, <3>2 DEF Answered, IsSlice
  <2>5. \A q, r \in Pods : q # r => ids'[q] \cap ids'[r] = {}
    <3>1. \A q \in Pods : ids'[q] \subseteq ids[q]
      BY <2>1, <2>2
    <3> QED
      BY <3>1 DEF GrantInv
  <2>6. \A q \in Pods : phase'[q] # "none" => pod'[q] \in Admitted(q)
    BY <2>1, <2>3 DEF GrantInv
  <2>7. \A q \in Pods : \A id \in ids'[q] :
          id[2] \in 0 .. slicesPerGPU - 1 /\ (~moved' => \E g \in GPUs : IsSlice(id, g))
    <3>1. \A q \in Pods : ids'[q] \subseteq ids[q]
      BY <2>1, <2>2
    <3> QED
      BY <2>1, <3>1 DEF GrantInv
  <2> QED
    BY <2>4, <2>5, <2>6, <2>7 DEF GrantInv, IsSlice
<1>3. \/ UNCHANGED podVars
      \/ \E p \in Pods : Create(p) \/ Bind(p) \/ Allocate(p) \/ Run(p) \/ End(p)
  BY DEF PluginNext, GPULost, GPUBack, Appear, discoverGPUs, Start, Register, Stop, Crash,
         checkHealth, ListAndWatch, ConnectFails, KubeletRestarts
<1> QED
  BY <1>1, <1>2, <1>3, AllocateGrants

(* The runtime finds the GPUs of the slices by their numbers.              *)
LEMMA VisibleStep ==
  ASSUME NodeTyped, PodsTyped, SliceInv, GrantInv, GrantVisible, PluginNext
  PROVE  GrantVisible'
<1>1. moved => moved'
  BY Moving
<1>2. ASSUME UNCHANGED podVars PROVE GrantVisible'
  BY <1>1, <1>2 DEF podVars, GrantVisible, Running
<1>3. ASSUME NEW p \in Pods, Create(p) \/ Bind(p) \/ Allocate(p) \/ End(p) PROVE GrantVisible'
  <2>1. /\ phase'[p] # "running"
        /\ \A q \in Pods \ {p} : /\ phase'[q] = phase[q]
                                 /\ ids'[q] = ids[q] /\ sees'[q] = sees[q]
    BY <1>3 DEF Create, Bind, Allocate, End, PodsTyped
  <2>2. \A q \in Pods : Running(q)' => q # p /\ Running(q)
    BY <2>1 DEF Running
  <2> QED
    BY <1>1, <2>1, <2>2 DEF GrantVisible
<1>4. ASSUME NEW p \in Pods, Run(p) PROVE GrantVisible'
  <2> DEFINE Indices == Getenv(env[p], "NVIDIA_VISIBLE_DEVICES", {})
  <2>1. /\ phase[p] # "none"
        /\ \A i \in Indices : i < Cardinality(present)
        /\ sees'[p] = {g \in present : Number(g, present) \in Indices}
        /\ UNCHANGED <<moved, ids>>
    BY <1>4 DEF Run, nodeVars, PodsTyped
  <2>2. \A q \in Pods \ {p} : phase'[q] = phase[q] /\ sees'[q] = sees[q]
    BY <1>4 DEF Run, PodsTyped
  <2>3. ASSUME ~moved, ids[p] # {}, Plain(p)
        PROVE  sees'[p] = {Bus[id[1] + 1] : id \in ids[p]}
    <3>1. pod[p] \in Admitted(p) /\ Answered(p)
      BY <2>1, <2>3 DEF GrantInv
    <3>7. env[p] = GivenTo(pod[p], ids[p], env[p][3].value)
      BY <3>1 DEF Answered
    <3>8. ~Sets(p, "NVIDIA_VISIBLE_DEVICES")
      BY <2>3 DEF Plain
    <3>9. Getenv(env[p], "NVIDIA_VISIBLE_DEVICES", {}) = NumbersIn(ids[p])
      BY <3>1, <3>7, <3>8, GivenEnv
    <3>2. Indices = {id[1] : id \in ids[p]}
      BY <3>9 DEF NumbersIn
    <3> HIDE DEF Indices
    <3>3. \A g \in present : g \in GPUs /\ Bus[Number(g, present) + 1] = g
      BY <2>3, NumberIsPlace DEF SliceInv, NodeTyped
    <3>4. ASSUME NEW id \in ids[p] PROVE \E g \in present : Number(g, present) = id[1]
      <4>1. id[1] \in Nat /\ id[1] < Cardinality(present) /\ present \in SUBSET GPUs
        BY <2>1, <3>2 DEF PodsTyped, SliceIDs, NodeTyped
      <4> QED
        BY <4>1, NumberSurjective
    <3>5. ASSUME NEW g \in sees'[p] PROVE g \in {Bus[id[1] + 1] : id \in ids[p]}
      <4>1. g \in present /\ \E id \in ids[p] : Number(g, present) = id[1]
        BY <2>1, <3>2
      <4> QED
        BY <3>3, <4>1
    <3>6. ASSUME NEW id \in ids[p] PROVE Bus[id[1] + 1] \in sees'[p]
      <4>1. PICK g \in present : Number(g, present) = id[1]
        BY <3>4
      <4>2. id[1] \in Indices
        BY <3>2
      <4> QED
        BY <2>1, <3>3, <4>1, <4>2
    <3> QED
      BY <3>5, <3>6
  <2>4. ASSUME ~moved', NEW q \in Pods, Running(q)', Plain(q)
        PROVE  sees'[q] = {Bus[id[1] + 1] : id \in ids'[q]}
    <3>1. CASE q = p
      BY <2>1, <2>3, <2>4, <3>1 DEF Running
    <3>2. CASE q # p
      BY <2>1, <2>2, <2>4, <3>2 DEF Running, GrantVisible
    <3> QED
      BY <3>1, <3>2
  <2> QED
    BY <2>4 DEF GrantVisible
<1>5. \/ UNCHANGED podVars
      \/ \E p \in Pods : Create(p) \/ Bind(p) \/ Allocate(p) \/ Run(p) \/ End(p)
  BY DEF PluginNext, GPULost, GPUBack, Appear, discoverGPUs, Start, Register, Stop, Crash,
         checkHealth, ListAndWatch, ConnectFails, KubeletRestarts
<1> QED
  BY <1>2, <1>3, <1>4, <1>5

LEMMA PluginInvStep == PluginInv /\ [PluginNext]_pluginVars => PluginInv'
<1> SUFFICES ASSUME PluginInv, [PluginNext]_pluginVars PROVE PluginInv'
  OBVIOUS
<1>1. PluginTypeOK'
  BY PluginTypeStep DEF PluginInv
<1>2. CASE PluginNext
  <2>1. NodeTyped /\ PodsTyped /\ OfferInv /\ SliceInv /\ GrantInv /\ GrantVisible
    BY Parts DEF PluginInv
  <2> QED
    BY <1>1, <1>2, <2>1, OfferStep, SliceStep, GrantStep, VisibleStep DEF PluginInv
<1>3. CASE UNCHANGED pluginVars
  <2>1. OfferInv' /\ SliceInv'
    BY <1>3 DEF pluginVars, nodeVars, PluginInv, OfferInv, SliceInv, IsSlice
  <2>2. GrantInv' /\ GrantVisible'
    BY <1>3 DEF pluginVars, nodeVars, podVars, PluginInv, GrantInv, Answered, IsSlice,
                GrantVisible, Running
  <2> QED
    BY <1>1, <2>1, <2>2 DEF PluginInv
<1> QED
  BY <1>2, <1>3

LEMMA PluginInvariance == PluginSpec => []PluginInv
  BY InitPluginInv, PluginInvStep, PTL DEF PluginSpec

(* While no GPU has another index than at first, a container gets exactly  *)
(* the GPUs its slices are of: main.go numbers them as it finds them, and  *)
(* the container runtime looks the numbers up when it starts.              *)
THEOREM GrantsAreVisible == PluginSpec => []GrantVisible
<1>1. PluginInv => GrantVisible
  BY DEF PluginInv
<1> QED
  BY <1>1, PluginInvariance, PTL

(* Every container with slices has libvgpu preloaded: the answer of        *)
(* Allocate names it, and what the webhook adds comes last, so that an     *)
(* LD_PRELOAD of the pod's own does not win once the webhook has seen it.  *)
THEOREM LibraryIsPreloaded == PluginSpec => []Intercepted
<1>1. ASSUME PluginInv, NEW p \in Pods, Running(p),
             Sets(p, "LD_PRELOAD") => InjectedAt \in pod[p].annotations
      PROVE  \A default : Getenv(env[p], "LD_PRELOAD", default) = LibVGPU
  <2>1. pod[p] \in Admitted(p) /\ Answered(p)
    BY <1>1 DEF PluginInv, GrantInv, Running
  <2>2. env[p] = GivenTo(pod[p], ids[p], env[p][3].value)
    BY <2>1 DEF Answered
  <2>3. \A default :
          Getenv(GivenTo(pod[p], ids[p], env[p][3].value), "LD_PRELOAD", default) = LibVGPU
    BY <1>1, <2>1, GivenEnv
  <2> QED
    BY <2>2, <2>3
<1>2. PluginInv => Intercepted
  BY <1>1, Zenon DEF Intercepted
<1> QED
  BY <1>2, PluginInvariance, PTL

(* Disjoint parts of a set weigh together no more than the set.            *)
LEMMA DisjointParts ==
  ASSUME NEW P, IsFiniteSet(P), NEW B, IsFiniteSet(B), NEW m \in Nat,
         NEW part, \A p \in P : part[p] \in SUBSET B,
         \A p, q \in P : p # q => part[p] \cap part[q] = {},
         NEW f, \A p \in P : f[p] = Cardinality(part[p]) * m
  PROVE  Total(f, P) <= Cardinality(B) * m
<1> DEFINE All(Q) == UNION {part[p] : p \in Q}
           C == {Q \in SUBSET P : Total(f, Q) = Cardinality(All(Q)) * m}
<1>1. \A p \in P : IsFiniteSet(part[p]) /\ Cardinality(part[p]) \in Nat
  BY FS_Subset, FS_CardinalityType
<1>2. \A Q \in SUBSET P : All(Q) \in SUBSET B /\ IsFiniteSet(All(Q)) /\ Cardinality(All(Q)) \in Nat
  <2>1. TAKE Q \in SUBSET P
  <2>2. All(Q) \in SUBSET B
    OBVIOUS
  <2> HIDE DEF All
  <2> QED
    BY <2>2, FS_Subset, FS_CardinalityType
<1>3. {} \in C
  <2>1. All({}) = {}
    OBVIOUS
  <2>2. Total(f, {}) = 0 /\ Cardinality(All({})) = 0
    BY <2>1, TotalEmpty, FS_EmptySet
  <2> HIDE DEF All
  <2> QED
    BY <2>2
<1>4. ASSUME NEW Q \in SUBSET P, NEW x \in P, Q \in C, x \notin Q PROVE Q \cup {x} \in C
  <2>1. All(Q \cup {x}) = All(Q) \cup part[x] /\ All(Q) \cap part[x] = {}
    BY <1>4
  <2>2. Cardinality(All(Q) \cup part[x])
          = Cardinality(All(Q)) + Cardinality(part[x]) - Cardinality(All(Q) \cap part[x])
    <3> HIDE DEF All
    <3> QED
      BY <1>1, <1>2, FS_Union
  <2>3. Total(f, Q) = Cardinality(All(Q)) * m
    BY <1>4
  <2>4. IsFiniteSet(Q) /\ \A y \in Q \cup {x} : f[y] \in Int
    BY <1>1, FS_Subset
  <2>5. Total(f, Q \cup {x}) = f[x] + Total(f, Q)
    BY <1>4, <2>4, TotalAdd
  <2>6. Cardinality(All(Q)) \in Nat /\ Cardinality(part[x]) \in Nat
    BY <1>1, <1>2
  <2> HIDE DEF All
  <2>7. Cardinality(All(Q \cup {x})) = Cardinality(All(Q)) + Cardinality(part[x])
    <3>1. Cardinality(All(Q) \cap part[x]) = 0
      <4>1. Cardinality({}) = 0
        BY FS_EmptySet
      <4> QED
        BY <2>1, <4>1, Zenon
    <3>2. Cardinality(All(Q \cup {x})) = Cardinality(All(Q) \cup part[x])
      BY <2>1, Zenon
    <3> QED
      BY <2>2, <2>6, <3>1, <3>2
  <2>8. f[x] = Cardinality(part[x]) * m
    OBVIOUS
  <2>9. Total(f, Q \cup {x}) = Cardinality(All(Q \cup {x})) * m
    BY <2>3, <2>5, <2>6, <2>7, <2>8
  <2> QED
    BY <2>9
<1>5. SUBSET P \subseteq C
  <2> HIDE DEF C
  <2> QED
    BY <1>3, <1>4, InductionOnSubsets
<1>6. Total(f, P) = Cardinality(All(P)) * m
  BY <1>5
<1>7. All(P) \in SUBSET B /\ Cardinality(All(P)) \in Nat
  BY <1>2
<1> HIDE DEF All, C
<1>8. Cardinality(All(P)) <= Cardinality(B) /\ Cardinality(B) \in Nat
  BY <1>7, FS_Subset, FS_CardinalityType
<1> QED
  BY <1>6, <1>7, <1>8

LEMMA Rounded == \A s \in Nat \ {0}, n \in Nat : s * (n \div s) <= n
  OBVIOUS

(* While no GPU has another index than at first, the limits of the         *)
(* containers that share a GPU add up to no more than its memory: each     *)
(* slice is in one container, and a GPU has slicesPerGPU of them, each of  *)
(* the quotient of its memory.                                             *)
THEOREM MemoryIsNotOverpromised == PluginSpec => []GPUNotOverpromised
<1>1. ASSUME PluginInv, ~moved, NEW g \in GPUs
      PROVE  SumFunction([p \in {q \in Pods : Running(q) /\ Plain(q) /\ sees[q] = {g}} |-> LimitMiB(p)])
               <= MemoryMiB[g]
  <2> DEFINE On == {q \in Pods : Running(q) /\ Plain(q) /\ sees[q] = {g}}
             f == [p \in On |-> LimitMiB(p)]
             m == MemoryMiB[g] \div slicesPerGPU
             B == {Number(g, GPUs)} \X (0 .. slicesPerGPU - 1)
  <2>1. IsFiniteSet(On)
    BY PluginAssumption, FS_Subset
  <2>2. m \in Nat /\ MemoryMiB[g] \in Nat /\ slicesPerGPU \in Nat \ {0}
    BY PluginAssumption
  <2>3. ASSUME NEW p \in On
        PROVE  ids[p] \in SUBSET B /\ LimitMiB(p) = Cardinality(ids[p]) * m
    <3>1. /\ sees[p] = {Bus[id[1] + 1] : id \in ids[p]} /\ sees[p] = {g}
          /\ ids[p] \subseteq SliceIDs
      BY <1>1 DEF PluginInv, PluginTypeOK, GrantVisible
    <3>2. pod[p] \in Admitted(p) /\ Answered(p)
      BY <1>1 DEF PluginInv, GrantInv, Running
    <3>3. \A id \in ids[p] : id[2] \in 0 .. slicesPerGPU - 1 /\ \E h \in GPUs : IsSlice(id, h)
      BY <1>1 DEF PluginInv, GrantInv
    <3>4. ASSUME NEW id \in ids[p] PROVE IsSlice(id, g)
      <4>1. PICK h \in GPUs : IsSlice(id, h)
        BY <3>3
      <4>2. Bus[id[1] + 1] = g /\ id[1] = Number(h, GPUs)
        BY <3>1, <4>1 DEF IsSlice
      <4>3. h = g
        BY <4>2, NumberIsPlace
      <4> QED
        BY <4>1, <4>3
    <3>5. \A id \in ids[p] : id \in B
      BY <3>1, <3>3, <3>4 DEF IsSlice, SliceIDs
    <3>6. env[p] = GivenTo(pod[p], ids[p], env[p][3].value)
          /\ env[p][3].value = Cardinality(ids[p]) * m
      BY <1>1, <3>2, <3>4 DEF Answered
    <3>7. ~Sets(p, "VGPU_MEMORY_LIMIT_MIB")
      BY DEF Plain
    <3>8. Getenv(GivenTo(pod[p], ids[p], env[p][3].value), "VGPU_MEMORY_LIMIT_MIB", 0)
            = env[p][3].value
      BY <3>2, <3>7, GivenEnv
    <3>9. LimitMiB(p) = env[p][3].value
      BY <3>6, <3>8 DEF LimitMiB
    <3> QED
      BY <3>5, <3>6, <3>9
  <2>4. \A p, q \in On : p # q => ids[p] \cap ids[q] = {}
    BY <1>1 DEF PluginInv, GrantInv
  <2>5. SumFunction(f) = Total(f, On)
    <3>1. DOMAIN f = On
      OBVIOUS
    <3> HIDE DEF f, On
    <3> QED
      BY <3>1 DEF SumFunction, SumFunctionOnSet, FoldFunctionOnSet, MapThenFoldSet, Total, Totals, Pick
  <2>6. \A p \in On : f[p] = Cardinality(ids[p]) * m
    BY <2>3
  <2>7. IsFiniteSet(B) /\ Cardinality(B) = slicesPerGPU
    BY SlicesOfOne
  <2>8. \A p \in On : ids[p] \in SUBSET B
    BY <2>3
  <2> HIDE DEF f, On, m, B
  <2>9. Total(f, On) <= Cardinality(B) * m
    BY <2>1, <2>2, <2>4, <2>6, <2>7, <2>8, DisjointParts
  <2>10. Total(f, On) \in Int
    <3>1. \A p \in On : f[p] \in Int
      <4>1. \A p \in On : Cardinality(ids[p]) \in Nat
        BY <2>7, <2>8, FS_Subset, FS_CardinalityType
      <4> QED
        BY <2>2, <2>6, <4>1
    <3> QED
      BY <2>1, <3>1, TotalSame
  <2>11. slicesPerGPU * m <= MemoryMiB[g]
    BY <2>2, Rounded DEF m
  <2>12. SumFunction(f) <= MemoryMiB[g]
    <3>1. slicesPerGPU * m \in Nat
      BY <2>2
    <3> QED
      BY <2>2, <2>5, <2>7, <2>9, <2>10, <2>11, <3>1
  <2> QED
    BY <2>12 DEF f, On
<1>2. PluginInv => GPUNotOverpromised
  BY <1>1 DEF GPUNotOverpromised
<1> QED
  BY <1>2, PluginInvariance, PTL
==============================================================================
