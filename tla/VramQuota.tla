----------------------------- MODULE VramQuota -----------------------------
(***************************************************************************)
(* libvgpu/src/hook.c and cuda_hook.c: the VRAM quota of one container.    *)
(* Its processes map one file with the amount allocated so far; the mutex  *)
(* that guards it is a variable of each process, so that two processes do  *)
(* not exclude each other.  The CUDA driver and the kernel are external.   *)
(*                                                                         *)
(* The amount is read and written in separate steps: an update another     *)
(* process makes in between is lost.                                       *)
(***************************************************************************)
EXTENDS Integers, FiniteSets, FiniteSetsExt

CONSTANTS
  Threads, Procs, ProcOf,   \* the process of each thread
  Limits,                   \* values of PHOENIX_VRAM_LIMIT_MB; 0 is no limit
  Sizes,                    \* of allocations
  MemoryMB,                 \* what the GPU has
  MaxAllocs                 \* bound on the allocations

ASSUME QuotaAssumption ==
  /\ IsFiniteSet(Threads) /\ Threads # {}
  /\ IsFiniteSet(Procs) /\ ProcOf \in [Threads -> Procs]
  /\ Limits \subseteq Nat /\ MaxAllocs \in Nat
  /\ IsFiniteSet(Sizes) /\ Sizes # {} /\ Sizes \subseteq Nat \ {0}

VARIABLES
  limit,      \* g_vram_limit_bytes
  magic,      \* the file has been initialised
  recorded,   \* vram_allocated_bytes
  proc,       \* "none", "init" when about to initialise the file, "up"; or
              \* "degraded" without the file
  used,       \* what each process holds of the GPU
  pc, size, seen,   \* each thread: where it is, its request, the amount it read
  (* History.                                                              *)
  allocs,     \* allocations let through
  lost,       \* recorded amounts that were overwritten, or never recorded
  restored,   \* amounts in the file again after they were cleared
  released    \* recorded amounts of memory that is no longer held

vars == <<limit, magic, recorded, proc, used, pc, size, seen, allocs, lost, restored, released>>

TypeOK ==
  /\ limit \in Limits /\ magic \in BOOLEAN /\ recorded \in Nat
  /\ proc \in [Procs -> {"none", "init", "up", "degraded"}]
  /\ used \in [Procs -> Nat]
  /\ pc \in [Threads -> {"app", "alloc", "record", "write"}]
  /\ size \in [Threads -> Sizes \cup {0}] /\ seen \in [Threads -> Nat]
  /\ allocs \in 0 .. MaxAllocs
  /\ lost \in Nat /\ restored \in Nat /\ released \in Nat

Init ==
  /\ limit \in Limits /\ magic = FALSE /\ recorded = 0
  /\ proc = [p \in Procs |-> "none"] /\ used = [p \in Procs |-> 0]
  /\ pc = [t \in Threads |-> "app"]
  /\ size = [t \in Threads |-> 0] /\ seen = [t \in Threads |-> 0]
  /\ allocs = 0 /\ lost = 0 /\ restored = 0 /\ released = 0

SumOver(f, S) == FoldSet(LAMBDA x, sum : f[x] + sum, 0, S)
Used == SumOver(used, Procs)

(*------------------------------- processes --------------------------------*)
(* init_shared_memory: open and map the file; whoever finds it without the *)
(* magic number clears it.  The constructor goes on when that fails.       *)
Load(p) ==
  /\ proc[p] = "none"
  /\ proc' = [proc EXCEPT ![p] = IF magic THEN "up" ELSE "init"]
  /\ UNCHANGED <<limit, magic, recorded, used, pc, size, seen, allocs, lost, restored, released>>

LoadFails(p) ==
  /\ proc[p] = "none"
  /\ proc' = [proc EXCEPT ![p] = "degraded"]
  /\ UNCHANGED <<limit, magic, recorded, used, pc, size, seen, allocs, lost, restored, released>>

Clear(p) ==
  /\ proc[p] = "init"
  /\ proc' = [proc EXCEPT ![p] = "up"]
  /\ magic' = TRUE /\ recorded' = 0
  /\ lost' = lost + recorded
  /\ UNCHANGED <<limit, used, pc, size, seen, allocs, restored, released>>

Mapped(t) == proc[ProcOf[t]] = "up"
ThreadsOf(p) == {t \in Threads : ProcOf[t] = p}

(* Amounts allocated and not yet recorded.                                 *)
InFlight(T) == SumOver(size, {t \in T : pc[t] \in {"record", "write"}})

(* The driver takes back what a process held; what is recorded stays.      *)
Exit(p) ==
  /\ proc[p] # "none"
  /\ proc' = [proc EXCEPT ![p] = "none"]
  /\ used' = [used EXCEPT ![p] = 0]
  /\ released' = released + used[p] - InFlight(ThreadsOf(p))
  /\ pc' = [t \in Threads |-> IF ProcOf[t] = p THEN "app" ELSE pc[t]]
  /\ size' = [t \in Threads |-> IF ProcOf[t] = p THEN 0 ELSE size[t]]
  /\ seen' = [t \in Threads |-> IF ProcOf[t] = p THEN 0 ELSE seen[t]]
  /\ UNCHANGED <<limit, magic, recorded, allocs, lost, restored>>

(*------------------------------- cuMemAlloc -------------------------------*)
(* g_lock is held while the amount is read and written.                    *)
Unlocked(t) == \A u \in ThreadsOf(ProcOf[t]) : pc[u] # "write"

Back(t) ==
  /\ pc' = [pc EXCEPT ![t] = "app"]
  /\ size' = [size EXCEPT ![t] = 0] /\ seen' = [seen EXCEPT ![t] = 0]

(* What phoenix_check_vram_alloc takes for the amount in use.              *)
Current(t) == IF Mapped(t) THEN recorded ELSE 0

(* Mutant: the request is compared with the limit on its own.              *)
CheckRequestOnly(t) ==
  /\ pc[t] = "app" /\ proc[ProcOf[t]] \in {"up", "degraded"} /\ allocs < MaxAllocs
  /\ \E s \in Sizes :
       /\ limit # 0 => s <= limit
       /\ size' = [size EXCEPT ![t] = s]
  /\ pc' = [pc EXCEPT ![t] = "alloc"]
  /\ allocs' = allocs + 1
  /\ UNCHANGED <<limit, magic, recorded, proc, used, seen, lost, restored, released>>

(* phoenix_check_vram_alloc: a request that is refused changes nothing.    *)
Check(t) ==
  /\ pc[t] = "app" /\ proc[ProcOf[t]] \in {"up", "degraded"} /\ allocs < MaxAllocs
  /\ limit # 0 => Unlocked(t)
  /\ \E s \in Sizes :
       /\ limit # 0 => Current(t) + s <= limit
       /\ size' = [size EXCEPT ![t] = s]
  /\ pc' = [pc EXCEPT ![t] = "alloc"]
  /\ allocs' = allocs + 1
  /\ UNCHANGED <<limit, magic, recorded, proc, used, seen, lost, restored, released>>

(* Mutant: the result of the driver is not looked at.                      *)
RealAllocUnnoticed(t) ==
  /\ pc[t] = "alloc"
  /\ used' = IF Used + size[t] <= MemoryMB
               THEN [used EXCEPT ![ProcOf[t]] = @ + size[t]] ELSE used
  /\ IF Mapped(t)
       THEN pc' = [pc EXCEPT ![t] = "record"] /\ UNCHANGED <<size, seen, lost>>
       ELSE Back(t) /\ lost' = lost + size[t]
  /\ UNCHANGED <<limit, magic, recorded, proc, allocs, restored, released>>

(* A process without the file records nothing.                             *)
RealAlloc(t) ==
  /\ pc[t] = "alloc"
  /\ Used + size[t] <= MemoryMB
  /\ used' = [used EXCEPT ![ProcOf[t]] = @ + size[t]]
  /\ IF Mapped(t)
       THEN pc' = [pc EXCEPT ![t] = "record"] /\ UNCHANGED <<size, seen, lost>>
       ELSE Back(t) /\ lost' = lost + size[t]
  /\ UNCHANGED <<limit, magic, recorded, proc, allocs, restored, released>>

RealAllocFails(t) ==
  /\ pc[t] = "alloc" /\ Back(t)
  /\ UNCHANGED <<limit, magic, recorded, proc, used, allocs, lost, restored, released>>

(* phoenix_record_alloc, "+=": the amount is read ...                      *)
RecordRead(t) ==
  /\ pc[t] = "record" /\ Unlocked(t)
  /\ seen' = [seen EXCEPT ![t] = recorded]
  /\ pc' = [pc EXCEPT ![t] = "write"]
  /\ UNCHANGED <<limit, magic, recorded, proc, used, size, allocs, lost, restored, released>>

Excess(a, b) == IF a > b THEN a - b ELSE 0

(* ... and written: over what others wrote meanwhile, or over a file that  *)
(* was cleared meanwhile.                                                  *)
RecordWrite(t) ==
  /\ pc[t] = "write"
  /\ recorded' = seen[t] + size[t]
  /\ lost' = lost + Excess(recorded, seen[t])
  /\ restored' = restored + Excess(seen[t], recorded)
  /\ Back(t)
  /\ UNCHANGED <<limit, magic, proc, used, allocs, released>>

(* cuMemFree does not know the size and records nothing.                   *)
Free(t) ==
  /\ pc[t] = "app" /\ proc[ProcOf[t]] \in {"up", "degraded"}
  /\ \E s \in Sizes :
       /\ s + InFlight(ThreadsOf(ProcOf[t])) <= used[ProcOf[t]]
       /\ used' = [used EXCEPT ![ProcOf[t]] = @ - s]
       /\ released' = released + s
  /\ UNCHANGED <<limit, magic, recorded, proc, pc, size, seen, allocs, lost, restored>>

Next ==
  \/ \E p \in Procs : Load(p) \/ LoadFails(p) \/ Clear(p) \/ Exit(p)
  \/ \E t \in Threads : \/ Check(t) \/ RealAlloc(t) \/ RealAllocFails(t)
                        \/ RecordRead(t) \/ RecordWrite(t) \/ Free(t)

Spec == Init /\ [][Next]_vars

-----------------------------------------------------------------------------
(* The amount in the file is what is held, plus what was released and is   *)
(* never subtracted, minus what is on its way and what was lost, plus what *)
(* a late write brought back: nothing else is ever counted or left out.    *)
AccountExact == recorded + InFlight(Threads) + lost = Used + released + restored

(* The container exceeds its limit by what was lost and one request for    *)
(* every thread but one, those that passed the check together; the quota   *)
(* is exact for one process with one thread.                               *)
UsageBounded ==
  limit # 0 =>
    Used <= limit + (Cardinality(Threads) - 1) * Max(Sizes) + lost
=============================================================================
