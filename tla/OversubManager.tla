---------------------------- MODULE OversubManager ----------------------------
(***************************************************************************)
(* pkg/vgpu/oversub.go, OversubManager: three atomic counters that the     *)
(* allocation hooks of all threads update without a lock.  Every atomic    *)
(* operation is a step of its own; a thread keeps what it has loaded until *)
(* it uses it.  The counters are uint64: arithmetic is modulo Modulus.     *)
(* No name is one of VramQuota's, so that a module can extend both.        *)
(* No name is one of VramQuota's, so that a module can extend both.        *)
(***************************************************************************)
EXTENDS Integers, FiniteSets, FiniteSetsExt

CONSTANTS
  Callers,        \* threads that allocate and free
  Requests,       \* sizes in MiB that are requested
  PhysicalCap,    \* physicalCapMiB
  VirtualCap,     \* virtualCapMiB, PhysicalCap times the ratio
  Modulus         \* 2^64

(* No sum of a counter within its capacity and one size overflows.  The    *)
(* ratio may be below 1, which leaves physical memory unused.              *)
ASSUME OversubAssumption ==
  /\ IsFiniteSet(Callers)
  /\ Requests \subseteq Nat \ {0}
  /\ PhysicalCap \in Nat /\ VirtualCap \in Nat /\ Modulus \in Nat \ {0}
  /\ PhysicalCap < Modulus
  /\ \A s \in Requests : VirtualCap + s < Modulus

VARIABLES
  virtual, physical, swap,   \* virtualUsedMiB, physicalUsedMiB, swapUsedMiB
  at,         \* at[t]: where thread t is
  amount,     \* amount[t]: what t allocates, holds or frees
  local,      \* local[t]: the counter t has loaded, or what it still has to move
  freeRaced   \* some Free ran while another call was in progress

oversubVars == <<virtual, physical, swap, at, amount, local, freeRaced>>

Word == 0 .. Modulus - 1
Plus(a, b) == (a + b) % Modulus
Minus(a, b) == (a - b) % Modulus

PCs == {"idle", "casVirtual", "loadPhysical", "casPhysical", "addSwap", "held",
        "loadSwap", "freeSwap", "freePhysical"}
(* Threads inside Free, inside Alloc or Free.                              *)
InFree == {t \in Callers : at[t] \in {"loadSwap", "freeSwap", "freePhysical"}}
InCall == {t \in Callers : at[t] \notin {"idle", "held"}}
(* Threads whose size is part of virtualUsedMiB.                           *)
Counted == {t \in Callers : at[t] \in {"loadPhysical", "casPhysical", "addSwap", "held"}}

OversubTypeOK ==
  /\ virtual \in Word /\ physical \in Word /\ swap \in Word
  /\ at \in [Callers -> PCs]
  /\ amount \in [Callers -> Requests]
  /\ local \in [Callers -> Word]
  /\ freeRaced \in BOOLEAN

OversubInit ==
  /\ virtual = 0 /\ physical = 0 /\ swap = 0
  /\ at = [t \in Callers |-> "idle"]
  /\ amount \in [Callers -> Requests]
  /\ local = [t \in Callers |-> 0]
  /\ freeRaced = FALSE

GotoWith(t, l, value) ==
  /\ at' = [at EXCEPT ![t] = l]
  /\ local' = [local EXCEPT ![t] = value]
Goto(t, l) == GotoWith(t, l, 0)

--------------------------------------------------------------------------------
(* Alloc.                                                                  *)

(* virtualUsedMiB.Load() and the limit; a refused request changes nothing. *)
LoadVirtual(t) ==
  /\ at[t] = "idle"
  /\ \E s \in Requests :
       /\ Plus(virtual, s) <= VirtualCap
       /\ amount' = [amount EXCEPT ![t] = s]
  /\ GotoWith(t, "casVirtual", virtual)
  /\ freeRaced' = (freeRaced \/ InFree # {})
  /\ UNCHANGED <<virtual, physical, swap>>

(* Mutant: the sum computed from the loaded value is stored.               *)
StoreVirtual(t) ==
  /\ at[t] = "casVirtual"
  /\ virtual' = Plus(local[t], amount[t])
  /\ Goto(t, "loadPhysical")
  /\ UNCHANGED <<physical, swap, amount, freeRaced>>

(* The compare-and-swap; when it loses, Load and the limit check again.    *)
CasVirtual(t) ==
  /\ at[t] = "casVirtual"
  /\ \/ /\ virtual = local[t]
        /\ virtual' = Plus(virtual, amount[t])
        /\ Goto(t, "loadPhysical")
     \/ /\ virtual # local[t] /\ Plus(virtual, amount[t]) <= VirtualCap
        /\ GotoWith(t, "casVirtual", virtual)
        /\ UNCHANGED virtual
     \/ /\ virtual # local[t] /\ Plus(virtual, amount[t]) > VirtualCap
        /\ Goto(t, "idle")
        /\ UNCHANGED virtual
  /\ UNCHANGED <<physical, swap, amount, freeRaced>>

LoadPhysical(t) ==
  /\ at[t] = "loadPhysical"
  /\ GotoWith(t, "casPhysical", physical)
  /\ UNCHANGED <<virtual, physical, swap, amount, freeRaced>>

Fits(t) == Plus(local[t], amount[t]) <= PhysicalCap

(* Mutant: the physical counter is stored without comparing.               *)
StorePhysical(t) ==
  /\ at[t] = "casPhysical"
  /\ IF Fits(t)
     THEN physical' = Plus(local[t], amount[t]) /\ Goto(t, "held")
     ELSE /\ physical' = PhysicalCap
          /\ GotoWith(t, "addSwap", Minus(amount[t], PhysicalCap - local[t]))
  /\ UNCHANGED <<virtual, swap, amount, freeRaced>>

(* All into physical memory, or all into swap, or what is left of physical *)
(* memory and the rest into swap; a lost compare-and-swap loads again.     *)
CasPhysical(t) ==
  /\ at[t] = "casPhysical"
  /\ \/ /\ Fits(t) /\ physical = local[t]
        /\ physical' = Plus(physical, amount[t])
        /\ Goto(t, "held")
     \/ /\ ~Fits(t) /\ local[t] >= PhysicalCap
        /\ GotoWith(t, "addSwap", amount[t])
        /\ UNCHANGED physical
     \/ /\ ~Fits(t) /\ local[t] < PhysicalCap /\ physical = local[t]
        /\ physical' = PhysicalCap
        /\ GotoWith(t, "addSwap", Minus(amount[t], PhysicalCap - local[t]))
     \/ /\ Fits(t) \/ local[t] < PhysicalCap
        /\ physical # local[t]
        /\ Goto(t, "loadPhysical")
        /\ UNCHANGED physical
  /\ UNCHANGED <<virtual, swap, amount, freeRaced>>

AddSwap(t) ==
  /\ at[t] = "addSwap"
  /\ swap' = Plus(swap, local[t])
  /\ Goto(t, "held")
  /\ UNCHANGED <<virtual, physical, amount, freeRaced>>

--------------------------------------------------------------------------------
(* Free, of what the thread has allocated.                                 *)
SubVirtual(t) ==
  /\ at[t] = "held"
  /\ virtual' = Minus(virtual, amount[t])
  /\ Goto(t, "loadSwap")
  /\ freeRaced' = (freeRaced \/ InCall # {})
  /\ UNCHANGED <<physical, swap, amount>>

LoadSwap(t) ==
  /\ at[t] = "loadSwap"
  /\ GotoWith(t, "freeSwap", swap)
  /\ UNCHANGED <<virtual, physical, swap, amount, freeRaced>>

(* Out of swap when it held the whole size, else the rest out of physical. *)
FreeSwap(t) ==
  /\ at[t] = "freeSwap"
  /\ \/ /\ local[t] >= amount[t]
        /\ swap' = Minus(swap, amount[t])
        /\ Goto(t, "idle")
        /\ UNCHANGED physical
     \/ /\ 0 < local[t] /\ local[t] < amount[t]
        /\ swap' = 0
        /\ GotoWith(t, "freePhysical", amount[t] - local[t])
        /\ UNCHANGED physical
     \/ /\ local[t] = 0
        /\ physical' = Minus(physical, amount[t])
        /\ Goto(t, "idle")
        /\ UNCHANGED swap
  /\ UNCHANGED <<virtual, amount, freeRaced>>

FreePhysical(t) ==
  /\ at[t] = "freePhysical"
  /\ physical' = Minus(physical, local[t])
  /\ Goto(t, "idle")
  /\ UNCHANGED <<virtual, swap, amount, freeRaced>>

OversubNext ==
  \E t \in Callers :
    \/ LoadVirtual(t) \/ CasVirtual(t) \/ LoadPhysical(t) \/ CasPhysical(t) \/ AddSwap(t)
    \/ SubVirtual(t) \/ LoadSwap(t) \/ FreeSwap(t) \/ FreePhysical(t)

OversubSpec == OversubInit /\ [][OversubNext]_oversubVars

--------------------------------------------------------------------------------
Held == MapThenSumSet(LAMBDA t : amount[t], Counted)

(* virtualUsedMiB is at every moment the sum of the allocations that were  *)
(* granted and not freed, and never above the limit, however Allocs race   *)
(* for the last of it and whatever Free does to the other counters.        *)
VirtualExact == virtual = Held /\ virtual <= VirtualCap

(* As long as no Free overlaps another call, concurrent Allocs divide the  *)
(* memory exactly: physical memory first, the rest in swap.                *)
SplitExactUnlessFreeRaces ==
  ~freeRaced /\ InCall = {} =>
    /\ physical = IF Held <= PhysicalCap THEN Held ELSE PhysicalCap
    /\ swap = Held - physical
================================================================================
