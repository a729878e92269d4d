---------------------------- MODULE BillingProofs ----------------------------
(***************************************************************************)
(* Proofs about the billing engine, for every set of jobs and tenants,     *)
(* every collection interval and both stores.                              *)
(*                                                                         *)
(* What is billed and what was used meet only at the end of a collection;  *)
(* the invariant says what is owed in between, by the ticks that have      *)
(* fired and have not led to a record (InHand, Pending) and by the age of  *)
(* the period that has begun.                                              *)
(***************************************************************************)
EXTENDS Billing, SumTheorems

Working == loop \in {"listing", "recording", "saving"}

(* Where the loop is and what it holds there.                              *)
Stages ==
  /\ Working => serving \in Nat
  /\ loop = "saving" => current \in Jobs \X Record
  /\ loop \notin {"recording", "saving"} => todo = {}
  /\ loop = "saving" => current[1] \notin todo
  /\ loop = "down" => sinceTick = 0 /\ tick = NoTick /\ serving = NoTick
  /\ IsFiniteSet(checks)

LoopInv == TypeOK /\ Stages

(*---------------------------- type correctness -----------------------------*)
LEMMA TenantOfType == ASSUME TypeOK, NEW j \in Jobs PROVE TenantOf(j) \in Tenants
  BY BillingAssumption DEF TypeOK, TenantOf, Tenants

LEMMA InitLoopInv == Init => LoopInv
<1> SUFFICES ASSUME Init PROVE LoopInv
  OBVIOUS
<1>1. TypeOK
  <2>1. now \in 0 .. MaxTime /\ sinceTick \in 0 .. Interval - 1
    BY BillingAssumption DEF Init
  <2>2. spells \in [Jobs -> Nat] /\ phase \in [Jobs -> Phases]
    BY DEF Init, One, Phases
  <2>3. ledger \in [Jobs -> Seq(Record)]
    BY DEF Init
  <2> QED
    BY <2>1, <2>2, <2>3 DEF Init, TypeOK
<1>2. Stages
  BY FS_EmptySet DEF Init, Stages, Working
<1> QED
  BY <1>1, <1>2 DEF LoopInv

LEMMA ChangePhaseLoop ==
  ASSUME LoopInv, NEW j \in Jobs, ChangePhase(j)
  PROVE  LoopInv'
<1>1. phase' \in [Jobs -> Phases] /\ spells' \in [Jobs -> Nat]
  BY DEF ChangePhase, LoopInv, TypeOK
<1> QED
  BY <1>1 DEF ChangePhase, LoopInv, TypeOK, Stages, setup, loopVars, Working

LEMMA LoseType ==
  ASSUME missed \in [Jobs -> Nat], LoseInterval
  PROVE  missed' \in [Jobs -> Nat]
  BY DEF LoseInterval

LEMMA AdvanceLoop ==
  ASSUME LoopInv, Advance
  PROVE  LoopInv'
<1> USE DEF LoopInv
<1>1. now' \in 0 .. MaxTime /\ now \in Nat /\ now + 1 \in Nat
  BY BillingAssumption DEF Advance, TypeOK
<1>2. /\ UNCHANGED <<backend, department, phase, loop, serving, todo, current, ledger,
                     checks, alerts, spells, uncheckedFor>>
  BY DEF Advance, setup, env
<1>3. CASE loop = "down"
  BY <1>1, <1>2, <1>3 DEF Advance, TypeOK, Stages, Working
<1>4. CASE loop # "down"
  <2>0. /\ used' = [j \in Jobs |-> used[j] + One(j)]
        /\ late' = late \cup ({tick} \ {NoTick}) \cup (IF loop = "select" THEN {} ELSE {serving})
    BY <1>4 DEF Advance
  <2>1. used' \in [Jobs -> Nat]
    <3>1. \A j \in Jobs : used[j] \in Nat /\ One(j) \in Nat
      BY DEF TypeOK, One
    <3> QED
      BY <2>0, <3>1
  <2>2. late' \subseteq Nat
    <3>1. loop # "select" => serving \in Nat
      BY <1>4 DEF TypeOK, Stages, Working
    <3>2. {tick} \ {NoTick} \subseteq Nat /\ late \subseteq Nat
      BY DEF TypeOK
    <3> QED
      BY <2>0, <3>1, <3>2
  <2>3. sinceTick' \in 0 .. Interval - 1
    BY <1>4, BillingAssumption DEF Advance, Fire, TypeOK
  <2>4. tick' \in Nat \cup {NoTick} /\ missed' \in [Jobs -> Nat]
    BY <1>1, <1>4, LoseType DEF Advance, Fire, TypeOK
  <2> QED
    BY <1>1, <1>2, <1>4, <2>1, <2>2, <2>3, <2>4 DEF TypeOK, Stages, Working
<1> QED
  BY <1>3, <1>4

LEMMA StartCollectionLoop ==
  ASSUME LoopInv, StartCollection
  PROVE  LoopInv'
  BY DEF StartCollection, LoopInv, TypeOK, Stages, Working, setup, env, history

LEMMA CollectLoop ==
  ASSUME LoopInv, CollectActiveJobs \/ CollectFails
  PROVE  LoopInv'
<1>1. CASE CollectActiveJobs
  BY <1>1 DEF CollectActiveJobs, LoopInv, TypeOK, Stages, Working, setup, env, history
<1>2. CASE CollectFails
  BY <1>2, LoseType DEF CollectFails, LoopInv, TypeOK, Stages, Working, setup
<1> QED
  BY <1>1, <1>2

LEMMA RecordUsageLoop ==
  ASSUME LoopInv, NEW j \in Jobs, RecordUsage(j)
  PROVE  LoopInv'
<1> USE DEF LoopInv
<1> DEFINE r == [start |-> now - Interval, end |-> now, tick |-> serving]
<1>1. r \in Record
  BY BillingAssumption DEF RecordUsage, TypeOK, Stages, Working, Record
<1>2. UNCHANGED <<setup, now, sinceTick, tick, serving, ledger, checks, alerts, env, history>>
  BY DEF RecordUsage
<1>3. todo' = todo \ {j} /\ loop = "recording" /\ j \in todo
  BY DEF RecordUsage
<1>4. CASE Computes(j)
  <2>1. current' = <<j, r>> /\ loop' = "saving"
    BY <1>4 DEF RecordUsage
  <2> QED
    BY <1>1, <1>2, <1>3, <2>1 DEF TypeOK, Stages, Working, setup, env, history
<1>5. CASE ~Computes(j)
  <2>1. current' = current /\ loop' = IF todo' = {} THEN "select" ELSE "recording"
    BY <1>5 DEF RecordUsage
  <2> QED
    BY <1>2, <1>3, <2>1 DEF TypeOK, Stages, Working, setup, env, history
<1> QED
  BY <1>4, <1>5

LEMMA InsertType ==
  ASSUME LoopInv, loop = "saving", Insert
  PROVE  /\ ledger' \in [Jobs -> Seq(Record)]
         /\ current[1] \in Jobs /\ current[2] \in Record
         /\ ledger'[current[1]] = Append(ledger[current[1]], current[2])
         /\ \A j \in Jobs \ {current[1]} : ledger'[j] = ledger[j]
<1>1. current[1] \in Jobs /\ current[2] \in Record
  BY DEF LoopInv, Stages
<1>2. Append(ledger[current[1]], current[2]) \in Seq(Record)
  BY <1>1 DEF LoopInv, TypeOK
<1> HIDE DEF Record
<1> QED
  BY <1>1, <1>2 DEF Insert, LoopInv, TypeOK

LEMMA SaveRecordLoop ==
  ASSUME LoopInv, SaveRecord
  PROVE  LoopInv'
<1> USE DEF LoopInv
<1>1. ledger' \in [Jobs -> Seq(Record)] /\ current[1] \in Jobs
  BY InsertType DEF SaveRecord
<1>2. NewCheck(current[1]) \in Check
  <2>1. TenantOf(current[1]) \in Tenants
    BY <1>1, TenantOfType
  <2>2. Len(ledger[current[1]]) + 1 \in Nat
    BY <1>1 DEF TypeOK
  <2> QED
    BY <1>1, <2>1, <2>2 DEF NewCheck, Check
<1>3. IsFiniteSet(checks')
  BY FS_AddElement DEF SaveRecord, Stages
<1> QED
  BY <1>1, <1>2, <1>3 DEF SaveRecord, AfterRecord, TypeOK, Stages, Working, setup, env, history

LEMMA SaveFailsLoop ==
  ASSUME LoopInv, SaveFails
  PROVE  LoopInv'
<1> USE DEF LoopInv
<1>1. current[1] \in Jobs /\ TenantOf(current[1]) \in Tenants
  BY TenantOfType DEF SaveFails, Stages
<1>2. ledger' \in [Jobs -> Seq(Record)]
  BY InsertType DEF SaveFails, TypeOK
<1>3. missed' \in [Jobs -> Nat] /\ uncheckedFor' \subseteq Tenants
  <2>1. missed' = missed \/ missed' = [missed EXCEPT ![current[1]] = @ + 1]
    BY DEF SaveFails
  <2>2. uncheckedFor' = uncheckedFor \/ uncheckedFor' = uncheckedFor \cup {TenantOf(current[1])}
    BY DEF SaveFails
  <2>3. missed \in [Jobs -> Nat] /\ missed[current[1]] + 1 \in Nat /\ uncheckedFor \subseteq Tenants
    BY <1>1 DEF TypeOK
  <2> QED
    BY <1>1, <2>1, <2>2, <2>3
<1> QED
  BY <1>1, <1>2, <1>3 DEF SaveFails, AfterRecord, TypeOK, Stages, Working, setup

LEMMA CheckStepLoop ==
  ASSUME LoopInv, NEW c \in checks, CheckStep(c)
  PROVE  LoopInv'
<1> USE DEF LoopInv
<1>1. c \in Check /\ c.tenant \in Tenants
  BY DEF TypeOK, Check
<1>2. HookCall(c) \in Check
  <2>1. c.record \in Jobs \X Nat
    BY <1>1 DEF Check
  <2> QED
    BY <1>1, <2>1 DEF Check, HookCall
<1>3. c.tries # 2 => [c EXCEPT !.tries = @ + 1] \in Check
  <2>1. c.tries # 2 => c.tries + 1 \in 0 .. 2
    BY <1>1 DEF Check
  <2>2. \A n \in 0 .. 2 : [c EXCEPT !.tries = n] \in Check
    BY <1>1 DEF Check
  <2> QED
    BY <2>1, <2>2
<1>4. \E S \in SUBSET Check : IsFiniteSet(S) /\ checks' = (checks \ {c}) \cup S
  <2>1. \A e \in Check : {e} \in SUBSET Check /\ IsFiniteSet({e})
    BY FS_Singleton
  <2>2. {} \in SUBSET Check /\ IsFiniteSet({})
    BY FS_EmptySet
  <2>3. CASE GetQuotaStatus(c)
    BY <1>2, <2>1, <2>2, <2>3 DEF GetQuotaStatus
  <2>4. CASE GetQuotaStatusFails(c)
    BY <1>3, <2>1, <2>2, <2>4 DEF GetQuotaStatusFails, Retry
  <2>5. CASE HookSucceeds(c)
    BY <2>2, <2>5 DEF HookSucceeds
  <2>6. CASE HookFails(c)
    BY <1>3, <2>1, <2>2, <2>6 DEF HookFails, Retry
  <2> QED
    BY <2>3, <2>4, <2>5, <2>6 DEF CheckStep
<1>5. checks' \subseteq Check /\ IsFiniteSet(checks')
  <2>1. IsFiniteSet(checks \ {c})
    BY FS_Subset DEF Stages
  <2>2. PICK S \in SUBSET Check : IsFiniteSet(S) /\ checks' = (checks \ {c}) \cup S
    BY <1>4
  <2>3. IsFiniteSet((checks \ {c}) \cup S)
    BY <2>1, <2>2, FS_Union
  <2> QED
    BY <2>2, <2>3 DEF TypeOK
<1>6. alerts' \in [Tenants -> Nat] /\ uncheckedFor' \subseteq Tenants
  <2>1. alerts' = alerts \/ alerts' = [alerts EXCEPT ![c.tenant] = @ + 1]
    BY DEF CheckStep, GetQuotaStatus, GetQuotaStatusFails, HookSucceeds, HookFails
  <2>2. uncheckedFor' = uncheckedFor \/ uncheckedFor' = uncheckedFor \cup {c.tenant}
    BY DEF CheckStep, GetQuotaStatus, GetQuotaStatusFails, HookSucceeds, HookFails, Retry
  <2>3. alerts \in [Tenants -> Nat] /\ alerts[c.tenant] + 1 \in Nat /\ uncheckedFor \subseteq Tenants
    BY <1>1 DEF TypeOK
  <2> QED
    BY <1>1, <2>1, <2>2, <2>3
<1>7. UNCHANGED checkOnly
  BY DEF CheckStep, GetQuotaStatus, GetQuotaStatusFails, HookSucceeds, HookFails
<1> QED
  BY <1>5, <1>6, <1>7 DEF checkOnly, setup, loopVars, TypeOK, Stages, Working

LEMMA CrashLoop ==
  ASSUME LoopInv, Crash
  PROVE  LoopInv'
<1> USE DEF LoopInv
<1>1. /\ loop' = "down" /\ sinceTick' = 0 /\ tick' = NoTick /\ serving' = NoTick
      /\ todo' = {} /\ current' = NoRecord /\ checks' = {}
      /\ UNCHANGED <<backend, department, now, phase>>
  BY DEF Crash, setup
<1>2. \A j \in Jobs : TicksInHand(j) \in Nat /\ One(j) \in Nat
  BY DEF TicksInHand, One
<1>3. CASE backend = "memory"
  <2>1. ledger' \in [Jobs -> Seq(Record)]
    <3>1. ledger' = [j \in Jobs |-> <<>>]
      BY <1>3 DEF Crash
    <3>2. <<>> \in Seq(Record)
      OBVIOUS
    <3> QED
      BY <3>1, <3>2
  <2>2. /\ alerts' \in [Tenants -> Nat] /\ used' \in [Jobs -> Nat] /\ missed' \in [Jobs -> Nat]
        /\ spells' \in [Jobs -> Nat] /\ late' = {} /\ uncheckedFor' = {}
    <3>1. /\ alerts' = [t \in Tenants |-> 0]
          /\ used' = [j \in Jobs |-> 0] /\ missed' = [j \in Jobs |-> 0]
          /\ spells' = [j \in Jobs |-> One(j)]
          /\ late' = {} /\ uncheckedFor' = {}
      BY <1>3 DEF Crash
    <3> QED
      BY <1>2, <3>1
  <2> QED
    BY <1>1, <2>1, <2>2, FS_EmptySet, BillingAssumption DEF TypeOK, Stages, Working
<1>4. CASE backend # "memory"
  <2>1. ledger' \in [Jobs -> Seq(Record)]
    BY <1>4, InsertType DEF Crash, TypeOK
  <2>2. missed' \in [Jobs -> Nat] /\ spells' \in [Jobs -> Nat]
    BY <1>2, <1>4 DEF Crash, TypeOK
  <2>3. uncheckedFor' \subseteq Tenants
    BY <1>4, TenantOfType DEF Crash, TypeOK, Stages, Check
  <2>4. UNCHANGED <<alerts, used, late>>
    BY <1>4 DEF Crash
  <2> QED
    BY <1>1, <2>1, <2>2, <2>3, <2>4, FS_EmptySet, BillingAssumption DEF TypeOK, Stages, Working
<1> QED
  BY <1>3, <1>4

LEMMA NextLoop ==
  ASSUME LoopInv, [Next]_vars
  PROVE  LoopInv'
<1>1. CASE Start
  BY <1>1 DEF Start, LoopInv, TypeOK, Stages, Working, setup, env, history
<1>2. CASE UNCHANGED vars
  BY <1>2 DEF vars, setup, loopVars, env, history, LoopInv, TypeOK, Stages, Working
<1> QED
  BY <1>1, <1>2, ChangePhaseLoop, AdvanceLoop, StartCollectionLoop, CollectLoop, RecordUsageLoop,
     SaveRecordLoop, SaveFailsLoop, CheckStepLoop, CrashLoop DEF Next

LEMMA LoopInvariance == Spec => []LoopInv
  BY InitLoopInv, NextLoop, PTL DEF Spec

(* Type correctness of the billing engine.                                 *)
THEOREM BillingTypeCorrect == Spec => []TypeOK
  BY LoopInvariance, PTL DEF LoopInv

(*-------------------------------- the clock --------------------------------*)
(* Ticks are at least an interval apart, and one that was not taken at     *)
(* once is known to be late.                                               *)
LastTick == now - sinceTick

ClockInv ==
  /\ sinceTick <= now
  /\ tick # NoTick => tick <= LastTick
  /\ serving # NoTick => serving <= LastTick
  /\ tick # NoTick /\ serving # NoTick => serving + Interval <= tick
  /\ IsFiniteSet(late) /\ \A t \in late : t <= LastTick
  /\ tick # NoTick /\ sinceTick > 0 => tick \in late
  /\ loop = "listing" /\ (sinceTick > 0 \/ tick # NoTick) => serving \in late

LEMMA Numbers ==
  ASSUME TypeOK
  PROVE  /\ now \in Nat /\ sinceTick \in Nat /\ sinceTick < Interval
         /\ Interval \in Nat \ {0} /\ MaxTime \in Nat /\ NoTick \notin Nat
         /\ tick # NoTick => tick \in Nat
         /\ serving # NoTick => serving \in Nat
         /\ late \subseteq Nat
         /\ LastTick \in Int
  BY BillingAssumption DEF TypeOK, LastTick

LEMMA InitClock == Init => ClockInv
  BY FS_EmptySet DEF Init, ClockInv, LastTick

(* Steps that take no time and serve no new tick.                          *)
LEMMA ClockKept ==
  ASSUME ClockInv, UNCHANGED <<now, sinceTick, tick, serving, late>>,
         loop' = "listing" => loop = "listing"
  PROVE  ClockInv'
  BY DEF ClockInv, LastTick

LEMMA StartCollectionClock ==
  ASSUME TypeOK, ClockInv, StartCollection
  PROVE  ClockInv'
<1>1. /\ tick # NoTick /\ serving' = tick /\ tick' = NoTick /\ loop' = "listing"
      /\ UNCHANGED <<now, sinceTick, late>>
  BY DEF StartCollection, history
<1> QED
  BY <1>1 DEF ClockInv, LastTick

LEMMA CrashClock ==
  ASSUME TypeOK, ClockInv, Crash
  PROVE  ClockInv'
<1>1. /\ tick' = NoTick /\ serving' = NoTick /\ loop' = "down" /\ now' = now /\ sinceTick' = 0
      /\ late' = late \/ late' = {}
  BY DEF Crash
<1>2. LastTick <= now /\ LastTick' = now /\ now >= 0
  BY <1>1, Numbers DEF ClockInv, LastTick
<1>3. IsFiniteSet(late') /\ \A t \in late' : t <= LastTick'
  <2>1. \A t \in late : t <= now
    BY <1>2, Numbers DEF ClockInv
  <2> QED
    BY <1>1, <1>2, <2>1, FS_EmptySet DEF ClockInv
<1> QED
  BY <1>1, <1>2, <1>3, Numbers DEF ClockInv

LEMMA AdvanceClock ==
  ASSUME LoopInv, ClockInv, Advance
  PROVE  ClockInv'
<1> USE DEF LoopInv
<1>1. now' = now + 1 /\ serving' = serving /\ loop' = loop
  BY DEF Advance
<1>2. CASE loop = "down"
  <2>1. sinceTick' = 0 /\ tick' = NoTick /\ serving' = NoTick /\ late' = late /\ sinceTick = 0
    BY <1>1, <1>2 DEF Advance, Stages
  <2>2. LastTick' = LastTick + 1
    BY <1>1, <2>1, Numbers DEF LastTick
  <2> QED
    BY <1>1, <1>2, <2>1, <2>2, Numbers DEF ClockInv
<1>3. CASE loop # "down"
  <2> DEFINE fresh == ({tick} \ {NoTick}) \cup (IF loop = "select" THEN {} ELSE {serving})
  <2>1. late' = late \cup fresh
    BY <1>3 DEF Advance
  <2>2. LastTick' = LastTick \/ LastTick' = LastTick + Interval
    BY <1>1, <1>3, Numbers DEF Advance, Fire, LastTick
  <2>3. LastTick <= LastTick' /\ LastTick' \in Int
    BY <2>2, Numbers
  <2>4. loop # "select" => serving \in Nat
    BY <1>3 DEF Stages, Working, TypeOK
  <2>5. IsFiniteSet(late') /\ \A t \in late' : t <= LastTick'
    <3>1. IsFiniteSet(fresh)
      <4>1. IsFiniteSet({tick}) /\ IsFiniteSet({serving}) /\ IsFiniteSet({})
        BY FS_Singleton, FS_EmptySet
      <4>2. IsFiniteSet({tick} \ {NoTick})
        BY <4>1, FS_Subset
      <4> QED
        BY <4>1, <4>2, FS_Union
    <3>2. \A t \in fresh : t <= LastTick /\ t \in Nat
      BY <2>4, Numbers DEF ClockInv
    <3> HIDE DEF fresh
    <3>3. IsFiniteSet(late \cup fresh)
      BY <3>1, FS_Union DEF ClockInv
    <3> QED
      BY <2>1, <2>3, <3>2, <3>3, Numbers DEF ClockInv
  <2>6. sinceTick' <= now' /\ sinceTick' \in Nat
    BY <1>1, <1>3, Numbers DEF Advance, Fire, ClockInv
  <2>7. serving' # NoTick => serving' <= LastTick'
    BY <1>1, <2>3, Numbers DEF ClockInv
  <2>8. loop # "select" => serving \in late'
    BY <2>1
  <2>9. loop' = "listing" /\ (sinceTick' > 0 \/ tick' # NoTick) => serving' \in late'
    BY <1>1, <2>8
  <2>10. CASE tick' = tick
    <3>1. tick # NoTick => tick \in late'
      BY <2>1
    <3>2. tick # NoTick => tick <= LastTick'
      BY <2>3, Numbers DEF ClockInv
    <3> QED
      BY <1>1, <2>5, <2>6, <2>7, <2>9, <2>10, <3>1, <3>2 DEF ClockInv
  <2>11. CASE tick' # tick
    <3>1. /\ sinceTick + 1 = Interval /\ sinceTick' = 0 /\ tick' = now + 1
      BY <1>3, <2>11 DEF Advance, Fire
    <3>2. LastTick' = now + 1 /\ LastTick + Interval = now + 1
      BY <1>1, <3>1, Numbers DEF LastTick
    <3>3. serving # NoTick => serving + Interval <= tick'
      BY <3>1, <3>2, Numbers DEF ClockInv
    <3>4. tick' <= LastTick' /\ ~(sinceTick' > 0)
      BY <3>1, <3>2, Numbers
    <3> QED
      BY <1>1, <2>5, <2>6, <2>7, <2>9, <3>3, <3>4 DEF ClockInv
  <2> QED
    BY <2>10, <2>11
<1> QED
  BY <1>2, <1>3

LEMMA NextClock ==
  ASSUME LoopInv, ClockInv, [Next]_vars
  PROVE  ClockInv'
<1>1. ASSUME NEW j \in Jobs, ChangePhase(j) \/ RecordUsage(j)
      PROVE  ClockInv'
  BY <1>1, ClockKept DEF ChangePhase, RecordUsage, loopVars, history
<1>2. ASSUME NEW c \in checks, CheckStep(c)
      PROVE  ClockInv'
  BY <1>2, ClockKept DEF CheckStep, GetQuotaStatus, GetQuotaStatusFails, HookSucceeds, HookFails,
                         checkOnly, loopVars
<1>3. CASE CollectActiveJobs \/ CollectFails
  BY <1>3, ClockKept DEF CollectActiveJobs, CollectFails, history
<1>4. CASE SaveRecord \/ SaveFails
  BY <1>4, ClockKept DEF SaveRecord, SaveFails, AfterRecord, history
<1>5. CASE Start \/ UNCHANGED vars
  BY <1>5, ClockKept DEF Start, vars, loopVars, history
<1> QED
  BY <1>1, <1>2, <1>3, <1>4, <1>5, AdvanceClock, StartCollectionClock, CrashClock DEF Next, LoopInv

(*------------------------------- the ledger --------------------------------*)
(* A record of j is under way for the tick being served.                   *)
Owed(j) == j \in todo \/ (loop = "saving" /\ current[1] = j)
Expected(j) == loop = "listing" \/ Owed(j)

(* A record spans an interval and was dated when its tick had come.        *)
Whole(r) == r.end - r.start = Interval /\ r.tick <= r.end

(* The records of a job are of different ticks, in order, and a tick that  *)
(* may still lead to one comes after all of them.                          *)
LedgerInv ==
  /\ loop = "saving" => Whole(current[2]) /\ current[2].tick = serving
  /\ \A j \in Jobs : \A i \in DOMAIN ledger[j] :
       /\ Whole(ledger[j][i])
       /\ ledger[j][i].tick <= LastTick
       /\ Expected(j) => ledger[j][i].tick + Interval <= serving
       /\ tick # NoTick => ledger[j][i].tick + Interval <= tick
       /\ \A k \in DOMAIN ledger[j] : i < k => ledger[j][i].tick + Interval <= ledger[j][k].tick

LEMMA RecordType ==
  ASSUME TypeOK, NEW j \in Jobs, NEW i \in DOMAIN ledger[j]
  PROVE  /\ ledger[j][i] \in Record
         /\ ledger[j][i].tick \in Nat /\ ledger[j][i].start \in Int /\ ledger[j][i].end \in Nat
<1>1. ledger[j] \in Seq(Record)
  BY DEF TypeOK
<1>2. ledger[j][i] \in Record
  <2> HIDE DEF Record
  <2> QED
    BY <1>1
<1> QED
  BY <1>2 DEF Record

LEMMA InitLedger == Init => LedgerInv
  BY DEF Init, LedgerInv

(* Steps that write no record.                                             *)
LEMMA LedgerKept ==
  ASSUME TypeOK, TypeOK', LedgerInv, ledger' = ledger, LastTick <= LastTick',
         loop' = "saving" => Whole(current'[2]) /\ current'[2].tick = serving',
         tick' # NoTick => tick' = tick \/ LastTick + Interval <= tick',
         serving' = serving \/ (tick # NoTick /\ serving' = tick) \/ ~\E j \in Jobs : Expected(j)',
         \A j \in Jobs : Expected(j)' => Expected(j) \/ (tick # NoTick /\ serving' = tick)
  PROVE  LedgerInv'
<1> SUFFICES ASSUME NEW j \in Jobs, NEW i \in DOMAIN ledger[j]
             PROVE  /\ Whole(ledger[j][i])
                    /\ ledger[j][i].tick <= LastTick'
                    /\ Expected(j)' => ledger[j][i].tick + Interval <= serving'
                    /\ tick' # NoTick => ledger[j][i].tick + Interval <= tick'
                    /\ \A k \in DOMAIN ledger[j] :
                         i < k => ledger[j][i].tick + Interval <= ledger[j][k].tick
  BY DEF LedgerInv, Whole
<1> DEFINE t == ledger[j][i].tick
<1>1. t \in Nat
  BY RecordType
<1>2. /\ Whole(ledger[j][i])
      /\ t <= LastTick
      /\ Expected(j) => t + Interval <= serving
      /\ tick # NoTick => t + Interval <= tick
      /\ \A k \in DOMAIN ledger[j] : i < k => t + Interval <= ledger[j][k].tick
  BY DEF LedgerInv
<1>3. LastTick \in Int /\ LastTick' \in Int /\ Interval \in Nat /\ (tick' # NoTick => tick' \in Nat)
  <2>1. LastTick' \in Int /\ (tick' # NoTick => tick' \in Nat)
    BY BillingAssumption DEF TypeOK, LastTick
  <2> QED
    BY <2>1, Numbers
<1> HIDE DEF t
<1>4. t <= LastTick'
  BY <1>1, <1>2, <1>3
<1>5. Expected(j)' => t + Interval <= serving'
  BY <1>2
<1>6. tick' # NoTick => t + Interval <= tick'
  BY <1>1, <1>2, <1>3
<1> QED
  BY <1>2, <1>4, <1>5, <1>6 DEF t

(* Steps that write one: it is the last of its job, for the tick served.   *)
LEMMA LedgerGrows ==
  ASSUME LoopInv, LoopInv', ClockInv, LedgerInv, loop = "saving", Insert,
         LastTick <= LastTick', tick' = tick \/ tick' = NoTick, loop' # "saving",
         \A j \in Jobs : Expected(j)' => j # current[1] /\ Expected(j) /\ serving' = serving
  PROVE  LedgerInv'
<1> DEFINE c == current[1]
           r == current[2]
           old == ledger[c]
           n == Len(old)
<1>0. TypeOK /\ TypeOK' /\ Stages
  BY DEF LoopInv
<1>1. /\ c \in Jobs /\ r \in Record /\ ledger'[c] = Append(old, r)
      /\ \A j \in Jobs \ {c} : ledger'[j] = ledger[j]
  BY InsertType
<1>2. /\ n \in Nat /\ DOMAIN old = 1 .. n /\ DOMAIN ledger'[c] = 1 .. n + 1
      /\ \A i \in 1 .. n : ledger'[c][i] = old[i]
      /\ ledger'[c][n + 1] = r
  <2>1. old \in Seq(Record)
    BY <1>0, <1>1 DEF TypeOK
  <2> HIDE DEF old, r, Record
  <2> QED
    BY <1>1, <2>1
<1>3. Whole(r) /\ r.tick = serving /\ Expected(c) /\ serving \in Nat
  BY <1>0 DEF LedgerInv, Expected, Owed, Stages, Working
<1>4. serving <= LastTick /\ (tick # NoTick => serving + Interval <= tick)
  BY <1>0, <1>3, Numbers DEF ClockInv
<1>5. LastTick \in Int /\ LastTick' \in Int /\ Interval \in Nat \ {0}
  <2>1. LastTick' \in Int
    BY <1>0, BillingAssumption DEF TypeOK, LastTick
  <2> QED
    BY <1>0, <2>1, Numbers
<1>6. serving <= LastTick'
  BY <1>3, <1>4, <1>5
<1>7. ASSUME NEW j \in Jobs, NEW i \in DOMAIN ledger[j]
      PROVE  /\ ledger[j][i].tick \in Nat
             /\ Whole(ledger[j][i])
             /\ ledger[j][i].tick <= LastTick'
             /\ Expected(j)' => ledger[j][i].tick + Interval <= serving'
             /\ tick' # NoTick => ledger[j][i].tick + Interval <= tick'
             /\ \A k \in DOMAIN ledger[j] : i < k => ledger[j][i].tick + Interval <= ledger[j][k].tick
             /\ j = c => ledger[j][i].tick + Interval <= serving
  <2>1. ledger[j][i].tick \in Nat
    BY <1>0, RecordType
  <2>2. ledger[j][i].tick <= LastTick
    BY DEF LedgerInv
  <2>3. ledger[j][i].tick <= LastTick'
    BY <1>5, <2>1, <2>2
  <2> QED
    BY <1>3, <2>1, <2>3 DEF LedgerInv
<1>8. ASSUME NEW j \in Jobs, NEW i \in DOMAIN ledger'[j]
      PROVE  /\ Whole(ledger'[j][i])
             /\ ledger'[j][i].tick <= LastTick'
             /\ Expected(j)' => ledger'[j][i].tick + Interval <= serving'
             /\ tick' # NoTick => ledger'[j][i].tick + Interval <= tick'
             /\ \A k \in DOMAIN ledger'[j] :
                  i < k => ledger'[j][i].tick + Interval <= ledger'[j][k].tick
  <2>1. CASE j # c
    BY <1>1, <1>7, <2>1
  <2>2. CASE j = c /\ i = n + 1
    <3>1. ledger'[j][i] = r /\ ~\E k \in DOMAIN ledger'[j] : i < k
      BY <1>2, <2>2
    <3>2. ~Expected(j)'
      BY <1>1, <2>2
    <3> QED
      BY <1>3, <1>4, <1>6, <3>1, <3>2
  <2>3. CASE j = c /\ i # n + 1
    <3>1. i \in DOMAIN ledger[j] /\ ledger'[j][i] = ledger[j][i]
      BY <1>2, <2>3
    <3>2. ASSUME NEW k \in DOMAIN ledger'[j], i < k
          PROVE  ledger'[j][i].tick + Interval <= ledger'[j][k].tick
      <4>1. k = n + 1 \/ (k \in DOMAIN ledger[j] /\ ledger'[j][k] = ledger[j][k])
        BY <1>2, <2>3
      <4> QED
        BY <1>2, <1>3, <1>7, <2>3, <3>1, <3>2, <4>1
    <3> QED
      BY <1>7, <3>1, <3>2
  <2> QED
    BY <2>1, <2>2, <2>3
<1> QED
  BY <1>8 DEF LedgerInv, Whole

LEMMA NextLedger ==
  ASSUME LoopInv, LoopInv', ClockInv, LedgerInv, [Next]_vars
  PROVE  LedgerInv'
<1>0. TypeOK /\ TypeOK' /\ Stages /\ LastTick \in Int /\ NoTick \notin Nat
  BY Numbers DEF LoopInv
<1>1. ASSUME UNCHANGED <<now, sinceTick, tick, serving, todo, current, ledger>>,
             loop' = loop
      PROVE  LedgerInv'
  BY <1>0, <1>1 DEF LedgerInv, Expected, Owed, Whole, LastTick
<1>2. ASSUME NEW j \in Jobs, ChangePhase(j)
      PROVE  LedgerInv'
  BY <1>1, <1>2 DEF ChangePhase, loopVars
<1>3. ASSUME NEW c \in checks, CheckStep(c)
      PROVE  LedgerInv'
  BY <1>1, <1>3 DEF CheckStep, GetQuotaStatus, GetQuotaStatusFails, HookSucceeds, HookFails,
                    checkOnly, loopVars
<1>4. CASE UNCHANGED vars
  BY <1>1, <1>4 DEF vars, loopVars
<1>5. CASE Advance
  <2>1. UNCHANGED <<ledger, loop, serving, todo, current>>
    BY <1>5 DEF Advance
  <2>2. LastTick <= LastTick' /\ (tick' # NoTick => tick' = tick \/ LastTick + Interval <= tick')
    <3>1. CASE loop = "down"
      BY <1>0, <1>5, <3>1, Numbers DEF Advance, LastTick
    <3>2. CASE loop # "down"
      BY <1>0, <1>5, <3>2, Numbers DEF Advance, Fire, LastTick
    <3> QED
      BY <3>1, <3>2
  <2>3. loop' = "saving" => Whole(current'[2]) /\ current'[2].tick = serving'
    BY <2>1 DEF LedgerInv
  <2>4. \A j \in Jobs : Expected(j)' => Expected(j)
    BY <2>1 DEF Expected, Owed
  <2> QED
    BY <1>0, <2>1, <2>2, <2>3, <2>4, LedgerKept
<1>6. CASE StartCollection
  <2>1. /\ UNCHANGED <<now, sinceTick, ledger>>
        /\ loop' = "listing" /\ tick # NoTick /\ serving' = tick /\ tick' = NoTick
    BY <1>6 DEF StartCollection
  <2>2. LastTick <= LastTick'
    BY <1>0, <2>1 DEF LastTick
  <2> QED
    BY <1>0, <2>1, <2>2, LedgerKept
<1>7. ASSUME UNCHANGED <<now, sinceTick, tick, serving, ledger>>,
             loop' = "saving" => Whole(current'[2]) /\ current'[2].tick = serving',
             \A j \in Jobs : Expected(j)' => Expected(j)
      PROVE  LedgerInv'
  <2>1. LastTick <= LastTick'
    BY <1>0, <1>7 DEF LastTick
  <2> QED
    BY <1>0, <1>7, <2>1, LedgerKept
<1>8. CASE CollectActiveJobs \/ CollectFails
  BY <1>7, <1>8 DEF CollectActiveJobs, CollectFails, Expected, Owed
<1>9. ASSUME NEW j \in Jobs, RecordUsage(j)
      PROVE  LedgerInv'
  <2>1. UNCHANGED <<now, sinceTick, tick, serving, ledger>>
    BY <1>9 DEF RecordUsage
  <2>2. loop' = "saving" => Whole(current'[2]) /\ current'[2].tick = serving'
    <3>1. ASSUME loop' = "saving"
          PROVE  /\ current'[2] = [start |-> now - Interval, end |-> now, tick |-> serving]
                 /\ serving' = serving
      BY <1>9, <3>1 DEF RecordUsage
    <3>2. now - (now - Interval) = Interval
      BY <1>0, Numbers
    <3>3. serving \in Nat /\ serving <= LastTick /\ LastTick <= now
      BY <1>0, <1>9, Numbers DEF RecordUsage, Stages, Working, ClockInv, LastTick
    <3>4. serving <= now
      BY <1>0, <3>3, Numbers
    <3> QED
      BY <3>1, <3>2, <3>4 DEF Whole
  <2>3. \A k \in Jobs : Expected(k)' => Expected(k)
    BY <1>9 DEF RecordUsage, Expected, Owed
  <2> QED
    BY <1>7, <2>1, <2>2, <2>3
<1>10. CASE SaveRecord \/ SaveFails
  <2>1. /\ UNCHANGED <<now, sinceTick, tick, serving, todo>>
        /\ loop = "saving" /\ loop' \in {"select", "recording"}
    BY <1>10 DEF SaveRecord, SaveFails, AfterRecord
  <2>2. \A j \in Jobs : Expected(j)' => Expected(j) /\ j # current[1]
    BY <1>0, <2>1 DEF Expected, Owed, Stages
  <2>3. LastTick <= LastTick'
    BY <1>0, <2>1 DEF LastTick
  <2>4. CASE Insert
    BY <2>1, <2>2, <2>3, <2>4, LedgerGrows
  <2>5. CASE ledger' = ledger
    BY <1>7, <2>1, <2>2, <2>5
  <2> QED
    BY <1>10, <2>4, <2>5 DEF SaveRecord, SaveFails
<1>11. CASE Crash
  <2>1. /\ loop' = "down" /\ todo' = {} /\ tick' = NoTick /\ sinceTick' = 0 /\ now' = now
    BY <1>11 DEF Crash
  <2>2. ~\E j \in Jobs : Expected(j)'
    BY <2>1 DEF Expected, Owed
  <2>3. LastTick <= LastTick'
    BY <1>0, <2>1, Numbers DEF LastTick
  <2>4. CASE ledger' = [j \in Jobs |-> <<>>]
    BY <2>1, <2>4 DEF LedgerInv
  <2>5. CASE loop = "saving" /\ Insert
    BY <2>1, <2>2, <2>3, <2>5, LedgerGrows
  <2>6. CASE ledger' = ledger
    BY <1>0, <2>1, <2>2, <2>3, <2>6, LedgerKept
  <2> QED
    BY <1>11, <2>4, <2>5, <2>6 DEF Crash
<1>12. CASE Start
  BY <1>7, <1>12 DEF Start, Expected, Owed
<1> QED
  BY <1>2, <1>3, <1>4, <1>5, <1>6, <1>8, <1>9, <1>10, <1>11, <1>12 DEF Next

LedgerState == LoopInv /\ ClockInv /\ LedgerInv

LEMMA LedgerInvariance == Spec => []LedgerState
<1>1. Init => LedgerState
  BY InitLoopInv, InitClock, InitLedger DEF LedgerState
<1>2. LedgerState /\ [Next]_vars => LedgerState'
  BY NextLoop, NextClock, NextLedger DEF LedgerState
<1> QED
  BY <1>1, <1>2, PTL DEF Spec

(* No job is billed twice for one tick, and the intervals of two records   *)
(* overlap at most by the time the first was late, whatever replies are    *)
(* lost and however often the engine crashes.                              *)
THEOREM NothingBilledTwice == Spec => []NoDoubleBilling
<1>1. ASSUME LedgerState PROVE NoDoubleBilling
  <2>0. TypeOK /\ LedgerInv
    BY <1>1 DEF LedgerState, LoopInv
  <2>1. ASSUME NEW j \in Jobs, NEW i \in DOMAIN ledger[j], NEW k \in DOMAIN ledger[j], i < k
        PROVE  /\ ledger[j][i].tick < ledger[j][k].tick
               /\ ledger[j][i].end - ledger[j][k].start <= ledger[j][i].end - ledger[j][i].tick
    <3>1. /\ ledger[j][i].tick \in Nat /\ ledger[j][i].end \in Nat
          /\ ledger[j][k].tick \in Nat /\ ledger[j][k].start \in Int /\ ledger[j][k].end \in Nat
      BY <2>0, RecordType
    <3>2. /\ ledger[j][i].tick + Interval <= ledger[j][k].tick
          /\ ledger[j][k].end - ledger[j][k].start = Interval
          /\ ledger[j][k].tick <= ledger[j][k].end
      BY <2>0, <2>1 DEF LedgerInv, Whole
    <3>3. Interval \in Nat \ {0}
      BY BillingAssumption
    <3> QED
      BY <3>1, <3>2, <3>3
  <2> QED
    BY <2>1 DEF NoDoubleBilling
<1> QED
  BY <1>1, LedgerInvariance, PTL

(*------------------------------ what is owed -------------------------------*)
(* Ticks that have fired and whose list has not been asked for; records    *)
(* that are under way; multiples of the interval.                          *)
InHand == ({tick} \ {NoTick}) \cup (IF loop = "listing" THEN {serving} ELSE {})
Pending(j) == IF Owed(j) THEN 1 ELSE 0
Credit(j) == Len(ledger[j]) + Pending(j)
Intervals(n) == Interval * n

Hand == Cardinality(InHand)
Late == Cardinality(late)
(* Late ticks that no longer wait.                                         *)
Settled == Cardinality(late \ InHand)

Upper(j) ==
  IF Active(j)
  THEN Intervals(Credit(j) + Hand - spells[j] - Late) + sinceTick <= used[j]
  ELSE Intervals(Credit(j) - spells[j] - Settled) <= used[j]
Lower(j) ==
  IF Active(j)
  THEN used[j] <= Intervals(Credit(j) + Hand + missed[j] + spells[j] - 1 + Settled) + sinceTick
  ELSE used[j] <= Intervals(Credit(j) + missed[j] + spells[j] + Late)
UseInv == \A j \in Jobs : Computes(j) => Upper(j) /\ Lower(j)

LEMMA Scale ==
  /\ \A n \in Int : Intervals(n) \in Int /\ Intervals(n + 1) = Intervals(n) + Interval
  /\ \A m, n \in Int : m <= n => Intervals(m) <= Intervals(n)
  /\ Intervals(0) = 0 /\ Intervals(-1) = -Interval
<1>1. Interval \in Nat \ {0}
  BY BillingAssumption
<1>2. ASSUME NEW m \in Int, NEW n \in Int, m <= n PROVE Interval * m <= Interval * n
  <2>1. Interval * (n - m) >= 0
    BY <1>1, <1>2
  <2>2. Interval * (n - m) = Interval * n - Interval * m
    BY <1>1
  <2> QED
    BY <1>1, <2>1, <2>2
<1>3. \A n \in Int : Interval * n \in Int /\ Interval * (n + 1) = Interval * n + Interval
  BY <1>1
<1> QED
  BY <1>1, <1>2, <1>3 DEF Intervals

(* How many of the ticks that wait are known to be late.                   *)
HandFacts ==
  /\ IsFiniteSet(InHand) /\ Hand \in Nat /\ Late \in Nat /\ Settled \in Nat
  /\ Settled <= Late /\ Late <= Settled + Hand
  /\ Hand <= 1 + (Late - Settled)
  /\ sinceTick > 0 => Late = Settled + Hand

LEMMA HandNumbers == LoopInv /\ ClockInv => HandFacts
<1> SUFFICES ASSUME LoopInv, ClockInv PROVE HandFacts
  OBVIOUS
<1> DEFINE T == {tick} \ {NoTick}
           S == IF loop = "listing" THEN {serving} ELSE {}
           B == late \cap InHand
<1>0. InHand = T \cup S
  BY DEF InHand
<1>1. IsFiniteSet(InHand) /\ IsFiniteSet(late)
  <2>1. IsFiniteSet({tick}) /\ IsFiniteSet({serving}) /\ IsFiniteSet({})
    BY FS_Singleton, FS_EmptySet
  <2>2. IsFiniteSet({tick} \ {NoTick})
    BY <2>1, FS_Subset
  <2>3. IsFiniteSet(T \cup S)
    BY <2>1, <2>2, FS_Union
  <2> QED
    BY <1>0, <2>3 DEF ClockInv
<1>2. /\ Late \in Nat /\ Hand \in Nat /\ Settled \in Nat /\ Cardinality(B) \in Nat
      /\ Cardinality(B) <= Hand
      /\ Settled = Late - Cardinality(B)
  <2>1. IsFiniteSet(B) /\ Cardinality(B) <= Cardinality(InHand)
    BY <1>1, FS_Subset
  <2>2. Cardinality(late \ InHand) = Cardinality(late) - Cardinality(late \cap InHand)
    BY <1>1, FS_Difference
  <2>3. IsFiniteSet(late \ InHand)
    BY <1>1, FS_Difference
  <2> QED
    BY <1>1, <2>1, <2>2, <2>3, FS_CardinalityType DEF Late, Hand, Settled
<1>3. Hand <= 1 + Cardinality(B)
  <2>1. CASE loop = "listing" /\ tick # NoTick
    <3>1. T \cup S = {tick, serving} /\ serving \in late
      BY <2>1 DEF ClockInv
    <3>2. Cardinality({tick, serving} \ {serving}) <= 1
      <4>1. {tick, serving} \ {serving} = {tick} \/ {tick, serving} \ {serving} = {}
        OBVIOUS
      <4> QED
        BY <4>1, FS_Singleton, FS_EmptySet
    <3>3. serving \in InHand /\ Cardinality(InHand \ {serving}) = Cardinality(InHand) - 1
      BY <1>0, <1>1, <3>1, FS_RemoveElement
    <3>4. Cardinality(B) >= 1
      <4>1. serving \in B /\ IsFiniteSet(B)
        BY <1>1, <3>1, <3>3, FS_Subset
      <4>2. Cardinality(B) # 0
        BY <4>1, FS_EmptySet
      <4> QED
        BY <1>2, <4>2
    <3>5. Cardinality(InHand \ {serving}) <= 1
      BY <1>0, <3>1, <3>2, Zenon
    <3> QED
      BY <1>2, <3>3, <3>4, <3>5 DEF Hand
  <2>2. CASE ~(loop = "listing" /\ tick # NoTick)
    <3>1. T \cup S = {} \/ T \cup S = {tick} \/ T \cup S = {serving}
      BY <2>2
    <3>2. Hand <= 1
      BY <1>0, <3>1, FS_Singleton, FS_EmptySet DEF Hand
    <3> QED
      BY <1>2, <3>2
  <2> QED
    BY <2>1, <2>2
<1>4. ASSUME sinceTick > 0 PROVE Cardinality(B) = Hand
  <2>1. T \subseteq late /\ S \subseteq late
    BY <1>4 DEF ClockInv
  <2>2. B = InHand
    BY <1>0, <2>1
  <2> QED
    BY <2>2 DEF Hand
<1> HIDE DEF B, T, S
<1>5. /\ Settled <= Late /\ Late <= Settled + Hand
      /\ Hand <= 1 + (Late - Settled)
      /\ sinceTick > 0 => Late = Settled + Hand
  BY <1>2, <1>3, <1>4
<1> QED
  BY <1>1, <1>2, <1>5 DEF HandFacts

LEMMA HandNumbersNext == (LoopInv /\ ClockInv)' => HandFacts'
  BY HandNumbers, PTL

LEMMA UseNumbers ==
  ASSUME TypeOK, NEW j \in Jobs
  PROVE  /\ Len(ledger[j]) \in Nat /\ Pending(j) \in 0 .. 1 /\ Credit(j) \in Nat
         /\ used[j] \in Nat /\ spells[j] \in Nat /\ missed[j] \in Nat
         /\ sinceTick \in Nat /\ sinceTick < Interval /\ Interval \in Nat \ {0}
<1>1. Len(ledger[j]) \in Nat
  BY DEF TypeOK
<1> QED
  BY <1>1, Numbers DEF TypeOK, Pending, Credit

LEMMA UseNumbersNext ==
  ASSUME TypeOK', NEW j \in Jobs
  PROVE  /\ Len(ledger'[j]) \in Nat /\ Pending(j)' \in 0 .. 1 /\ Credit(j)' \in Nat
         /\ used'[j] \in Nat /\ spells'[j] \in Nat /\ missed'[j] \in Nat
         /\ sinceTick' \in Nat /\ sinceTick' < Interval
<1>1. Len(ledger'[j]) \in Nat
  BY DEF TypeOK
<1> QED
  BY <1>1, BillingAssumption DEF TypeOK, Pending, Credit

LEMMA AllNumbers ==
  ASSUME LoopInv, LoopInv', HandFacts, HandFacts', NEW j \in Jobs
  PROVE  /\ Credit(j) \in Nat /\ Hand \in Nat /\ Late \in Nat /\ Settled \in Nat
         /\ used[j] \in Nat /\ spells[j] \in Nat /\ missed[j] \in Nat /\ sinceTick \in Nat
         /\ Credit(j)' \in Nat /\ Hand' \in Nat /\ Late' \in Nat /\ Settled' \in Nat
         /\ used'[j] \in Nat /\ spells'[j] \in Nat /\ missed'[j] \in Nat /\ sinceTick' \in Nat
<1>1. TypeOK /\ TypeOK'
  BY DEF LoopInv
<1>2. /\ Credit(j) \in Nat /\ used[j] \in Nat /\ spells[j] \in Nat /\ missed[j] \in Nat
      /\ sinceTick \in Nat
  BY <1>1, UseNumbers
<1>3. /\ Credit(j)' \in Nat /\ used'[j] \in Nat /\ spells'[j] \in Nat /\ missed'[j] \in Nat
      /\ sinceTick' \in Nat
  BY <1>1, UseNumbersNext
<1> QED
  BY <1>2, <1>3 DEF HandFacts

(* Nothing billed, used or lost, as when the ledger begins.                *)
LEMMA FreshUse ==
  ASSUME NEW j \in Jobs, ledger'[j] = <<>>, used'[j] = 0, missed'[j] = 0,
         spells'[j] = One(j)', late' = {}, todo' = {}, sinceTick' = 0,
         loop' \in {"select", "down"}, tick' = NoTick
  PROVE  Upper(j)' /\ Lower(j)'
<1>1. Pending(j)' = 0 /\ Len(ledger'[j]) = 0 /\ Credit(j)' = 0
  BY DEF Pending, Owed, Credit
<1>2. InHand' = {} /\ late' \ InHand' = {}
  BY DEF InHand
<1>3. Hand' = 0 /\ Late' = 0 /\ Settled' = 0
  BY <1>2, FS_EmptySet DEF Hand, Late, Settled
<1>4. Intervals(0) = 0 /\ Intervals(-1) = -Interval /\ Interval \in Nat
  BY Scale, BillingAssumption
<1>5. CASE Active(j)'
  <2>1. spells'[j] = 1
    BY <1>5 DEF One, Active
  <2>2. /\ Credit(j)' + Hand' - spells'[j] - Late' = -1
        /\ Credit(j)' + Hand' + missed'[j] + spells'[j] - 1 + Settled' = 0
    BY <1>1, <1>3, <2>1
  <2> QED
    BY <1>4, <1>5, <2>2 DEF Upper, Lower, Active
<1>6. CASE ~Active(j)'
  <2>1. spells'[j] = 0
    BY <1>6 DEF One, Active
  <2>2. /\ Credit(j)' - spells'[j] - Settled' = 0
        /\ Credit(j)' + missed'[j] + spells'[j] + Late' = 0
    BY <1>1, <1>3, <2>1
  <2> QED
    BY <1>4, <1>6, <2>2 DEF Upper, Lower, Active
<1> QED
  BY <1>5, <1>6

(* Steps that take no time and leave the job active or not: what is owed   *)
(* and the margins may only grow.                                          *)
LEMMA UseKept ==
  ASSUME LoopInv, LoopInv', HandFacts, HandFacts', NEW j \in Jobs, Upper(j), Lower(j),
         Active(j)' <=> Active(j), used'[j] = used[j], sinceTick' = sinceTick,
         Active(j) =>
           /\ Credit(j)' + Hand' - spells'[j] - Late' <= Credit(j) + Hand - spells[j] - Late
           /\ Credit(j) + Hand + missed[j] + spells[j] - 1 + Settled
                <= Credit(j)' + Hand' + missed'[j] + spells'[j] - 1 + Settled',
         ~Active(j) =>
           /\ Credit(j)' - spells'[j] - Settled' <= Credit(j) - spells[j] - Settled
           /\ Credit(j) + missed[j] + spells[j] + Late
                <= Credit(j)' + missed'[j] + spells'[j] + Late'
  PROVE  Upper(j)' /\ Lower(j)'
<1> DEFINE a == Credit(j) + Hand - spells[j] - Late
           b == Credit(j) + Hand + missed[j] + spells[j] - 1 + Settled
           c == Credit(j) - spells[j] - Settled
           d == Credit(j) + missed[j] + spells[j] + Late
           a1 == Credit(j)' + Hand' - spells'[j] - Late'
           b1 == Credit(j)' + Hand' + missed'[j] + spells'[j] - 1 + Settled'
           c1 == Credit(j)' - spells'[j] - Settled'
           d1 == Credit(j)' + missed'[j] + spells'[j] + Late'
<1>1. /\ a \in Int /\ b \in Int /\ c \in Int /\ d \in Int
      /\ a1 \in Int /\ b1 \in Int /\ c1 \in Int /\ d1 \in Int
      /\ used[j] \in Nat /\ sinceTick \in Nat
  BY AllNumbers
<1>2. /\ Active(j) => Intervals(a) + sinceTick <= used[j] /\ used[j] <= Intervals(b) + sinceTick
      /\ ~Active(j) => Intervals(c) <= used[j] /\ used[j] <= Intervals(d)
  BY DEF Upper, Lower
<1>3. /\ Active(j) => a1 <= a /\ b <= b1
      /\ ~Active(j) => c1 <= c /\ d <= d1
  OBVIOUS
<1>7. (Upper(j)' <=> IF Active(j)' THEN Intervals(a1) + sinceTick' <= used'[j]
                                   ELSE Intervals(c1) <= used'[j])
      /\ (Lower(j)' <=> IF Active(j)' THEN used'[j] <= Intervals(b1) + sinceTick'
                                      ELSE used'[j] <= Intervals(d1))
  BY DEF Upper, Lower, Active, Intervals
<1> HIDE DEF a, b, c, d, a1, b1, c1, d1
<1>4. CASE Active(j)
  <2>1. Intervals(a1) <= Intervals(a) /\ Intervals(b) <= Intervals(b1)
    BY <1>1, <1>3, <1>4, Scale
  <2>2. Intervals(a1) \in Int /\ Intervals(a) \in Int /\ Intervals(b) \in Int /\ Intervals(b1) \in Int
    BY <1>1, Scale
  <2>3. Intervals(a1) + sinceTick <= used[j] /\ used[j] <= Intervals(b1) + sinceTick
    BY <1>1, <1>2, <1>4, <2>1, <2>2
  <2> QED
    BY <1>4, <1>7, <2>3
<1>5. CASE ~Active(j)
  <2>1. Intervals(c1) <= Intervals(c) /\ Intervals(d) <= Intervals(d1)
    BY <1>1, <1>3, <1>5, Scale
  <2>2. Intervals(c1) \in Int /\ Intervals(c) \in Int /\ Intervals(d) \in Int /\ Intervals(d1) \in Int
    BY <1>1, Scale
  <2>3. Intervals(c1) <= used[j] /\ used[j] <= Intervals(d1)
    BY <1>1, <1>2, <1>5, <2>1, <2>2
  <2> QED
    BY <1>5, <1>7, <2>3
<1> QED
  BY <1>4, <1>5

(* A job stops being active: the period that has begun was counted below,  *)
(* and a tick in hand may yet bill it above.                               *)
LEMMA StopsNumbers ==
  ASSUME NEW c \in Nat, NEW h \in Nat, NEW l \in Nat, NEW t \in Nat, NEW u \in Nat,
         NEW s \in Nat, NEW m \in Nat, NEW g \in Nat, g < Interval,
         t <= l, l <= t + h, h <= 1 + (l - t), g > 0 => l = t + h,
         Intervals(c + h - s - l) + g <= u,
         u <= Intervals(c + h + m + s - 1 + t) + g
  PROVE  Intervals(c - s - t) <= u /\ u <= Intervals(c + m + s + l)
<1> DEFINE a == c + h - s - l
           b == c + h + m + s - 1 + t
           a1 == c - s - t
           b1 == c + m + s + l
<1>1. a \in Int /\ b \in Int /\ a1 \in Int /\ b1 \in Int /\ Interval \in Nat
  BY BillingAssumption
<1>2. /\ Intervals(a) \in Int /\ Intervals(b) \in Int /\ Intervals(a1) \in Int
      /\ Intervals(b1) \in Int /\ Intervals(b + 1) = Intervals(b) + Interval
  BY <1>1, Scale
<1>3. a1 <= a /\ (g = 0 => b <= b1) /\ (g > 0 => b + 1 <= b1)
  OBVIOUS
<1>4. Intervals(a) + g <= u /\ u <= Intervals(b) + g
  OBVIOUS
<1> HIDE DEF a, b, a1, b1
<1>5. Intervals(a1) <= Intervals(a)
  BY <1>1, <1>3, Scale
<1>6. g = 0 => Intervals(b) <= Intervals(b1)
  BY <1>1, <1>3, Scale
<1>7. g > 0 => Intervals(b + 1) <= Intervals(b1)
  BY <1>1, <1>3, Scale
<1>8. Intervals(a1) <= u /\ u <= Intervals(b1)
  BY <1>1, <1>2, <1>4, <1>5, <1>6, <1>7
<1> QED
  BY <1>8 DEF a1, b1

(* A job becomes active: the record that spans the tick to come may reach  *)
(* back to before it was.                                                  *)
LEMMA BeginsNumbers ==
  ASSUME NEW c \in Nat, NEW h \in Nat, NEW l \in Nat, NEW t \in Nat, NEW u \in Nat,
         NEW s \in Nat, NEW m \in Nat, NEW g \in Nat, g < Interval,
         t <= l, l <= t + h, h <= 1 + (l - t), g > 0 => l = t + h,
         Intervals(c - s - t) <= u,
         u <= Intervals(c + m + s + l)
  PROVE  /\ Intervals(c + h - (s + 1) - l) + g <= u
         /\ u <= Intervals(c + h + m + (s + 1) - 1 + t) + g
<1> DEFINE a == c - s - t
           b == c + m + s + l
           a1 == c + h - (s + 1) - l
           b1 == c + h + m + (s + 1) - 1 + t
<1>1. a \in Int /\ b \in Int /\ a1 \in Int /\ b1 \in Int /\ Interval \in Nat
  BY BillingAssumption
<1>2. /\ Intervals(a) \in Int /\ Intervals(b) \in Int /\ Intervals(a1) \in Int
      /\ Intervals(b1) \in Int /\ Intervals(a1 + 1) = Intervals(a1) + Interval
  BY <1>1, Scale
<1>3. b <= b1 /\ (g = 0 => a1 <= a) /\ (g > 0 => a1 + 1 <= a)
  OBVIOUS
<1>4. Intervals(a) <= u /\ u <= Intervals(b)
  OBVIOUS
<1> HIDE DEF a, b, a1, b1
<1>5. Intervals(b) <= Intervals(b1)
  BY <1>1, <1>3, Scale
<1>6. g = 0 => Intervals(a1) <= Intervals(a)
  BY <1>1, <1>3, Scale
<1>7. g > 0 => Intervals(a1 + 1) <= Intervals(a)
  BY <1>1, <1>3, Scale
<1>8. Intervals(a1) + g <= u /\ u <= Intervals(b1) + g
  BY <1>1, <1>2, <1>4, <1>5, <1>6, <1>7
<1> QED
  BY <1>8 DEF a1, b1

(* The ledger, the loop and what waits stay as they are.                   *)
LEMMA HandKept ==
  ASSUME UNCHANGED <<loop, tick, serving, todo, current, ledger, late>>
  PROVE  /\ \A j \in Jobs : Credit(j)' = Credit(j)
         /\ Hand' = Hand /\ Late' = Late /\ Settled' = Settled
<1>1. InHand' = InHand
  BY DEF InHand
<1>2. \A j \in Jobs : Credit(j)' = Credit(j)
  BY DEF Credit, Pending, Owed
<1> QED
  BY <1>1, <1>2 DEF Hand, Late, Settled

LEMMA ChangePhaseUse ==
  ASSUME LoopInv, LoopInv', HandFacts, HandFacts', NEW j \in Jobs, Upper(j), Lower(j),
         NEW k \in Jobs, ChangePhase(k)
  PROVE  Upper(j)' /\ Lower(j)'
<1>1. /\ UNCHANGED <<loop, tick, serving, todo, current, ledger, late>>
      /\ used' = used /\ missed' = missed /\ sinceTick' = sinceTick
  BY DEF ChangePhase, loopVars
<1>2. Credit(j)' = Credit(j) /\ Hand' = Hand /\ Late' = Late /\ Settled' = Settled
  BY <1>1, HandKept
<1>3. PICK p \in Phases \ {phase[k]} :
        /\ phase' = [phase EXCEPT ![k] = p]
        /\ spells' = [spells EXCEPT ![k] = @ + IF Active(k) THEN 0 ELSE 1]
  BY DEF ChangePhase
<1>4. /\ j # k => spells'[j] = spells[j] /\ (Active(j)' <=> Active(j))
      /\ j = k /\ Active(j) => spells'[j] = spells[j]
      /\ j = k /\ ~Active(j) => spells'[j] = spells[j] + 1 /\ Active(j)'
  <2>1. phase \in [Jobs -> Phases] /\ spells \in [Jobs -> Nat]
    BY DEF LoopInv, TypeOK
  <2>2. spells[k] + 0 = spells[k]
    BY <2>1
  <2> QED
    BY <1>3, <2>1, <2>2 DEF Active, Phases
<1>5. /\ Credit(j) \in Nat /\ Hand \in Nat /\ Late \in Nat /\ Settled \in Nat
      /\ used[j] \in Nat /\ spells[j] \in Nat /\ missed[j] \in Nat /\ sinceTick \in Nat
      /\ sinceTick < Interval
  BY AllNumbers, Numbers DEF LoopInv
<1>6. CASE (Active(j)' <=> Active(j)) /\ spells'[j] = spells[j]
  BY <1>1, <1>2, <1>5, <1>6, UseKept
<1>7. CASE Active(j) /\ ~Active(j)' /\ spells'[j] = spells[j]
  <2>1. /\ Intervals(Credit(j) - spells[j] - Settled) <= used[j]
        /\ used[j] <= Intervals(Credit(j) + missed[j] + spells[j] + Late)
    BY <1>5, <1>7, StopsNumbers DEF Upper, Lower, HandFacts
  <2> QED
    BY <1>1, <1>2, <1>7, <2>1 DEF Upper, Lower, Active, Intervals
<1>8. CASE ~Active(j) /\ Active(j)' /\ spells'[j] = spells[j] + 1
  <2>1. /\ Intervals(Credit(j) + Hand - (spells[j] + 1) - Late) + sinceTick <= used[j]
        /\ used[j] <= Intervals(Credit(j) + Hand + missed[j] + (spells[j] + 1) - 1 + Settled)
                      + sinceTick
    BY <1>5, <1>8, BeginsNumbers DEF Upper, Lower, HandFacts
  <2> QED
    BY <1>1, <1>2, <1>8, <2>1 DEF Upper, Lower, Active, Intervals
<1> QED
  BY <1>4, <1>6, <1>7, <1>8

LEMMA AdvanceUse ==
  ASSUME LoopInv, LoopInv', ClockInv, ClockInv', HandFacts, HandFacts',
         NEW j \in Jobs, Upper(j), Lower(j), Advance
  PROVE  Upper(j)' /\ Lower(j)'
<1>1. UNCHANGED <<loop, serving, todo, current, ledger, spells, phase>> /\ now' = now + 1
  BY DEF Advance, env
<1>2. Credit(j)' = Credit(j) /\ spells'[j] = spells[j] /\ (Active(j)' <=> Active(j))
  BY <1>1 DEF Credit, Pending, Owed, Active
<1>3. /\ Credit(j) \in Nat /\ Hand \in Nat /\ Late \in Nat /\ Settled \in Nat
      /\ used[j] \in Nat /\ spells[j] \in Nat /\ missed[j] \in Nat /\ sinceTick \in Nat
      /\ Hand' \in Nat /\ Late' \in Nat /\ Settled' \in Nat /\ missed'[j] \in Nat
      /\ sinceTick' \in Nat
  BY AllNumbers
<1>4. CASE loop = "down"
  <2>1. UNCHANGED <<sinceTick, tick, missed, used, late>>
    BY <1>4 DEF Advance
  <2>2. Hand' = Hand /\ Late' = Late /\ Settled' = Settled
    BY <1>1, <2>1, HandKept
  <2> QED
    BY <1>2, <1>3, <2>1, <2>2, UseKept
<1>5. CASE loop # "down"
  <2> DEFINE D == Cardinality(late' \ InHand)
  <2>1. /\ late' = late \cup ({tick} \ {NoTick}) \cup (IF loop = "select" THEN {} ELSE {serving})
        /\ used' = [i \in Jobs |-> used[i] + One(i)]
    BY <1>5 DEF Advance
  <2>2. InHand \subseteq late' /\ late \subseteq late' /\ IsFiniteSet(late')
    BY <2>1 DEF InHand, ClockInv
  <2>3. Late <= Late'
    BY <2>2, FS_Subset DEF Late
  <2>4. D \in Nat /\ Settled <= D
    <3>1. late \ InHand \subseteq late' \ InHand /\ IsFiniteSet(late' \ InHand)
      BY <2>2, FS_Subset
    <3> QED
      BY <3>1, FS_Subset, FS_CardinalityType DEF Settled
  <2>5. used'[j] = used[j] + One(j)
    BY <2>1
  <2>6. /\ Settled' = D
        /\ \/ Hand' = Hand /\ missed'[j] = missed[j] /\ sinceTick' = sinceTick + 1
           \/ /\ Hand' + missed'[j] = Hand + missed[j] + 1
              /\ Hand <= Hand' /\ Hand' <= Hand + 1 /\ missed[j] <= missed'[j]
              /\ sinceTick + 1 = Interval /\ sinceTick' = 0
    <3>1. CASE tick' = tick
      <4>1. InHand' = InHand
        BY <1>1, <3>1 DEF InHand
      <4>2. Settled' = D /\ Hand' = Hand
        BY <4>1 DEF Settled, Hand
      <4>3. \/ missed'[j] = missed[j] /\ sinceTick' = sinceTick + 1
            \/ missed'[j] = missed[j] + 1 /\ sinceTick + 1 = Interval /\ sinceTick' = 0
        <5>1. NoTick # now + 1
          BY Numbers DEF LoopInv
        <5> QED
          BY <1>5, <3>1, <5>1 DEF Advance, Fire, LoseInterval
      <4> HIDE DEF D
      <4> QED
        BY <1>3, <4>2, <4>3
    <3>2. CASE tick' # tick
      <4>1. /\ tick = NoTick /\ tick' = now + 1 /\ missed' = missed
            /\ sinceTick + 1 = Interval /\ sinceTick' = 0
        BY <1>5, <3>2 DEF Advance, Fire
      <4>2. InHand' = InHand \cup {now + 1}
        <5>1. now + 1 # NoTick
          BY Numbers DEF LoopInv
        <5> QED
          BY <1>1, <4>1, <5>1 DEF InHand
      <4>3. now + 1 \notin late'
        <5>1. loop # "select" => serving \in Nat
          BY <1>5 DEF LoopInv, Stages, Working, TypeOK
        <5>2. \A n \in late' : n \in Nat /\ n <= LastTick
          BY <2>1, <4>1, <5>1, Numbers DEF ClockInv, LoopInv
        <5>3. ~(now + 1 <= LastTick)
          BY Numbers DEF LoopInv, LastTick
        <5> QED
          BY <5>2, <5>3
      <4>4. Hand' = Hand + 1
        BY <2>2, <4>2, <4>3, FS_AddElement DEF Hand, HandFacts
      <4>5. Settled' = D
        <5>1. late' \ InHand' = late' \ InHand
          BY <4>2, <4>3
        <5> QED
          BY <5>1 DEF Settled
      <4> HIDE DEF D
      <4> QED
        BY <1>3, <4>1, <4>4, <4>5
    <3> QED
      BY <3>1, <3>2
  <2> HIDE DEF D
  <2>7. Settled <= Settled'
    BY <2>4, <2>6
  <2> DEFINE a == Credit(j) + Hand - spells[j] - Late
             b == Credit(j) + Hand + missed[j] + spells[j] - 1 + Settled
             a1 == Credit(j) + Hand' - spells[j] - Late'
             b1 == Credit(j) + Hand' + missed'[j] + spells[j] - 1 + Settled'
             d == Credit(j) - spells[j] - Settled
             e == Credit(j) + missed[j] + spells[j] + Late
             d1 == Credit(j) - spells[j] - Settled'
             e1 == Credit(j) + missed'[j] + spells[j] + Late'
  <2>8. /\ Active(j) => Intervals(a1) + sinceTick' <= used[j] + 1
                        /\ used[j] + 1 <= Intervals(b1) + sinceTick'
        /\ ~Active(j) => Intervals(d1) <= used[j] /\ used[j] <= Intervals(e1)
    <3>1. /\ a \in Int /\ b \in Int /\ a1 \in Int /\ b1 \in Int /\ Interval \in Nat
          /\ d \in Int /\ e \in Int /\ d1 \in Int /\ e1 \in Int
          /\ a + 1 \in Int /\ b + 1 \in Int
      BY <1>3, BillingAssumption
    <3>2. /\ Active(j) => Intervals(a) + sinceTick <= used[j] /\ used[j] <= Intervals(b) + sinceTick
          /\ ~Active(j) => Intervals(d) <= used[j] /\ used[j] <= Intervals(e)
      BY DEF Upper, Lower
    <3>3. d1 <= d /\ e <= e1
      BY <1>3, <2>3, <2>6, <2>7
    <3>4. \/ a1 <= a /\ b <= b1 /\ sinceTick' = sinceTick + 1
          \/ a1 <= a + 1 /\ b + 1 <= b1 /\ sinceTick + 1 = Interval /\ sinceTick' = 0
      BY <1>3, <2>3, <2>6, <2>7
    <3> HIDE DEF a, b, a1, b1, d, e, d1, e1
    <3>5. /\ Intervals(a) \in Int /\ Intervals(b) \in Int /\ Intervals(a1) \in Int
          /\ Intervals(b1) \in Int /\ Intervals(d) \in Int /\ Intervals(e) \in Int
          /\ Intervals(d1) \in Int /\ Intervals(e1) \in Int
          /\ Intervals(a + 1) = Intervals(a) + Interval
          /\ Intervals(b + 1) = Intervals(b) + Interval
      BY <3>1, Scale
    <3>6. Intervals(d1) <= Intervals(d) /\ Intervals(e) <= Intervals(e1)
      BY <3>1, <3>3, Scale
    <3>7. ~Active(j) => Intervals(d1) <= used[j] /\ used[j] <= Intervals(e1)
      BY <1>3, <3>2, <3>5, <3>6
    <3>8. CASE a1 <= a /\ b <= b1 /\ sinceTick' = sinceTick + 1
      <4>1. Intervals(a1) <= Intervals(a) /\ Intervals(b) <= Intervals(b1)
        BY <3>1, <3>8, Scale
      <4> QED
        BY <1>3, <3>2, <3>5, <3>7, <3>8, <4>1
    <3>9. CASE a1 <= a + 1 /\ b + 1 <= b1 /\ sinceTick + 1 = Interval /\ sinceTick' = 0
      <4>1. Intervals(a1) <= Intervals(a + 1) /\ Intervals(b + 1) <= Intervals(b1)
        BY <3>1, <3>9, Scale, Zenon
      <4> QED
        BY <1>3, <3>1, <3>2, <3>5, <3>7, <3>9, <4>1
    <3> QED
      BY <3>4, <3>8, <3>9
  <2>9. used'[j] = IF Active(j) THEN used[j] + 1 ELSE used[j]
    BY <1>3, <2>5 DEF One
  <2> QED
    BY <1>2, <2>8, <2>9 DEF Upper, Lower, Intervals
<1> QED
  BY <1>4, <1>5

(* A tick leaves the hand: for each active job a record is under way, or   *)
(* its interval is lost.                                                   *)
LEMMA CollectUse ==
  ASSUME LoopInv, LoopInv', ClockInv, HandFacts, HandFacts', NEW j \in Jobs, Upper(j), Lower(j),
         CollectActiveJobs \/ CollectFails
  PROVE  Upper(j)' /\ Lower(j)'
<1>1. /\ UNCHANGED <<tick, serving, current, ledger, used, spells, late, sinceTick, phase>>
      /\ loop = "listing" /\ loop' \in {"select", "recording"}
  BY DEF CollectActiveJobs, CollectFails, setup, env, history
<1>2. /\ Hand' = Hand - 1 /\ Settled <= Settled' /\ Late' = Late
  <2>1. serving \in Nat /\ NoTick \notin Nat /\ Interval \in Nat \ {0}
    BY <1>1, BillingAssumption DEF LoopInv, Stages, Working
  <2>2. serving # tick
    <3>1. tick # NoTick => tick \in Nat /\ serving + Interval <= tick
      BY <2>1 DEF LoopInv, TypeOK, ClockInv
    <3> QED
      BY <2>1, <3>1
  <2>3. InHand' = InHand \ {serving} /\ serving \in InHand
    BY <1>1, <2>2 DEF InHand
  <2>4. Hand' = Hand - 1
    BY <2>3, FS_RemoveElement DEF Hand, HandFacts
  <2>5. late \ InHand \subseteq late' \ InHand'
    BY <1>1, <2>3
  <2>6. IsFiniteSet(late' \ InHand')
    BY <1>1, FS_Subset DEF ClockInv
  <2> QED
    BY <1>1, <2>4, <2>5, <2>6, FS_Subset DEF Late, Settled
<1>3. Active(j)' <=> Active(j)
  BY <1>1 DEF Active
<1>4. \/ missed'[j] = missed[j] /\ Credit(j)' = Credit(j) + One(j)
      \/ missed'[j] = missed[j] + 1 /\ Credit(j)' = Credit(j)
  <2>0. Len(ledger[j]) \in Nat /\ missed[j] \in Nat
    BY UseNumbers DEF LoopInv
  <2>1. Pending(j) = 0
    BY <1>1 DEF Pending, Owed, LoopInv, Stages
  <2>2. CASE CollectActiveJobs
    <3>1. todo' = {k \in Jobs : Active(k)} /\ missed' = missed
      BY <2>2 DEF CollectActiveJobs, history
    <3>2. Pending(j)' = One(j)
      BY <1>1, <3>1 DEF Pending, Owed, One
    <3> QED
      BY <1>1, <2>0, <2>1, <3>1, <3>2 DEF Credit
  <2>3. CASE CollectFails
    <3>1. todo' = {} /\ missed' = [k \in Jobs |-> missed[k] + 1]
      BY <1>1, <2>3 DEF CollectFails, LoseInterval, LoopInv, Stages
    <3>2. Pending(j)' = 0
      BY <1>1, <3>1 DEF Pending, Owed
    <3> QED
      BY <1>1, <2>0, <2>1, <3>1, <3>2 DEF Credit
  <2> QED
    BY <2>2, <2>3
<1>5. /\ Credit(j) \in Nat /\ Hand \in Nat /\ Late \in Nat /\ Settled \in Nat
      /\ used[j] \in Nat /\ spells[j] \in Nat /\ missed[j] \in Nat
      /\ Hand' \in Nat /\ Settled' \in Nat /\ Credit(j)' \in Nat /\ missed'[j] \in Nat
  BY AllNumbers
<1>6. /\ Active(j) =>
           /\ Credit(j)' + Hand' - spells[j] - Late <= Credit(j) + Hand - spells[j] - Late
           /\ Credit(j) + Hand + missed[j] + spells[j] - 1 + Settled
                <= Credit(j)' + Hand' + missed'[j] + spells[j] - 1 + Settled'
      /\ ~Active(j) =>
           /\ Credit(j)' - spells[j] - Settled' <= Credit(j) - spells[j] - Settled
           /\ Credit(j) + missed[j] + spells[j] + Late <= Credit(j)' + missed'[j] + spells[j] + Late
  <2>1. One(j) = IF Active(j) THEN 1 ELSE 0
    BY DEF One
  <2> QED
    BY <1>2, <1>4, <1>5, <2>1
<1> QED
  BY <1>1, <1>2, <1>3, <1>6, UseKept

(* A record under way is written, or its interval is lost.                 *)
LEMMA SaveUse ==
  ASSUME LoopInv, LoopInv', HandFacts, HandFacts', NEW j \in Jobs, Upper(j), Lower(j),
         SaveRecord \/ SaveFails
  PROVE  Upper(j)' /\ Lower(j)'
<1>1. /\ UNCHANGED <<tick, serving, todo, used, spells, late, sinceTick, phase>>
      /\ loop = "saving" /\ loop' \in {"select", "recording"}
  BY DEF SaveRecord, SaveFails, AfterRecord, env, history
<1>2. Hand' = Hand /\ Settled' = Settled /\ Late' = Late
  <2>1. InHand' = InHand
    BY <1>1 DEF InHand
  <2> QED
    BY <1>1, <2>1 DEF Hand, Settled, Late
<1>3. Active(j)' <=> Active(j)
  BY <1>1 DEF Active
<1>4. Len(ledger[j]) \in Nat /\ missed[j] \in Nat /\ ledger[j] \in Seq(Record)
  BY UseNumbers DEF LoopInv, TypeOK
<1>5. /\ j = current[1] => Pending(j) = 1 /\ Pending(j)' = 0
      /\ j # current[1] => Pending(j)' = Pending(j)
  BY <1>1 DEF Pending, Owed, LoopInv, Stages
<1>6. \/ missed'[j] = missed[j] /\ Credit(j)' = Credit(j)
      \/ missed'[j] = missed[j] + 1 /\ Credit(j)' = Credit(j) - 1
  <2>1. CASE Insert /\ missed' = missed
    <3>1. /\ j = current[1] => ledger'[j] = Append(ledger[j], current[2]) /\ current[2] \in Record
          /\ j # current[1] => ledger'[j] = ledger[j]
      BY <1>1, <2>1, InsertType
    <3>2. Len(ledger'[j]) = IF j = current[1] THEN Len(ledger[j]) + 1 ELSE Len(ledger[j])
      <4> HIDE DEF Record
      <4> QED
        BY <1>4, <3>1
    <3> QED
      BY <1>4, <1>5, <2>1, <3>2 DEF Credit
  <2>2. CASE ledger' = ledger /\ missed' = [missed EXCEPT ![current[1]] = @ + 1]
    <3>1. missed'[j] = IF j = current[1] THEN missed[j] + 1 ELSE missed[j]
      BY <2>2 DEF LoopInv, TypeOK
    <3> QED
      BY <1>4, <1>5, <2>2, <3>1 DEF Credit
  <2> QED
    BY <2>1, <2>2 DEF SaveRecord, SaveFails, history
<1>7. /\ Credit(j) \in Nat /\ Hand \in Nat /\ Late \in Nat /\ Settled \in Nat
      /\ used[j] \in Nat /\ spells[j] \in Nat /\ missed[j] \in Nat
  BY AllNumbers
<1>8. /\ Credit(j)' + Hand - spells[j] - Late <= Credit(j) + Hand - spells[j] - Late
      /\ Credit(j) + Hand + missed[j] + spells[j] - 1 + Settled
           <= Credit(j)' + Hand + missed'[j] + spells[j] - 1 + Settled
      /\ Credit(j)' - spells[j] - Settled <= Credit(j) - spells[j] - Settled
      /\ Credit(j) + missed[j] + spells[j] + Late <= Credit(j)' + missed'[j] + spells[j] + Late
  BY <1>6, <1>7
<1> QED
  BY <1>1, <1>2, <1>3, <1>8, UseKept

(* Steps that move what is owed from one place to another.                 *)
LEMMA UseMoved ==
  ASSUME LoopInv, LoopInv', HandFacts, HandFacts', NEW j \in Jobs, Upper(j), Lower(j),
         UNCHANGED <<ledger, phase, sinceTick, used, spells, missed, late>>,
         InHand' = InHand, Pending(j)' = Pending(j)
  PROVE  Upper(j)' /\ Lower(j)'
<1>1. Active(j)' <=> Active(j)
  BY DEF Active
<1>2. Credit(j)' = Credit(j) /\ Hand' = Hand /\ Late' = Late /\ Settled' = Settled
  BY DEF Credit, Hand, Late, Settled
<1>3. /\ Credit(j) \in Nat /\ Hand \in Nat /\ Late \in Nat /\ Settled \in Nat
      /\ spells[j] \in Nat /\ missed[j] \in Nat
  BY AllNumbers
<1> QED
  BY <1>1, <1>2, <1>3, UseKept

LEMMA StartCollectionUse ==
  ASSUME LoopInv, LoopInv', HandFacts, HandFacts', NEW j \in Jobs, Upper(j), Lower(j),
         StartCollection
  PROVE  Upper(j)' /\ Lower(j)'
<1>1. /\ UNCHANGED <<ledger, phase, sinceTick, used, spells, missed, late, todo>>
      /\ loop = "select" /\ loop' = "listing" /\ tick # NoTick
      /\ serving' = tick /\ tick' = NoTick
  BY DEF StartCollection, env, history
<1>2. InHand' = InHand /\ Pending(j)' = Pending(j)
  BY <1>1 DEF InHand, Pending, Owed
<1> QED
  BY <1>1, <1>2, UseMoved

LEMMA RecordUsageUse ==
  ASSUME LoopInv, LoopInv', HandFacts, HandFacts', NEW j \in Jobs, Upper(j), Lower(j),
         Computes(j), NEW k \in Jobs, RecordUsage(k)
  PROVE  Upper(j)' /\ Lower(j)'
<1>1. /\ UNCHANGED <<ledger, phase, sinceTick, used, spells, missed, late, tick, serving>>
      /\ loop = "recording" /\ k \in todo /\ todo' = todo \ {k}
      /\ loop' \in {"select", "recording", "saving"}
  BY DEF RecordUsage, env, history
<1>2. InHand' = InHand
  BY <1>1 DEF InHand
<1>3. Pending(j)' = Pending(j)
  <2>1. CASE Computes(k)
    <3>1. current'[1] = k /\ loop' = "saving"
      BY <2>1 DEF RecordUsage
    <3> QED
      BY <1>1, <3>1 DEF Pending, Owed
  <2>2. CASE ~Computes(k)
    <3>1. loop' # "saving" /\ j # k
      BY <2>2 DEF RecordUsage
    <3> QED
      BY <1>1, <3>1 DEF Pending, Owed
  <2> QED
    BY <2>1, <2>2
<1> QED
  BY <1>1, <1>2, <1>3, UseMoved

LEMMA HandCounted ==
  ASSUME LoopInv, ClockInv, NEW j \in Jobs
  PROVE  TicksInHand(j) = Hand + Pending(j)
<1> DEFINE here == IF tick = NoTick THEN 0 ELSE 1
<1>1. Cardinality({tick} \ {NoTick}) = here /\ IsFiniteSet({tick} \ {NoTick})
  <2>1. CASE tick = NoTick
    <3>1. {tick} \ {NoTick} = {}
      BY <2>1
    <3> QED
      BY <2>1, <3>1, FS_EmptySet
  <2>2. CASE tick # NoTick
    <3>1. {tick} \ {NoTick} = {tick}
      BY <2>2
    <3> QED
      BY <2>2, <3>1, FS_Singleton
  <2> QED
    BY <2>1, <2>2
<1>2. CASE loop = "listing"
  <2>1. serving \notin {tick} \ {NoTick}
    <3>1. serving \in Nat /\ NoTick \notin Nat /\ Interval \in Nat \ {0}
      BY <1>2, BillingAssumption DEF LoopInv, Stages, Working
    <3>2. tick # NoTick => tick \in Nat /\ serving + Interval <= tick
      BY <3>1 DEF LoopInv, TypeOK, ClockInv
    <3> QED
      BY <3>1, <3>2
  <2>2. InHand = ({tick} \ {NoTick}) \cup {serving}
    BY <1>2 DEF InHand
  <2>3. Hand = here + 1
    BY <1>1, <2>1, <2>2, FS_AddElement DEF Hand
  <2>4. Pending(j) = 0
    BY <1>2 DEF Pending, Owed, LoopInv, Stages
  <2> QED
    BY <1>2, <2>3, <2>4 DEF TicksInHand
<1>3. CASE loop # "listing"
  <2>1. InHand = {tick} \ {NoTick}
    BY <1>3 DEF InHand
  <2>2. Hand = here
    BY <1>1, <2>1 DEF Hand
  <2> QED
    BY <1>3, <2>2 DEF TicksInHand, Pending, Owed
<1> QED
  BY <1>2, <1>3

(* The ticks in hand are lost; the job counts as beginning anew.           *)
LEMMA CrashUse ==
  ASSUME LoopInv, LoopInv', ClockInv, HandFacts, HandFacts',
         NEW j \in Jobs, Upper(j), Lower(j), Crash
  PROVE  Upper(j)' /\ Lower(j)'
<1>1. /\ loop' = "down" /\ sinceTick' = 0 /\ tick' = NoTick /\ todo' = {} /\ phase' = phase
  BY DEF Crash
<1>2. CASE backend = "memory"
  <2>1. /\ ledger'[j] = <<>> /\ used'[j] = 0 /\ missed'[j] = 0 /\ late' = {}
        /\ spells'[j] = One(j)
    BY <1>2 DEF Crash
  <2>2. One(j)' = One(j)
    BY <1>1 DEF One, Active
  <2> QED
    BY <1>1, <2>1, <2>2, FreshUse
<1>3. CASE backend # "memory"
  <2>1. /\ missed'[j] = missed[j] + TicksInHand(j)
        /\ spells'[j] = spells[j] + One(j)
        /\ used' = used /\ late' = late
        /\ ledger' = ledger \/ (loop = "saving" /\ Insert)
    BY <1>3 DEF Crash
  <2>2. Hand' = 0 /\ Settled' = Late /\ Late' = Late
    <3>1. InHand' = {} /\ late' \ InHand' = late
      BY <1>1, <2>1 DEF InHand
    <3> QED
      BY <2>1, <3>1, FS_EmptySet DEF Hand, Settled, Late
  <2>3. /\ Len(ledger[j]) \in Nat /\ Len(ledger[j]) <= Credit(j)' /\ Credit(j)' <= Credit(j)
        /\ Credit(j) = Len(ledger[j]) + Pending(j)
    <3>1. Len(ledger[j]) \in Nat /\ Pending(j) \in 0 .. 1 /\ ledger[j] \in Seq(Record)
      BY UseNumbers DEF LoopInv, TypeOK
    <3>2. Pending(j)' = 0 /\ Credit(j)' = Len(ledger'[j]) + Pending(j)'
      BY <1>1 DEF Pending, Owed, Credit
    <3>3. \/ Len(ledger'[j]) = Len(ledger[j])
          \/ Len(ledger'[j]) = Len(ledger[j]) + 1 /\ Pending(j) = 1
      <4>1. CASE ledger' = ledger
        BY <4>1
      <4>2. CASE loop = "saving" /\ Insert
        <5>1. /\ j = current[1] => ledger'[j] = Append(ledger[j], current[2]) /\ current[2] \in Record
              /\ j # current[1] => ledger'[j] = ledger[j]
          BY <4>2, InsertType
        <5>2. j = current[1] => Pending(j) = 1
          BY <4>2 DEF Pending, Owed
        <5>3. j = current[1] => Len(ledger'[j]) = Len(ledger[j]) + 1
          <6> HIDE DEF Record
          <6> QED
            BY <3>1, <5>1
        <5> QED
          BY <5>1, <5>2, <5>3
      <4> QED
        BY <2>1, <4>1, <4>2
    <3> QED
      BY <3>1, <3>2, <3>3 DEF Credit
  <2>4. TicksInHand(j) = Hand + Pending(j) /\ Pending(j) \in 0 .. 1
    BY HandCounted, UseNumbers DEF LoopInv
  <2>5. /\ Credit(j) \in Nat /\ Hand \in Nat /\ Late \in Nat /\ Settled \in Nat
        /\ used[j] \in Nat /\ spells[j] \in Nat /\ missed[j] \in Nat /\ sinceTick \in Nat
        /\ Credit(j)' \in Nat /\ missed'[j] \in Nat /\ spells'[j] \in Nat
    BY AllNumbers
  <2>6. sinceTick < Interval /\ Interval \in Nat /\ Settled <= Late
    BY Numbers DEF LoopInv, HandFacts
  <2>15. missed'[j] = missed[j] + Hand + Pending(j) /\ Pending(j) \in Nat
    BY <2>1, <2>4, <2>5
  <2>16. Credit(j) + Hand + missed[j] <= Credit(j)' + missed'[j]
    BY <2>3, <2>5, <2>15
  <2> DEFINE a == Credit(j) + Hand - spells[j] - Late
             b == Credit(j) + Hand + missed[j] + spells[j] - 1 + Settled
             d == Credit(j) - spells[j] - Settled
             e == Credit(j) + missed[j] + spells[j] + Late
             a1 == Credit(j)' + Hand' - spells'[j] - Late'
             b1 == Credit(j)' + Hand' + missed'[j] + spells'[j] - 1 + Settled'
             d1 == Credit(j)' - spells'[j] - Settled'
             e1 == Credit(j)' + missed'[j] + spells'[j] + Late'
  <2>7. /\ a \in Int /\ b \in Int /\ a1 \in Int /\ b1 \in Int /\ b + 1 \in Int
        /\ d \in Int /\ e \in Int /\ d1 \in Int /\ e1 \in Int
    BY <2>2, <2>5
  <2>8. /\ Active(j) => Intervals(a) + sinceTick <= used[j] /\ used[j] <= Intervals(b) + sinceTick
        /\ ~Active(j) => Intervals(d) <= used[j] /\ used[j] <= Intervals(e)
    BY DEF Upper, Lower
  <2>9. ASSUME Active(j)
        PROVE  a1 <= a /\ b + 1 <= b1
    <3>1. spells'[j] = spells[j] + 1
      BY <2>1, <2>9 DEF One
    <3>4. /\ Credit(j) \in Nat /\ Hand \in Nat /\ Late \in Nat /\ spells[j] \in Nat
          /\ Credit(j)' \in Nat /\ Credit(j)' <= Credit(j)
          /\ Hand' = 0 /\ Late' = Late
      BY <2>2, <2>3, <2>5, Zenon
    <3>2. a1 <= a
      BY <3>1, <3>4
    <3>3. b + 1 <= b1
      BY <2>2, <2>5, <2>6, <2>16, <3>1
    <3> QED
      BY <3>2, <3>3
  <2>10. ASSUME ~Active(j)
         PROVE  d1 <= d /\ e <= e1
    <3>1. spells'[j] = spells[j]
      BY <2>1, <2>5, <2>10 DEF One
    <3>2. d1 <= d
      BY <2>2, <2>3, <2>5, <2>6, <3>1
    <3>3. e <= e1
      BY <2>2, <2>5, <2>16, <3>1
    <3> QED
      BY <3>2, <3>3
  <2>11. (Upper(j)' <=> IF Active(j)' THEN Intervals(a1) + sinceTick' <= used'[j]
                                     ELSE Intervals(d1) <= used'[j])
         /\ (Lower(j)' <=> IF Active(j)' THEN used'[j] <= Intervals(b1) + sinceTick'
                                         ELSE used'[j] <= Intervals(e1))
    BY DEF Upper, Lower, Active, Intervals
  <2>17. (Active(j)' <=> Active(j)) /\ used'[j] = used[j] /\ sinceTick' = 0
    BY <1>1, <2>1, Zenon DEF Active
  <2> HIDE DEF a, b, d, e, a1, b1, d1, e1
  <2>12. /\ Intervals(a) \in Int /\ Intervals(b) \in Int /\ Intervals(a1) \in Int
         /\ Intervals(b1) \in Int /\ Intervals(d) \in Int /\ Intervals(e) \in Int
         /\ Intervals(d1) \in Int /\ Intervals(e1) \in Int
         /\ Intervals(b + 1) = Intervals(b) + Interval
    BY <2>7, Scale
  <2>13. CASE Active(j)
    <3>1. Intervals(a1) <= Intervals(a) /\ Intervals(b + 1) <= Intervals(b1)
      BY <2>7, <2>9, <2>13, Scale, Zenon
    <3>2. Intervals(a1) + 0 <= used[j] /\ used[j] <= Intervals(b1) + 0
      BY <2>5, <2>6, <2>8, <2>12, <2>13, <3>1
    <3> QED
      BY <2>11, <2>13, <2>17, <3>2
  <2>14. CASE ~Active(j)
    <3>1. Intervals(d1) <= Intervals(d) /\ Intervals(e) <= Intervals(e1)
      BY <2>7, <2>10, <2>14, Scale
    <3>2. Intervals(d1) <= used[j] /\ used[j] <= Intervals(e1)
      BY <2>5, <2>8, <2>12, <2>14, <3>1
    <3> QED
      BY <2>11, <2>14, <2>17, <3>2
  <2> QED
    BY <2>13, <2>14
<1> QED
  BY <1>2, <1>3

LEMMA InitUse == Init => UseInv
<1> SUFFICES ASSUME Init, NEW j \in Jobs PROVE Upper(j) /\ Lower(j)
  BY DEF UseInv
<1>1. /\ ledger[j] = <<>> /\ used[j] = 0 /\ missed[j] = 0 /\ spells[j] = One(j)
      /\ late = {} /\ todo = {} /\ sinceTick = 0 /\ loop = "select" /\ tick = NoTick
  BY DEF Init
<1>2. Credit(j) = 0
  <2>1. Len(ledger[j]) = 0 /\ Pending(j) = 0
    BY <1>1 DEF Pending, Owed
  <2> QED
    BY <2>1 DEF Credit
<1>3. Hand = 0 /\ Late = 0 /\ Settled = 0
  <2>1. InHand = {} /\ late \ InHand = {}
    BY <1>1 DEF InHand
  <2> QED
    BY <1>1, <2>1, FS_EmptySet DEF Hand, Late, Settled
<1>4. Intervals(0) = 0 /\ Intervals(-1) = -Interval /\ Interval \in Nat
  BY Scale, BillingAssumption
<1>5. CASE Active(j)
  <2>3. spells[j] = 1
    BY <1>1, <1>5 DEF One
  <2>1. /\ Credit(j) + Hand - spells[j] - Late = -1
        /\ Credit(j) + Hand + missed[j] + spells[j] - 1 + Settled = 0
    BY <1>1, <1>2, <1>3, <2>3
  <2> QED
    BY <1>1, <1>4, <1>5, <2>1 DEF Upper, Lower
<1>6. CASE ~Active(j)
  <2>3. spells[j] = 0
    BY <1>1, <1>6 DEF One
  <2>1. /\ Credit(j) - spells[j] - Settled = 0
        /\ Credit(j) + missed[j] + spells[j] + Late = 0
    BY <1>1, <1>2, <1>3, <2>3
  <2> QED
    BY <1>1, <1>4, <1>6, <2>1 DEF Upper, Lower
<1> QED
  BY <1>5, <1>6

LEMMA NextUse ==
  ASSUME LoopInv, LoopInv', ClockInv, ClockInv', UseInv, [Next]_vars
  PROVE  UseInv'
<1>0. HandFacts /\ HandFacts'
  BY HandNumbers, HandNumbersNext
<1> SUFFICES ASSUME NEW j \in Jobs, Computes(j) PROVE Upper(j)' /\ Lower(j)'
  BY DEF UseInv, Computes, AllocRatio
<1>1. Upper(j) /\ Lower(j)
  BY DEF UseInv
<1>2. ASSUME UNCHANGED <<ledger, phase, sinceTick, used, spells, missed, late, tick, serving, todo,
                         current>>,
             loop' = loop \/ (loop = "down" /\ loop' = "select")
      PROVE  Upper(j)' /\ Lower(j)'
  <2>1. InHand' = InHand /\ Pending(j)' = Pending(j)
    BY <1>2 DEF InHand, Pending, Owed
  <2> QED
    BY <1>0, <1>1, <1>2, <2>1, UseMoved
<1>3. ASSUME NEW c \in checks, CheckStep(c)
      PROVE  Upper(j)' /\ Lower(j)'
  BY <1>2, <1>3 DEF CheckStep, GetQuotaStatus, GetQuotaStatusFails, HookSucceeds, HookFails,
                    checkOnly, loopVars
<1>4. CASE Start \/ UNCHANGED vars
  BY <1>2, <1>4 DEF Start, vars, loopVars, history, env
<1>5. ASSUME NEW k \in Jobs, ChangePhase(k) \/ RecordUsage(k)
      PROVE  Upper(j)' /\ Lower(j)'
  BY <1>0, <1>1, <1>5, ChangePhaseUse, RecordUsageUse
<1>6. CASE StartCollection \/ CollectActiveJobs \/ CollectFails
  BY <1>0, <1>1, <1>6, StartCollectionUse, CollectUse
<1>7. CASE SaveRecord \/ SaveFails
  BY <1>0, <1>1, <1>7, SaveUse
<1>8. CASE Advance \/ Crash
  BY <1>0, <1>1, <1>8, AdvanceUse, CrashUse
<1> QED
  BY <1>3, <1>4, <1>5, <1>6, <1>7, <1>8 DEF Next

(* A record spans an interval.                                             *)
LEMMA BilledIntervals ==
  ASSUME LoopInv, LedgerInv, NEW j \in Jobs
  PROVE  Billed(j) = Intervals(Len(ledger[j]))
<1> DEFINE span == [i \in DOMAIN ledger[j] |-> ledger[j][i].end - ledger[j][i].start]
           n == Len(ledger[j])
<1>1. n \in Nat /\ DOMAIN ledger[j] = 1 .. n
  BY DEF LoopInv, TypeOK
<1>2. Billed(j) = Total(span, DOMAIN span)
  BY DEF Billed, SumFunction, SumFunctionOnSet, FoldFunctionOnSet, MapThenFoldSet, Total, Totals, Pick
<1>3. DOMAIN span = 1 .. n /\ \A i \in 1 .. n : span[i] = Interval
  BY <1>1 DEF LedgerInv, Whole
<1> HIDE DEF span, n
<1>4. IsFiniteSet(1 .. n) /\ Cardinality(1 .. n) = n
  BY <1>1, FS_Interval
<1>5. Interval \in Nat
  BY BillingAssumption
<1>6. Total(span, 1 .. n) = n * Interval
  BY <1>3, <1>4, <1>5, TotalConstant, Zenon
<1>7. n * Interval = Interval * n
  BY <1>1, <1>5
<1> QED
  BY <1>2, <1>3, <1>6, <1>7 DEF Intervals, n

LEMMA Distribute == \A m, n \in Int : Intervals(m + n) = Intervals(m) + Intervals(n)
  BY BillingAssumption DEF Intervals

LedgerUse == LedgerState /\ UseInv

LEMMA UseInvariance == Spec => []LedgerUse
<1>1. Init => LedgerUse
  BY InitLoopInv, InitClock, InitLedger, InitUse DEF LedgerState, LedgerUse
<1>2. LedgerUse /\ [Next]_vars => LedgerUse'
  BY NextLoop, NextClock, NextLedger, NextUse DEF LedgerState, LedgerUse
<1> QED
  BY <1>1, <1>2, PTL DEF Spec

(* Billed time is the time the job was active, to within an interval for   *)
(* each spell and each late tick, and one for each interval that was lost; *)
(* at no time is more billed than the spells and the late ticks account    *)
(* for, and once nothing is under way no more than that is missing.        *)
THEOREM BilledAsUsed == Spec => []BillingTracksUse
<1>1. ASSUME LedgerUse, NEW j \in Jobs, Computes(j)
      PROVE  /\ Billed(j) <= used[j] + Interval * (spells[j] + Cardinality(late))
             /\ loop = "select" /\ tick = NoTick =>
                  used[j] <= Billed(j) + Interval * (spells[j] + missed[j] + Cardinality(late))
  <2> DEFINE n == Len(ledger[j])
             c == Credit(j)
             s == spells[j]
             m == missed[j]
             u == used[j]
  <2>1. LoopInv /\ TypeOK /\ HandFacts /\ Upper(j) /\ Lower(j)
    BY <1>1, HandNumbers DEF LedgerUse, LedgerState, LoopInv, UseInv
  <2>2. /\ n \in Nat /\ c \in Nat /\ n <= c /\ s \in Nat /\ m \in Nat /\ u \in Nat
        /\ sinceTick \in Nat /\ sinceTick < Interval /\ Interval \in Nat
    BY <2>1, UseNumbers DEF Credit
  <2>3. Hand \in Nat /\ Late \in Nat /\ Settled \in Nat /\ Settled <= Late
    BY <2>1 DEF HandFacts
  <2>4. Billed(j) = Intervals(n)
    BY <1>1, BilledIntervals DEF LedgerUse, LedgerState
  <2>5. /\ IF Active(j) THEN Intervals(c + Hand - s - Late) + sinceTick <= u
                        ELSE Intervals(c - s - Settled) <= u
        /\ IF Active(j) THEN u <= Intervals(c + Hand + m + s - 1 + Settled) + sinceTick
                        ELSE u <= Intervals(c + m + s + Late)
    BY <2>1 DEF Upper, Lower
  <2> HIDE DEF n, c, s, m, u
  <2>6. Intervals(n) <= u + Intervals(s + Late)
    <3>1. n - s - Late \in Int /\ s + Late \in Int /\ (n - s - Late) + (s + Late) = n
      BY <2>2, <2>3
    <3>2. /\ Intervals(n - s - Late) \in Int /\ Intervals(s + Late) \in Int
          /\ Intervals(n) = Intervals(n - s - Late) + Intervals(s + Late)
      BY <3>1, Scale, Distribute
    <3>3. CASE Active(j)
      <4>1. c + Hand - s - Late \in Int /\ n - s - Late <= c + Hand - s - Late
        BY <2>2, <2>3
      <4>2. /\ Intervals(n - s - Late) <= Intervals(c + Hand - s - Late)
            /\ Intervals(c + Hand - s - Late) \in Int
        BY <3>1, <4>1, Scale
      <4>3. Intervals(n - s - Late) <= u
        BY <2>2, <2>5, <3>2, <3>3, <4>2
      <4> QED
        BY <2>2, <3>2, <4>3
    <3>4. CASE ~Active(j)
      <4>1. c - s - Settled \in Int /\ n - s - Late <= c - s - Settled
        BY <2>2, <2>3
      <4>2. /\ Intervals(n - s - Late) <= Intervals(c - s - Settled)
            /\ Intervals(c - s - Settled) \in Int
        BY <3>1, <4>1, Scale
      <4>3. Intervals(n - s - Late) <= u
        BY <2>2, <2>5, <3>2, <3>4, <4>2
      <4> QED
        BY <2>2, <3>2, <4>3
    <3> QED
      BY <3>3, <3>4
  <2>7. ASSUME loop = "select", tick = NoTick
        PROVE  u <= Intervals(n) + Intervals(s + m + Late)
    <3>0. Pending(j) = 0
      BY <2>1, <2>7 DEF Pending, Owed, LoopInv, Stages
    <3>1. InHand = {} /\ late \ InHand = late /\ c = n
      <4>1. InHand = {}
        BY <2>7 DEF InHand
      <4>2. c = n
        BY <2>2, <3>0 DEF c, n, Credit
      <4> QED
        BY <4>1, <4>2
    <3>2. Hand = 0 /\ Settled = Late
      BY <3>1, FS_EmptySet DEF Hand, Settled, Late
    <3> DEFINE all == n + (s + m + Late)
    <3>3. all \in Int /\ n \in Int /\ s + m + Late \in Int /\ all - 1 \in Int
      BY <2>2, <2>3
    <3>4. /\ c + Hand + m + s - 1 + Settled = all - 1
          /\ c + m + s + Late = all
      BY <2>2, <2>3, <3>1, <3>2
    <3>5. Intervals(all) = Intervals(n) + Intervals(s + m + Late)
      BY <3>3, Distribute
    <3> HIDE DEF all
    <3>6. /\ Intervals(all) \in Int /\ Intervals(all - 1) \in Int
          /\ Intervals(all) = Intervals(all - 1) + Interval
      <4>1. (all - 1) + 1 = all
        BY <3>3
      <4> QED
        BY <3>3, <4>1, Scale
    <3>7. u <= Intervals(all)
      BY <2>2, <2>5, <3>4, <3>6
    <3> QED
      BY <3>5, <3>7
  <2> QED
    BY <2>4, <2>6, <2>7 DEF s, m, u, Late, Intervals
<1>2. ASSUME LedgerUse PROVE BillingTracksUse
  BY <1>1, <1>2 DEF BillingTracksUse
<1> QED
  BY <1>2, UseInvariance, PTL

(*-------------------------------- the alerts -------------------------------*)
(* The goroutines that check the quota of a tenant.                        *)
Mine(t) == {c \in checks : c.tenant = t}

(* A tenant that is being alerted, or has been, is near its limit; each    *)
(* alert had a goroutine and each goroutine a record.                      *)
AlertInv ==
  /\ \A c \in checks : c.stage = "hook" => NearLimit(c.tenant, UsedGPUHours(c.tenant))
  /\ \A t \in Tenants :
       /\ alerts[t] > 0 => NearLimit(t, UsedGPUHours(t))
       /\ alerts[t] + Cardinality(Mine(t)) <= Cardinality(Records(t))

AllBilled == \A j \in Jobs : Billed(j) = Intervals(Len(ledger[j])) /\ Len(ledger[j]) \in Nat

LEMMA BilledNow == LoopInv /\ LedgerInv => AllBilled
  BY BilledIntervals, UseNumbers DEF AllBilled, LoopInv

LEMMA BilledNext == (LoopInv /\ LedgerInv)' => AllBilled'
  BY BilledNow, PTL

(* No record is deleted: a tenant that is near its limit stays there.      *)
LEMMA NearStays ==
  ASSUME AllBilled, AllBilled', UNCHANGED setup,
         \A j \in Jobs : Len(ledger[j]) <= Len(ledger'[j]),
         NEW t, NearLimit(t, UsedGPUHours(t))
  PROVE  NearLimit(t, UsedGPUHours(t))'
<1> DEFINE S == JobsCounted(t)
           f == [j \in S |-> AllocRatio(j) * Billed(j)]
           k == [j \in S |-> AllocRatio(j) * Billed(j)']
<1>1. JobsCounted(t)' = S /\ S \subseteq Jobs /\ IsFiniteSet(S)
  BY BillingAssumption, FS_Subset DEF JobsCounted, setup
<1>2. ASSUME NEW j \in S
      PROVE  f[j] \in Int /\ k[j] \in Int /\ f[j] <= k[j]
  <2>1. Billed(j) \in Int /\ Billed(j)' \in Int /\ Billed(j) <= Billed(j)'
    <3>1. /\ Billed(j) = Intervals(Len(ledger[j])) /\ Len(ledger[j]) \in Nat
          /\ Billed(j)' = Intervals(Len(ledger'[j])) /\ Len(ledger'[j]) \in Nat
      BY <1>1 DEF AllBilled, Intervals
    <3>2. Len(ledger[j]) <= Len(ledger'[j]) /\ Len(ledger[j]) \in Int /\ Len(ledger'[j]) \in Int
      BY <1>1, <3>1
    <3>3. /\ Intervals(Len(ledger[j])) \in Int /\ Intervals(Len(ledger'[j])) \in Int
          /\ Intervals(Len(ledger[j])) <= Intervals(Len(ledger'[j]))
      BY <3>2, Scale, Zenon
    <3> QED
      BY <3>1, <3>3
  <2>2. AllocRatio(j) \in Nat
    BY <1>1, BillingAssumption DEF AllocRatio
  <2>3. \A r \in Nat, m, n \in Int : m <= n => r * m \in Int /\ r * n \in Int /\ r * m <= r * n
    <3>1. ASSUME NEW r \in Nat, NEW m \in Int, NEW n \in Int, m <= n PROVE r * m <= r * n
      <4>1. r * (n - m) >= 0 /\ r * (n - m) = r * n - r * m
        BY <3>1
      <4> QED
        BY <4>1
    <3> QED
      BY <3>1
  <2> QED
    BY <2>1, <2>2, <2>3
<1>3. UsedGPUHours(t) = Total(f, S) /\ UsedGPUHours(t)' = Total(k, S)
  <2> HIDE DEF S
  <2>1. UsedGPUHours(t) = Total(f, S)
    BY DEF S, UsedGPUHours, GPUHours, SumFunction, SumFunctionOnSet, FoldFunctionOnSet,
           MapThenFoldSet, Total, Totals, Pick
  <2>2. UsedGPUHours(t)' = Total(k, S)
    BY <1>1 DEF UsedGPUHours, GPUHours, SumFunction, SumFunctionOnSet, FoldFunctionOnSet,
                MapThenFoldSet, Total, Totals, Pick
  <2> QED
    BY <2>1, <2>2
<1> HIDE DEF f, k, S
<1>4. Total(f, S) <= Total(k, S) /\ Total(f, S) \in Int /\ Total(k, S) \in Int
  BY <1>1, <1>2, TotalLess, TotalSame
<1>5. t \in DOMAIN SoftLimit /\ SoftLimit[t] > 0 /\ 100 * UsedGPUHours(t) >= 80 * SoftLimit[t]
  BY DEF NearLimit
<1>6. SoftLimit[t] \in Nat
  BY <1>5, BillingAssumption
<1>7. 100 * UsedGPUHours(t)' >= 80 * SoftLimit[t]
  BY <1>3, <1>4, <1>5, <1>6
<1> QED
  BY <1>5, <1>7 DEF NearLimit

LEMMA InRecords ==
  ASSUME NEW t, NEW x
  PROVE  x \in Records(t) <=>
           \E j \in Jobs : TenantOf(j) = t /\ \E i \in DOMAIN ledger[j] : x = <<j, i>>
<1>1. \A j : x \in {j} \X DOMAIN ledger[j] <=> \E i \in DOMAIN ledger[j] : x = <<j, i>>
  OBVIOUS
<1> QED
  BY <1>1 DEF Records

RecordsFinite == \A t \in Tenants : IsFiniteSet(Records(t)) /\ Cardinality(Records(t)) \in Nat

LEMMA FiniteRecords == LoopInv => RecordsFinite
<1> SUFFICES ASSUME LoopInv, NEW t \in Tenants PROVE IsFiniteSet(Records(t))
  BY FS_CardinalityType DEF RecordsFinite
<1> DEFINE S == {k \in Jobs : TenantOf(k) = t}
           f == [j \in S |-> {j} \X DOMAIN ledger[j]]
           T == {f[j] : j \in S}
<1>1. IsFiniteSet(S)
  BY BillingAssumption, FS_Subset
<1>2. IsFiniteSet(T)
  <2>1. f \in Surjection(S, T)
    <3>1. f \in [S -> T] /\ \A u \in T : \E j \in S : f[j] = u
      OBVIOUS
    <3> QED
      BY <3>1 DEF Surjection
  <2> HIDE DEF f, S, T
  <2> QED
    BY <1>1, <2>1, FS_Surjection
<1>3. \A U \in T : IsFiniteSet(U)
  <2>1. ASSUME NEW j \in S PROVE IsFiniteSet(f[j])
    <3>1. Len(ledger[j]) \in Nat /\ DOMAIN ledger[j] = 1 .. Len(ledger[j])
      BY DEF LoopInv, TypeOK
    <3>2. IsFiniteSet(DOMAIN ledger[j]) /\ IsFiniteSet({j})
      <4>1. \A n \in Nat : IsFiniteSet(1 .. n)
        BY FS_Interval
      <4> QED
        BY <3>1, <4>1, FS_Singleton, Zenon
    <3>3. IsFiniteSet({j} \X DOMAIN ledger[j])
      BY <3>2, FS_Product
    <3> QED
      BY <3>3
  <2> QED
    BY <2>1
<1>4. Records(t) = UNION T
  BY DEF Records
<1> HIDE DEF T
<1> QED
  BY <1>2, <1>3, <1>4, FS_UNION

LEMMA FiniteRecordsNext == LoopInv' => RecordsFinite'
  BY FiniteRecords, PTL

(* A record is added, or none is.                                          *)
LEMMA RecordsGrow ==
  ASSUME LoopInv, LoopInv', department' = department, NEW t \in Tenants,
         \A j \in Jobs : Len(ledger[j]) <= Len(ledger'[j])
  PROVE  Cardinality(Records(t)) <= Cardinality(Records(t)')
<1>1. \A j \in Jobs : DOMAIN ledger[j] \subseteq DOMAIN ledger'[j]
  <2>1. ASSUME NEW j \in Jobs
        PROVE  /\ Len(ledger[j]) \in Nat /\ DOMAIN ledger[j] = 1 .. Len(ledger[j])
               /\ Len(ledger'[j]) \in Nat /\ DOMAIN ledger'[j] = 1 .. Len(ledger'[j])
    BY DEF LoopInv, TypeOK
  <2> QED
    BY <2>1
<1>2. Records(t) \subseteq Records(t)'
  <2>1. {k \in Jobs : TenantOf(k) = t}' = {k \in Jobs : TenantOf(k) = t}
    BY DEF TenantOf
  <2>2. ASSUME NEW x \in Records(t) PROVE x \in Records(t)'
    <3>1. PICK j \in Jobs : TenantOf(j) = t /\ \E i \in DOMAIN ledger[j] : x = <<j, i>>
      BY InRecords
    <3>2. x \in {j} \X DOMAIN ledger'[j] /\ TenantOf(j)' = t
      BY <1>1, <3>1 DEF TenantOf
    <3> QED
      BY <3>2 DEF Records
  <2> QED
    BY <2>2
<1>3. IsFiniteSet(Records(t)')
  BY FiniteRecordsNext DEF RecordsFinite
<1> QED
  BY <1>2, <1>3, FS_Subset

LEMMA RecordsInsert ==
  ASSUME LoopInv, LoopInv', department' = department, loop = "saving", Insert,
         NEW c, c = current[1], NEW t, t = TenantOf(c)
  PROVE  Cardinality(Records(t)') = Cardinality(Records(t)) + 1
<1> DEFINE n == Len(ledger[c])
           x == <<c, n + 1>>
<1>1. /\ c \in Jobs /\ t \in Tenants /\ current[2] \in Record
      /\ ledger'[c] = Append(ledger[c], current[2]) /\ ledger[c] \in Seq(Record)
      /\ \A j \in Jobs \ {c} : ledger'[j] = ledger[j]
  BY InsertType, TenantOfType DEF LoopInv, TypeOK
<1>2. n \in Nat /\ DOMAIN ledger[c] = 1 .. n /\ DOMAIN ledger'[c] = 1 .. n + 1
  <2> HIDE DEF Record
  <2> QED
    BY <1>1
<1>3. \A j \in Jobs : TenantOf(j)' = TenantOf(j)
  BY DEF TenantOf
<1>4. Records(t)' = Records(t) \cup {x} /\ x \notin Records(t)
  <2>1. DOMAIN ledger'[c] = DOMAIN ledger[c] \cup {n + 1} /\ n + 1 \notin DOMAIN ledger[c]
    BY <1>2
  <2> HIDE DEF n
  <2>2. ASSUME NEW y
        PROVE  y \in Records(t)' <=> y \in Records(t) \/ y = x
    <3> DEFINE Of(j, D) == \E i \in D : y = <<j, i>>
    <3>1. y \in Records(t)' <=> \E j \in Jobs : TenantOf(j) = t /\ Of(j, DOMAIN ledger'[j])
      <4>1. \A j : y \in {j} \X DOMAIN ledger'[j] <=> Of(j, DOMAIN ledger'[j])
        OBVIOUS
      <4> QED
        BY <1>3, <4>1 DEF Records
    <3>2. y \in Records(t) <=> \E j \in Jobs : TenantOf(j) = t /\ Of(j, DOMAIN ledger[j])
      BY InRecords
    <3>3. Of(c, DOMAIN ledger'[c]) <=> Of(c, DOMAIN ledger[c]) \/ y = x
      BY <2>1
    <3>4. \A j \in Jobs \ {c} : Of(j, DOMAIN ledger'[j]) <=> Of(j, DOMAIN ledger[j])
      BY <1>1
    <3> HIDE DEF Of, x
    <3> QED
      BY <1>1, <3>1, <3>2, <3>3, <3>4
  <2>3. x \notin Records(t)
    BY <2>1, InRecords
  <2> QED
    BY <2>2, <2>3
<1>5. IsFiniteSet(Records(t)) /\ Cardinality(Records(t)) \in Nat
  BY <1>1, FiniteRecords DEF RecordsFinite
<1> HIDE DEF x
<1>6. Cardinality(Records(t) \cup {x}) = Cardinality(Records(t)) + 1
  BY <1>4, <1>5, FS_AddElement
<1> QED
  BY <1>4, <1>6

LEMMA AtMostOneMore ==
  ASSUME NEW S, IsFiniteSet(S), NEW x
  PROVE  Cardinality(S \cup {x}) <= Cardinality(S) + 1
<1>1. Cardinality(S) \in Nat
  BY FS_CardinalityType
<1>2. Cardinality(S \cup {x}) = Cardinality(S) \/ Cardinality(S \cup {x}) = Cardinality(S) + 1
  BY FS_AddElement, Zenon
<1> QED
  BY <1>1, <1>2

LEMMA MineFinite ==
  ASSUME LoopInv, NEW t
  PROVE  IsFiniteSet(Mine(t)) /\ Cardinality(Mine(t)) \in Nat
<1>1. IsFiniteSet(checks) /\ Mine(t) \subseteq checks
  BY DEF LoopInv, Stages, Mine
<1> QED
  BY <1>1, FS_Subset, FS_CardinalityType

(* Steps without an alert: a goroutine has a record of its own, or takes   *)
(* the place of one that has.                                              *)
LEMMA AlertsFollow ==
  ASSUME LoopInv, LoopInv', AllBilled, AllBilled', AlertInv, UNCHANGED setup, alerts' = alerts,
         \A j \in Jobs : Len(ledger[j]) <= Len(ledger'[j]),
         \A c \in checks' : c.stage = "hook" => NearLimit(c.tenant, UsedGPUHours(c.tenant)),
         \A t \in Tenants :
           \/ Cardinality(Mine(t)') <= Cardinality(Mine(t))
           \/ /\ Cardinality(Mine(t)') <= Cardinality(Mine(t)) + 1
              /\ Cardinality(Records(t)') = Cardinality(Records(t)) + 1
  PROVE  AlertInv'
<1>1. ASSUME NEW c \in checks', c.stage = "hook"
      PROVE  NearLimit(c.tenant, UsedGPUHours(c.tenant))'
  <2>1. NearLimit(c.tenant, UsedGPUHours(c.tenant))
    BY <1>1
  <2> QED
    BY <2>1, NearStays
<1>2. ASSUME NEW t \in Tenants, alerts'[t] > 0
      PROVE  NearLimit(t, UsedGPUHours(t))'
  BY <1>2, NearStays DEF AlertInv
<1>3. ASSUME NEW t \in Tenants
      PROVE  alerts'[t] + Cardinality(Mine(t)') <= Cardinality(Records(t)')
  <2>1. Cardinality(Mine(t)) \in Nat /\ Cardinality(Mine(t)') \in Nat
    <3>1. IsFiniteSet(checks') /\ Mine(t)' \subseteq checks'
      BY DEF LoopInv, Stages, Mine
    <3> QED
      BY <3>1, MineFinite, FS_Subset, FS_CardinalityType
  <2>2. Cardinality(Records(t)) \in Nat /\ Cardinality(Records(t)') \in Nat
    BY FiniteRecords, FiniteRecordsNext DEF RecordsFinite
  <2>3. Cardinality(Records(t)) <= Cardinality(Records(t)')
    BY RecordsGrow DEF setup
  <2>4. alerts[t] \in Nat /\ alerts[t] + Cardinality(Mine(t)) <= Cardinality(Records(t))
    BY DEF AlertInv, LoopInv, TypeOK
  <2>5. \/ Cardinality(Mine(t)') <= Cardinality(Mine(t))
        \/ /\ Cardinality(Mine(t)') <= Cardinality(Mine(t)) + 1
           /\ Cardinality(Records(t)') = Cardinality(Records(t)) + 1
    OBVIOUS
  <2>6. alerts[t] + Cardinality(Mine(t)') <= Cardinality(Records(t)')
    BY <2>1, <2>2, <2>3, <2>4, <2>5
  <2> QED
    BY <2>6
<1> QED
  BY <1>1, <1>2, <1>3 DEF AlertInv

(* Steps of the loop and of the environment.                               *)
LEMMA AlertsKept ==
  ASSUME LoopInv, LoopInv', AllBilled, AllBilled', AlertInv, UNCHANGED setup, alerts' = alerts,
         \A j \in Jobs : Len(ledger[j]) <= Len(ledger'[j]), checks' \subseteq checks
  PROVE  AlertInv'
<1>1. \A t \in Tenants : Cardinality(Mine(t)') <= Cardinality(Mine(t))
  <2>1. \A t : Mine(t)' \subseteq Mine(t)
    BY DEF Mine
  <2> QED
    BY <2>1, MineFinite, FS_Subset
<1>2. \A c \in checks' : c.stage = "hook" => NearLimit(c.tenant, UsedGPUHours(c.tenant))
  BY DEF AlertInv
<1> QED
  BY <1>1, <1>2, AlertsFollow

LEMMA InsertGrows ==
  ASSUME LoopInv, loop = "saving", Insert
  PROVE  \A j \in Jobs : Len(ledger[j]) <= Len(ledger'[j])
<1>1. ASSUME NEW j \in Jobs PROVE Len(ledger[j]) <= Len(ledger'[j])
  <2>1. ledger[j] \in Seq(Record) /\ Len(ledger[j]) \in Nat
    BY DEF LoopInv, TypeOK
  <2>2. \/ ledger'[j] = ledger[j]
        \/ ledger'[j] = Append(ledger[j], current[2]) /\ current[2] \in Record
    BY InsertType
  <2> HIDE DEF Record
  <2>3. Len(ledger'[j]) = Len(ledger[j]) \/ Len(ledger'[j]) = Len(ledger[j]) + 1
    BY <2>1, <2>2
  <2> QED
    BY <2>1, <2>3
<1> QED
  BY <1>1

LEMMA NothingGrows ==
  ASSUME LoopInv, ledger' = ledger
  PROVE  \A j \in Jobs : Len(ledger[j]) <= Len(ledger'[j])
  BY UseNumbers DEF LoopInv

LEMMA SaveRecordAlerts ==
  ASSUME LoopInv, LoopInv', AllBilled, AllBilled', AlertInv, SaveRecord
  PROVE  AlertInv'
<1>1. /\ loop = "saving" /\ Insert /\ UNCHANGED setup /\ alerts' = alerts
      /\ checks' = checks \cup {NewCheck(current[1])}
  BY DEF SaveRecord
<1>2. PICK c : c = current[1]
  OBVIOUS
<1>3. PICK new : new = NewCheck(c)
  OBVIOUS
<1>4. new.stage = "query" /\ new.tenant = TenantOf(c) /\ checks' = checks \cup {new}
  BY <1>1, <1>2, <1>3 DEF NewCheck
<1>5. \A d \in checks' : d.stage = "hook" => NearLimit(d.tenant, UsedGPUHours(d.tenant))
  BY <1>4 DEF AlertInv
<1>6. ASSUME NEW t \in Tenants
      PROVE  \/ Cardinality(Mine(t)') <= Cardinality(Mine(t))
             \/ /\ Cardinality(Mine(t)') <= Cardinality(Mine(t)) + 1
                /\ Cardinality(Records(t)') = Cardinality(Records(t)) + 1
  <2>0. IsFiniteSet(Mine(t)) /\ Cardinality(Mine(t)) \in Nat
    BY MineFinite
  <2>1. CASE t = TenantOf(c)
    <3>1. Cardinality(Records(t)') = Cardinality(Records(t)) + 1
      BY <1>1, <1>2, <2>1, RecordsInsert DEF setup
    <3>2. Mine(t)' = Mine(t) \cup {new}
      BY <1>4, <2>1 DEF Mine
    <3>3. Cardinality(Mine(t) \cup {new}) <= Cardinality(Mine(t)) + 1
      BY <2>0, AtMostOneMore
    <3> QED
      BY <3>1, <3>2, <3>3
  <2>2. CASE t # TenantOf(c)
    <3>1. Mine(t)' = Mine(t)
      BY <1>4, <2>2 DEF Mine
    <3> QED
      BY <2>0, <3>1
  <2> QED
    BY <2>1, <2>2
<1>7. \A j \in Jobs : Len(ledger[j]) <= Len(ledger'[j])
  BY <1>1, InsertGrows
<1> QED
  BY <1>1, <1>5, <1>6, <1>7, AlertsFollow

(* A goroutine moves on, and another record of its takes its place.        *)
LEMMA MineMoves ==
  ASSUME LoopInv, NEW c \in checks, NEW S, checks' = (checks \ {c}) \cup S,
         S = {} \/ \E e : S = {e} /\ e.tenant = c.tenant
  PROVE  \A t \in Tenants : Cardinality(Mine(t)') <= Cardinality(Mine(t))
<1> SUFFICES ASSUME NEW t \in Tenants PROVE Cardinality(Mine(t)') <= Cardinality(Mine(t))
  OBVIOUS
<1>1. IsFiniteSet(Mine(t)) /\ Cardinality(Mine(t)) \in Nat
  BY MineFinite
<1>2. CASE t # c.tenant
  <2>1. Mine(t)' = Mine(t)
    BY <1>2 DEF Mine
  <2> QED
    BY <1>1, <2>1
<1>3. CASE t = c.tenant
  <2> DEFINE rest == Mine(t) \ {c}
  <2>1. Mine(t)' = rest \cup S /\ c \in Mine(t)
    BY <1>3 DEF Mine
  <2>2. IsFiniteSet(rest) /\ Cardinality(rest) = Cardinality(Mine(t)) - 1
    BY <1>1, <2>1, FS_RemoveElement
  <2> HIDE DEF rest
  <2>3. Cardinality(rest \cup S) <= Cardinality(rest) + 1
    <3>1. Cardinality(rest) \in Nat
      BY <2>2, FS_CardinalityType
    <3>2. CASE S = {}
      <4>1. rest \cup S = rest
        BY <3>2
      <4>2. Cardinality(rest) <= Cardinality(rest) + 1
        BY <3>1
      <4> QED
        BY <4>1, <4>2, Zenon
    <3>3. CASE \E e : S = {e}
      BY <2>2, <3>3, AtMostOneMore
    <3> QED
      BY <3>2, <3>3
  <2>4. Cardinality(rest) + 1 = Cardinality(Mine(t))
    BY <1>1, <2>2
  <2> QED
    BY <2>1, <2>3, <2>4
<1> QED
  BY <1>2, <1>3

LEMMA CheckStepAlerts ==
  ASSUME LoopInv, LoopInv', AllBilled, AllBilled', AlertInv, NEW c \in checks, CheckStep(c)
  PROVE  AlertInv'
<1>0. c \in Check /\ c.tenant \in Tenants
  BY DEF LoopInv, TypeOK, Check
<1>1. UNCHANGED setup /\ ledger' = ledger
  BY DEF CheckStep, GetQuotaStatus, GetQuotaStatusFails, HookSucceeds, HookFails, checkOnly, setup
<1>2. \A j \in Jobs : Len(ledger[j]) <= Len(ledger'[j])
  BY <1>1, NothingGrows
<1>3. ASSUME NEW S, checks' = (checks \ {c}) \cup S, alerts' = alerts,
             S = {} \/ \E e : /\ S = {e} /\ e.tenant = c.tenant
                              /\ e.stage = "hook" => NearLimit(c.tenant, UsedGPUHours(c.tenant))
      PROVE  AlertInv'
  <2>1. \A t \in Tenants : Cardinality(Mine(t)') <= Cardinality(Mine(t))
    BY <1>3, MineMoves
  <2>2. \A d \in checks' : d.stage = "hook" => NearLimit(d.tenant, UsedGPUHours(d.tenant))
    BY <1>3 DEF AlertInv
  <2> QED
    BY <1>1, <1>2, <1>3, <2>1, <2>2, AlertsFollow
<1>4. CASE GetQuotaStatus(c)
  <2>1. CASE NearLimit(c.tenant, UsedGPUHours(c.tenant))
    <3>1. checks' = (checks \ {c}) \cup {HookCall(c)} /\ alerts' = alerts
      BY <1>4, <2>1 DEF GetQuotaStatus
    <3>2. HookCall(c).tenant = c.tenant
      BY DEF HookCall
    <3> QED
      BY <1>3, <2>1, <3>1, <3>2
  <2>2. CASE ~NearLimit(c.tenant, UsedGPUHours(c.tenant))
    <3>1. checks' = (checks \ {c}) \cup {} /\ alerts' = alerts
      BY <1>4, <2>2 DEF GetQuotaStatus
    <3> QED
      BY <1>3, <3>1
  <2> QED
    BY <2>1, <2>2
<1>5. CASE GetQuotaStatusFails(c) \/ HookFails(c)
  <2>1. Retry(c) /\ alerts' = alerts
    BY <1>5 DEF GetQuotaStatusFails, HookFails
  <2>2. CASE c.tries = 2
    <3>1. checks' = (checks \ {c}) \cup {}
      BY <2>1, <2>2 DEF Retry
    <3> QED
      BY <1>3, <2>1, <3>1
  <2>3. CASE c.tries # 2
    <3>1. PICK e : e = [c EXCEPT !.tries = @ + 1]
      OBVIOUS
    <3>2. checks' = (checks \ {c}) \cup {e}
      BY <2>1, <2>3, <3>1 DEF Retry
    <3>3. e.tenant = c.tenant /\ e.stage = c.stage
      BY <1>0, <3>1 DEF Check
    <3>4. e.stage = "hook" => NearLimit(c.tenant, UsedGPUHours(c.tenant))
      BY <3>3 DEF AlertInv
    <3> QED
      BY <1>3, <2>1, <3>2, <3>3, <3>4
  <2> QED
    BY <2>2, <2>3
<1>6. CASE HookSucceeds(c)
  <2>1. /\ c.stage = "hook" /\ checks' = checks \ {c}
        /\ alerts' = [alerts EXCEPT ![c.tenant] = @ + 1]
    BY <1>6 DEF HookSucceeds
  <2>2. \A t : NearLimit(t, UsedGPUHours(t)) => NearLimit(t, UsedGPUHours(t))'
    BY <1>1, <1>2, NearStays
  <2>3. ASSUME NEW t \in Tenants
        PROVE  /\ alerts'[t] > 0 => NearLimit(t, UsedGPUHours(t))'
               /\ alerts'[t] + Cardinality(Mine(t)') <= Cardinality(Records(t)')
    <3>1. alerts[t] \in Nat /\ IsFiniteSet(Mine(t)) /\ Cardinality(Mine(t)) \in Nat
      BY MineFinite DEF LoopInv, TypeOK
    <3>2. Records(t)' = Records(t)
      BY <1>1 DEF Records, TenantOf, setup
    <3>3. CASE t = c.tenant
      <4>1. alerts'[t] = alerts[t] + 1
        BY <2>1, <3>3 DEF LoopInv, TypeOK
      <4>2. Cardinality(Mine(t)') = Cardinality(Mine(t)) - 1
        <5>1. Mine(t)' = Mine(t) \ {c} /\ c \in Mine(t)
          BY <2>1, <3>3 DEF Mine
        <5> QED
          BY <3>1, <5>1, FS_RemoveElement
      <4>3. NearLimit(t, UsedGPUHours(t))'
        BY <2>1, <2>2, <3>3 DEF AlertInv
      <4>4. alerts[t] + Cardinality(Mine(t)) <= Cardinality(Records(t))
        BY DEF AlertInv
      <4>5. alerts'[t] + Cardinality(Mine(t)') = alerts[t] + Cardinality(Mine(t))
        BY <3>1, <4>1, <4>2
      <4> QED
        BY <3>2, <4>3, <4>4, <4>5
    <3>4. CASE t # c.tenant
      <4>1. alerts'[t] = alerts[t] /\ Mine(t)' = Mine(t)
        BY <2>1, <3>4 DEF LoopInv, TypeOK, Mine
      <4> QED
        BY <2>2, <3>2, <4>1 DEF AlertInv
    <3> QED
      BY <3>3, <3>4
  <2>4. \A d \in checks' : d.stage = "hook" => NearLimit(d.tenant, UsedGPUHours(d.tenant))'
    BY <2>1, <2>2 DEF AlertInv
  <2> QED
    BY <2>3, <2>4 DEF AlertInv
<1> QED
  BY <1>4, <1>5, <1>6 DEF CheckStep

LEMMA CrashAlerts ==
  ASSUME LoopInv, LoopInv', AllBilled, AllBilled', AlertInv, Crash
  PROVE  AlertInv'
<1>1. checks' = {} /\ UNCHANGED setup
  BY DEF Crash
<1>2. CASE backend = "memory"
  <2>1. alerts' = [t \in Tenants |-> 0]
    BY <1>2 DEF Crash
  <2>2. ASSUME NEW t \in Tenants
        PROVE  /\ ~(alerts'[t] > 0)
               /\ alerts'[t] + Cardinality(Mine(t)') <= Cardinality(Records(t)')
    <3>1. alerts'[t] = 0 /\ Mine(t)' = {}
      BY <1>1, <2>1 DEF Mine
    <3>2. Cardinality(Records(t)') \in Nat
      BY FiniteRecordsNext DEF RecordsFinite
    <3>3. Cardinality(Mine(t)') = 0
      BY <3>1, FS_EmptySet
    <3> QED
      BY <3>1, <3>2, <3>3
  <2> QED
    BY <1>1, <2>2 DEF AlertInv
<1>3. CASE backend # "memory"
  <2>1. alerts' = alerts /\ (ledger' = ledger \/ (loop = "saving" /\ Insert))
    BY <1>3 DEF Crash
  <2>2. \A j \in Jobs : Len(ledger[j]) <= Len(ledger'[j])
    BY <2>1, InsertGrows, NothingGrows
  <2> QED
    BY <1>1, <2>1, <2>2, AlertsKept
<1> QED
  BY <1>2, <1>3

LEMMA InitAlerts == Init => AlertInv
<1> SUFFICES ASSUME Init PROVE AlertInv
  OBVIOUS
<1>1. ASSUME NEW t \in Tenants
      PROVE  /\ ~(alerts[t] > 0)
             /\ alerts[t] + Cardinality(Mine(t)) <= Cardinality(Records(t))
  <2>1. alerts[t] = 0 /\ Mine(t) = {}
    BY DEF Init, Mine
  <2>2. Cardinality(Records(t)) \in Nat
    BY InitLoopInv, FiniteRecords DEF RecordsFinite
  <2>3. Cardinality(Mine(t)) = 0
    BY <2>1, FS_EmptySet
  <2> QED
    BY <2>1, <2>2, <2>3
<1>2. checks = {}
  BY DEF Init
<1> QED
  BY <1>1, <1>2 DEF AlertInv

LEMMA NextAlerts ==
  ASSUME LoopInv, LoopInv', LedgerInv, LedgerInv', AlertInv, [Next]_vars
  PROVE  AlertInv'
<1>0. AllBilled /\ AllBilled'
  BY BilledNow, BilledNext
<1>1. ASSUME UNCHANGED <<setup, ledger, checks, alerts>>
      PROVE  AlertInv'
  BY <1>0, <1>1, NothingGrows, AlertsKept
<1>2. ASSUME NEW j \in Jobs, ChangePhase(j) \/ RecordUsage(j)
      PROVE  AlertInv'
  BY <1>1, <1>2 DEF ChangePhase, RecordUsage
<1>3. CASE Advance \/ StartCollection \/ CollectActiveJobs \/ CollectFails
  BY <1>1, <1>3 DEF Advance, StartCollection, CollectActiveJobs, CollectFails
<1>4. CASE SaveRecord
  BY <1>0, <1>4, SaveRecordAlerts
<1>5. CASE SaveFails
  <2>1. /\ UNCHANGED setup /\ checks' = checks /\ alerts' = alerts /\ loop = "saving"
        /\ Insert \/ ledger' = ledger
    BY <1>5 DEF SaveFails
  <2>2. \A j \in Jobs : Len(ledger[j]) <= Len(ledger'[j])
    BY <2>1, InsertGrows, NothingGrows
  <2> QED
    BY <1>0, <2>1, <2>2, AlertsKept
<1>6. ASSUME NEW c \in checks, CheckStep(c)
      PROVE  AlertInv'
  BY <1>0, <1>6, CheckStepAlerts
<1>7. CASE Crash
  BY <1>0, <1>7, CrashAlerts
<1>8. CASE Start \/ UNCHANGED vars
  BY <1>1, <1>8 DEF Start, vars
<1> QED
  BY <1>2, <1>3, <1>4, <1>5, <1>6, <1>7, <1>8 DEF Next

AlertState == LedgerState /\ AlertInv

(* A tenant is alerted only when its records have reached 80 percent of    *)
(* its soft limit, and at most once per record.                            *)
THEOREM AlertsHaveReason == Spec => []AlertsJustified
<1>1. Init => AlertState
  BY InitLoopInv, InitClock, InitLedger, InitAlerts DEF LedgerState, AlertState
<1>2. AlertState /\ [Next]_vars => AlertState'
  BY NextLoop, NextClock, NextLedger, NextAlerts DEF LedgerState, AlertState
<1>3. ASSUME AlertState PROVE AlertsJustified
  <2>1. ASSUME NEW t \in Tenants, alerts[t] > 0
        PROVE  NearLimit(t, UsedGPUHours(t)) /\ alerts[t] <= Cardinality(Records(t))
    <3>1. LoopInv /\ AlertInv
      BY <1>3 DEF AlertState, LedgerState
    <3>2. alerts[t] \in Nat /\ Cardinality(Mine(t)) \in Nat /\ Cardinality(Records(t)) \in Nat
      BY <3>1, MineFinite, FiniteRecords DEF RecordsFinite, LoopInv, TypeOK
    <3>3. alerts[t] + Cardinality(Mine(t)) <= Cardinality(Records(t))
      BY <3>1 DEF AlertInv
    <3>4. alerts[t] <= Cardinality(Records(t))
      BY <3>2, <3>3
    <3> QED
      BY <2>1, <3>1, <3>4 DEF AlertInv
  <2> QED
    BY <2>1 DEF AlertsJustified
<1> QED
  BY <1>1, <1>2, <1>3, PTL DEF Spec
==============================================================================
