------------------------------- MODULE Billing -------------------------------
(***************************************************************************)
(* cmd/billing-engine and pkg/billing: a loop that at every tick lists the *)
(* PhoenixJobs and writes one usage record per active job, and a goroutine *)
(* per record that compares the usage of the tenant with its quota.        *)
(*                                                                         *)
(* Time is discrete.  An hour of use is counted in quarters of a GPU, the  *)
(* unit of Ratio.  All of it happens within one billing month.             *)
(***************************************************************************)
EXTENDS Integers, Sequences, FiniteSets, SequencesExt

CONSTANTS
  Jobs, Departments, Namespaces,
  NoDepartment,   \* spec.billing.department is absent
  Namespace,      \* [Jobs -> Namespaces]
  Ratio,          \* [Jobs -> Nat]: spec.checkpoint.allocRatio, 0 when absent
  SoftLimit,      \* soft limit of each tenant whose policy SetQuota has set
  Interval,       \* collection-interval
  NoTick, NoRecord,
  MaxTime, MaxChanges, MaxFailures, MaxCrashes   \* bounds of the environment

Tenants == Departments \cup Namespaces

ASSUME BillingAssumption ==
  /\ IsFiniteSet(Jobs)
  /\ Namespace \in [Jobs -> Namespaces]
  /\ Ratio \in [Jobs -> Nat]
  /\ DOMAIN SoftLimit \subseteq Tenants
  /\ \A t \in DOMAIN SoftLimit : SoftLimit[t] \in Nat
  /\ Departments \cap Namespaces = {} /\ NoDepartment \notin Tenants
  /\ Interval \in Nat \ {0}
  /\ NoTick \notin Nat
  /\ MaxTime \in Nat

VARIABLES
  backend,    \* the Store: "memory" without a DSN, "postgres" with one
  department, \* spec.billing.department of each job, where it has one
  now,
  phase,      \* status.phase of each job
  loop,       \* where the collection loop is
  sinceTick,  \* age of the ticker's current period
  tick,       \* what ticker.C holds: the time of a tick, or NoTick
  serving,    \* the tick being served
  todo,       \* jobs of the list that are still to be recorded
  current,    \* the record that is being saved
  ledger,     \* usage_records of each job, in the order of insertion
  checks,     \* running checkQuota goroutines
  alerts,     \* hook calls that succeeded, per tenant
  changes, failures, crashes,
  (* History, since the ledger began.                                      *)
  used,       \* time each job was active while the engine ran
  spells,     \* how often that began
  missed,     \* intervals lost to a failed call, a crash or a dropped tick
  late,       \* ticks that were not served at once
  uncheckedFor    \* tenants of a record whose check was lost or gave up

setup == <<backend, department>>
env == <<phase, changes, failures, crashes>>
loopVars == <<loop, sinceTick, tick, serving, todo, current>>
history == <<used, spells, missed, late, uncheckedFor>>
vars == <<setup, now, loopVars, ledger, checks, alerts, env, history>>

Phases == {"Running", "Checkpointing", "Restoring"}
Record == [start : Int, end : Nat, tick : Nat]
Check == [tenant : Tenants, record : Jobs \X Nat, stage : {"query", "hook"}, tries : 0 .. 2]

(* Jobs that collectActiveJobs keeps.                                      *)
Active(j) == phase[j] \in {"Running", "Checkpointing"}
One(j) == IF Active(j) THEN 1 ELSE 0

(* Quarters of a GPU.  A whole number is decoded as an int64, which        *)
(* NestedFloat64 does not take: like an absent ratio it becomes 1.0.  A    *)
(* fraction above 1 is refused by Compute.                                 *)
AllocRatio(j) == IF Ratio[j] % 4 = 0 THEN 4 ELSE Ratio[j]
Computes(j) == AllocRatio(j) <= 4

(* checkQuota's tenantID.                                                  *)
TenantOf(j) == IF department[j] = NoDepartment THEN Namespace[j] ELSE department[j]

Billed(j) == SumFunction([i \in DOMAIN ledger[j] |-> ledger[j][i].end - ledger[j][i].start])
GPUHours(S) == SumFunction([j \in S |-> AllocRatio(j) * Billed(j)])

(* GetQuotaStatus of the in-memory store counts the records whose          *)
(* department or namespace is the tenant.                                  *)
JobsCounted(t) == {j \in Jobs : department[j] = t \/ Namespace[j] = t}
UsedGPUHours(t) == GPUHours(JobsCounted(t))

(* UsedPct >= 80; a soft limit of 0 counts as 0 percent.                   *)
NearLimit(t, hours) ==
  /\ t \in DOMAIN SoftLimit
  /\ SoftLimit[t] > 0
  /\ 100 * hours >= 80 * SoftLimit[t]

TypeOK ==
  /\ backend \in {"memory", "postgres"}
  /\ department \in [Jobs -> Departments \cup {NoDepartment}]
  /\ now \in 0 .. MaxTime
  /\ phase \in [Jobs -> Phases]
  /\ loop \in {"select", "listing", "recording", "saving", "down"}
  /\ sinceTick \in 0 .. Interval - 1
  /\ tick \in Nat \cup {NoTick} /\ serving \in Nat \cup {NoTick}
  /\ todo \subseteq Jobs
  /\ current \in (Jobs \X Record) \cup {NoRecord}
  /\ ledger \in [Jobs -> Seq(Record)]
  /\ checks \subseteq Check
  /\ alerts \in [Tenants -> Nat]
  /\ used \in [Jobs -> Nat] /\ spells \in [Jobs -> Nat] /\ missed \in [Jobs -> Nat]
  /\ late \subseteq Nat /\ uncheckedFor \subseteq Tenants

Init ==
  /\ backend \in {"memory", "postgres"}
  /\ department \in [Jobs -> Departments \cup {NoDepartment}]
  /\ now = 0
  /\ phase \in [Jobs -> {"Running", "Restoring"}]
  /\ loop = "select" /\ sinceTick = 0 /\ tick = NoTick /\ serving = NoTick
  /\ todo = {} /\ current = NoRecord
  /\ ledger = [j \in Jobs |-> <<>>]
  /\ checks = {}
  /\ alerts = [t \in Tenants |-> 0]
  /\ changes = 0 /\ failures = 0 /\ crashes = 0
  /\ used = [j \in Jobs |-> 0]
  /\ spells = [j \in Jobs |-> One(j)]
  /\ missed = [j \in Jobs |-> 0]
  /\ late = {} /\ uncheckedFor = {}

(*------------------------------- environment ------------------------------*)
ChangePhase(j) ==
  /\ changes < MaxChanges
  /\ \E p \in Phases \ {phase[j]} :
       /\ phase' = [phase EXCEPT ![j] = p]
       /\ spells' = [spells EXCEPT ![j] = @ + IF Active(j) THEN 0 ELSE 1]
  /\ changes' = changes + 1
  /\ UNCHANGED <<setup, now, loopVars, ledger, checks, alerts, failures, crashes,
                 used, missed, late, uncheckedFor>>

LoseInterval == missed' = [j \in Jobs |-> missed[j] + 1]

(* time.Ticker: a channel of one tick; a tick that finds it full is        *)
(* dropped.                                                                *)
Fire ==
  /\ sinceTick' = 0
  /\ IF tick = NoTick
     THEN tick' = now + 1 /\ UNCHANGED missed
     ELSE UNCHANGED tick /\ LoseInterval

Advance ==
  /\ now < MaxTime
  /\ now' = now + 1
  /\ IF loop = "down"
     THEN UNCHANGED <<sinceTick, tick, missed, used, late>>
     ELSE /\ late' = late \cup ({tick} \ {NoTick})
                          \cup (IF loop = "select" THEN {} ELSE {serving})
          /\ used' = [j \in Jobs |-> used[j] + One(j)]
          /\ IF sinceTick + 1 = Interval
             THEN Fire
             ELSE sinceTick' = sinceTick + 1 /\ UNCHANGED <<tick, missed>>
  /\ UNCHANGED <<setup, loop, serving, todo, current, ledger, checks, alerts, env,
                 spells, uncheckedFor>>

Fail == failures < MaxFailures /\ failures' = failures + 1

(*----------------------------- collection loop ----------------------------*)
StartCollection ==
  /\ loop = "select"
  /\ tick # NoTick
  /\ loop' = "listing" /\ serving' = tick /\ tick' = NoTick
  /\ UNCHANGED <<setup, now, sinceTick, todo, current, ledger, checks, alerts, env, history>>

(* collectActiveJobs.                                                      *)
CollectActiveJobs ==
  /\ loop = "listing"
  /\ todo' = {j \in Jobs : Active(j)}
  /\ loop' = IF todo' = {} THEN "select" ELSE "recording"
  /\ UNCHANGED <<setup, now, sinceTick, tick, serving, current, ledger, checks, alerts, env, history>>

CollectFails ==
  /\ loop = "listing"
  /\ Fail
  /\ loop' = "select"
  /\ LoseInterval
  /\ UNCHANGED <<setup, now, sinceTick, tick, serving, todo, current, ledger, checks,
                 alerts, phase, changes, crashes, used, spells, late, uncheckedFor>>

AfterRecord == IF todo = {} THEN "select" ELSE "recording"

(* Mutant: the record starts with the job, not with the interval.          *)
RecordUsageFromStart(j) ==
  /\ loop = "recording" /\ j \in todo
  /\ todo' = todo \ {j}
  /\ IF Computes(j)
     THEN /\ current' = <<j, [start |-> 0, end |-> now, tick |-> serving]>>
          /\ loop' = "saving"
     ELSE /\ loop' = IF todo' = {} THEN "select" ELSE "recording"
          /\ UNCHANGED current
  /\ UNCHANGED <<setup, now, sinceTick, tick, serving, ledger, checks, alerts, env, history>>

(* recordUsage, up to the call of SaveRecord: the interval before now.     *)
RecordUsage(j) ==
  /\ loop = "recording" /\ j \in todo
  /\ todo' = todo \ {j}
  /\ IF Computes(j)
     THEN /\ current' = <<j, [start |-> now - Interval, end |-> now, tick |-> serving]>>
          /\ loop' = "saving"
     ELSE /\ loop' = IF todo' = {} THEN "select" ELSE "recording"
          /\ UNCHANGED current
  /\ UNCHANGED <<setup, now, sinceTick, tick, serving, ledger, checks, alerts, env, history>>

Insert == ledger' = [ledger EXCEPT ![current[1]] = Append(@, current[2])]
NewCheck(j) ==
  [tenant |-> TenantOf(j), record |-> <<j, Len(ledger[j]) + 1>>, stage |-> "query", tries |-> 0]

SaveRecord ==
  /\ loop = "saving"
  /\ Insert
  /\ checks' = checks \cup {NewCheck(current[1])}
  /\ current' = NoRecord
  /\ loop' = AfterRecord
  /\ UNCHANGED <<setup, now, sinceTick, tick, serving, todo, alerts, env, history>>

(* Mutant: a failed record is saved again.                                 *)
SaveRetries ==
  /\ loop = "saving" /\ backend = "postgres"
  /\ Fail
  /\ \/ /\ Insert
        /\ uncheckedFor' = uncheckedFor \cup {TenantOf(current[1])}
     \/ UNCHANGED <<ledger, uncheckedFor>>
  /\ UNCHANGED <<setup, now, loopVars, checks, alerts, phase, changes, crashes, used,
                 spells, missed, late>>

(* ExecContext returns an error, before or after the row was inserted;     *)
(* Record returns it, recordUsage logs it, and nothing checks the quota.   *)
SaveFails ==
  /\ loop = "saving" /\ backend = "postgres"
  /\ Fail
  /\ \/ /\ Insert
        /\ uncheckedFor' = uncheckedFor \cup {TenantOf(current[1])}
        /\ UNCHANGED missed
     \/ /\ missed' = [missed EXCEPT ![current[1]] = @ + 1]
        /\ UNCHANGED <<ledger, uncheckedFor>>
  /\ current' = NoRecord
  /\ loop' = AfterRecord
  /\ UNCHANGED <<setup, now, sinceTick, tick, serving, todo, checks, alerts, phase,
                 changes, crashes, used, spells, late>>

(*------------------------------- checkQuota -------------------------------*)
checkOnly == <<setup, now, loopVars, ledger, phase, changes, crashes, used,
               spells, missed, late>>

(* One more failed attempt; the third is the last.                         *)
Retry(c) ==
  IF c.tries = 2
  THEN checks' = checks \ {c} /\ uncheckedFor' = uncheckedFor \cup {c.tenant}
  ELSE /\ checks' = (checks \ {c}) \cup {[c EXCEPT !.tries = @ + 1]}
       /\ UNCHANGED uncheckedFor

HookCall(c) == [tenant |-> c.tenant, record |-> c.record, stage |-> "hook", tries |-> 0]

(* Mutant: the alert waits until the limit is exceeded.                    *)
GetQuotaStatusLate(c) ==
  /\ c.stage = "query" /\ backend = "memory"
  /\ checks' = (checks \ {c}) \cup
       IF c.tenant \in DOMAIN SoftLimit /\ UsedGPUHours(c.tenant) > SoftLimit[c.tenant]
       THEN {HookCall(c)} ELSE {}
  /\ UNCHANGED <<checkOnly, alerts, failures, uncheckedFor>>

(* Only the in-memory store ever answers.  AlertFired is false in every    *)
(* status it returns.                                                      *)
GetQuotaStatus(c) ==
  /\ c.stage = "query" /\ backend = "memory"
  /\ checks' = (checks \ {c}) \cup
       IF NearLimit(c.tenant, UsedGPUHours(c.tenant))
       THEN {HookCall(c)} ELSE {}
  /\ UNCHANGED <<checkOnly, alerts, failures, uncheckedFor>>

(* "monthly" is the period of the policies and also the unit that the      *)
(* query gives to date_trunc, whose unit is "month": the database rejects  *)
(* every query.                                                            *)
GetQuotaStatusFails(c) ==
  /\ c.stage = "query" /\ backend = "postgres"
  /\ Retry(c)
  /\ UNCHANGED <<checkOnly, alerts, failures>>

(* Mutant: a call that succeeded is made again.                            *)
HookKeepsCalling(c) ==
  /\ c.stage = "hook"
  /\ alerts' = [alerts EXCEPT ![c.tenant] = @ + 1]
  /\ checks' = (checks \ {c}) \cup
       IF c.tries = 2 THEN {} ELSE {[c EXCEPT !.tries = @ + 1]}
  /\ UNCHANGED <<checkOnly, failures, uncheckedFor>>

(* invokeHookWithRetry for the one hook that is registered; it fails with  *)
(* an error or a panic.                                                    *)
HookSucceeds(c) ==
  /\ c.stage = "hook"
  /\ alerts' = [alerts EXCEPT ![c.tenant] = @ + 1]
  /\ checks' = checks \ {c}
  /\ UNCHANGED <<checkOnly, failures, uncheckedFor>>

HookFails(c) ==
  /\ c.stage = "hook"
  /\ Fail
  /\ Retry(c)
  /\ UNCHANGED <<checkOnly, alerts>>

(*---------------------------- crash and restart ---------------------------*)
(* Ticks that have fired and have not led to a record of j.                *)
TicksInHand(j) ==
  (IF tick = NoTick THEN 0 ELSE 1)
  + (IF loop = "listing" \/ j \in todo \/ (loop = "saving" /\ current[1] = j) THEN 1 ELSE 0)

(* The engine stops, with the insertion under way done or not; what the    *)
(* in-memory store held is gone, and the history begins anew with it.      *)
Crash ==
  /\ loop # "down" /\ crashes < MaxCrashes
  /\ crashes' = crashes + 1
  /\ loop' = "down"
  /\ sinceTick' = 0 /\ tick' = NoTick /\ serving' = NoTick
  /\ todo' = {} /\ current' = NoRecord /\ checks' = {}
  /\ IF backend = "memory"
     THEN /\ ledger' = [j \in Jobs |-> <<>>]
          /\ alerts' = [t \in Tenants |-> 0]
          /\ used' = [j \in Jobs |-> 0] /\ missed' = [j \in Jobs |-> 0]
          /\ spells' = [j \in Jobs |-> One(j)]
          /\ late' = {} /\ uncheckedFor' = {}
     ELSE /\ \/ loop = "saving" /\ Insert
             \/ UNCHANGED ledger
          /\ missed' = [j \in Jobs |-> missed[j] + TicksInHand(j)]
          /\ spells' = [j \in Jobs |-> spells[j] + One(j)]
          /\ uncheckedFor' = uncheckedFor \cup {c.tenant : c \in checks}
               \cup (IF loop = "saving" THEN {TenantOf(current[1])} ELSE {})
          /\ UNCHANGED <<alerts, used, late>>
  /\ UNCHANGED <<setup, now, phase, changes, failures>>

Start ==
  /\ loop = "down"
  /\ loop' = "select"
  /\ UNCHANGED <<setup, now, sinceTick, tick, serving, todo, current, ledger, checks,
                 alerts, env, history>>

CheckStep(c) ==
  \/ GetQuotaStatus(c) \/ GetQuotaStatusFails(c) \/ HookSucceeds(c) \/ HookFails(c)

Next ==
  \/ \E j \in Jobs : ChangePhase(j) \/ RecordUsage(j)
  \/ Advance
  \/ StartCollection \/ CollectActiveJobs \/ CollectFails
  \/ SaveRecord \/ SaveFails
  \/ \E c \in checks : CheckStep(c)
  \/ Crash \/ Start

(* The goroutines of the quota checks run: each call has an answer or an   *)
(* error, and each back-off ends.                                          *)
Spec == Init /\ [][Next]_vars /\ WF_vars(\E c \in checks : CheckStep(c))

(*------------------------------- properties -------------------------------*)
(* Billed time is the time the job was active while the engine ran, to     *)
(* within one interval for each time it became active or the engine was    *)
(* restarted (a record always spans a whole interval) and one for each     *)
(* tick served late; and a failed call, a crash or a dropped tick loses    *)
(* one interval, never more, which nothing makes up for (main.go:286).     *)
BillingTracksUse ==
  \A j \in Jobs : Computes(j) =>
    /\ Billed(j) <= used[j] + Interval * (spells[j] + Cardinality(late))
    /\ loop = "select" /\ tick = NoTick =>
         used[j] <= Billed(j) + Interval * (spells[j] + missed[j] + Cardinality(late))

(* No job is billed twice for one tick, whatever replies were lost, and    *)
(* the intervals of two records overlap at most by the time the first was  *)
(* late (recordUsage dates the record when it writes it).                  *)
NoDoubleBilling ==
  \A j \in Jobs : \A i, k \in DOMAIN ledger[j] :
    LET first == ledger[j][i]
        second == ledger[j][k]
    IN i < k => /\ first.tick < second.tick
                /\ first.end - second.start <= first.end - first.tick

(* A tenant is alerted only when its records have reached 80 percent of    *)
(* its soft limit, and at most once per record: the alert repeats while    *)
(* the tenant stays there (AlertFired is never set), never for one record. *)
Records(t) == UNION {{j} \X DOMAIN ledger[j] : j \in {k \in Jobs : TenantOf(k) = t}}
AlertsJustified ==
  \A t \in Tenants : alerts[t] > 0 =>
    /\ NearLimit(t, UsedGPUHours(t))
    /\ alerts[t] <= Cardinality(Records(t))

(* With the in-memory store and a policy set by SetQuota, a tenant whose   *)
(* jobs have used 80 percent of its soft limit is alerted, unless a hook   *)
(* failed three times for it or a crash lost the records: the hook calls   *)
(* are retried, and a check that read the ledger too early is followed by  *)
(* that of the record it missed.  (The engine's binary calls no SetQuota.) *)
RecordedUse(t) == GPUHours({j \in Jobs : TenantOf(j) = t})
MustAlert(t) == backend = "memory" /\ NearLimit(t, RecordedUse(t))

AlertEventually ==
  \A t \in Tenants : MustAlert(t) ~> (alerts[t] > 0 \/ t \in uncheckedFor \/ ~MustAlert(t))

(* checkQuota "evaluates usage against the tenant's quota policy and fires *)
(* alerts" (engine.go:178), whichever store the engine was given: when no  *)
(* call fails and the engine does not crash, a tenant over 80 percent is   *)
(* alerted.  Violated: the database rejects each of the three queries.     *)
Undisturbed == failures = 0 /\ crashes = 0
AlertDue(t) == Undisturbed /\ NearLimit(t, RecordedUse(t))
QuotaAlerts == \A t \in Tenants : AlertDue(t) ~> (alerts[t] > 0 \/ ~AlertDue(t))
=============================================================================
