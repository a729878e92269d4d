---------------------------- MODULE CircuitBreaker ----------------------------
(***************************************************************************)
(* pkg/checkpoint/circuit_breaker.go: the breaker a ProtectedCheckpointer  *)
(* puts around Dump, PreDump and Restore.  A call is Allow, the inner call *)
(* and RecordSuccess or RecordFailure; the breaker's mutex is held inside  *)
(* Allow and inside Record*, not across the inner call, so calls overlap.  *)
(* lastFailTime is kept as its age, which stops at OpenDuration, and the   *)
(* failure counter stops at MaxFailures, because the code only compares    *)
(* them with these.                                                        *)
(***************************************************************************)
EXTENDS Naturals

CONSTANTS
  Callers,
  MaxFailures,    \* config.MaxFailures
  OpenDuration,   \* config.OpenDuration in time units
  MaxOutages      \* bound: changes of the health of CRIU

ASSUME BreakerAssumption ==
  /\ MaxFailures \in Nat \ {0}
  /\ OpenDuration \in Nat \ {0}
  /\ MaxOutages \in Nat

VARIABLES
  state, failures, age,   \* the breaker
  calls,                  \* callers whose inner call is running
  healthy,                \* inner calls that end now succeed
  outages

breakerVars == <<state, failures, age, calls, healthy, outages>>

BreakerTypeOK ==
  /\ state \in {"Closed", "Open", "HalfOpen"}
  /\ failures \in 0 .. MaxFailures
  /\ age \in 0 .. OpenDuration
  /\ calls \subseteq Callers
  /\ healthy \in BOOLEAN
  /\ outages \in 0 .. MaxOutages

(* lastFailTime is the zero time: long ago.                                *)
BreakerInit ==
  /\ state = "Closed"
  /\ failures = 0
  /\ age = OpenDuration
  /\ calls = {}
  /\ healthy = TRUE
  /\ outages = 0

(* Mutants: the breaker does not wait for OpenDuration; it never ends Open.*)
CurrentStateAtOnce == IF state = "Open" THEN "HalfOpen" ELSE state
CurrentStateStuck == state

(* currentState: what the state is, and becomes, when it is looked at.     *)
CurrentState == IF state = "Open" /\ age >= OpenDuration THEN "HalfOpen" ELSE state

--------------------------------------------------------------------------------
(* Allow lets the call through; the inner call starts.                     *)
Admit(c) ==
  /\ c \notin calls
  /\ CurrentState # "Open"
  /\ state' = CurrentState
  /\ calls' = calls \cup {c}
  /\ UNCHANGED <<failures, age, healthy, outages>>

(* State() and BreakerState() also make the open breaker half-open.  (A    *)
(* rejected call changes nothing.)                                         *)
LookAt ==
  /\ state' = CurrentState
  /\ UNCHANGED <<failures, age, calls, healthy, outages>>

(* Mutant: a success does not reset the count.                             *)
RecordSuccessNoReset(c) ==
  /\ c \in calls
  /\ healthy
  /\ state' = "Closed"
  /\ calls' = calls \ {c}
  /\ UNCHANGED <<failures, age, healthy, outages>>

RecordSuccess(c) ==
  /\ c \in calls
  /\ healthy
  /\ failures' = 0
  /\ state' = "Closed"
  /\ calls' = calls \ {c}
  /\ UNCHANGED <<age, healthy, outages>>

(* "healthy" stands for whatever makes the inner call succeed: the checks  *)
(* before criu starts, criu itself, and a caller that does not cancel.     *)
RecordFailure(c) ==
  /\ c \in calls
  /\ ~healthy
  /\ failures' = IF failures < MaxFailures THEN failures + 1 ELSE failures
  /\ age' = 0
  /\ state' = IF failures' >= MaxFailures THEN "Open" ELSE state
  /\ calls' = calls \ {c}
  /\ UNCHANGED <<healthy, outages>>

BreakerTick ==
  /\ age < OpenDuration
  /\ age' = age + 1
  /\ UNCHANGED <<state, failures, calls, healthy, outages>>

(* What the inner calls depend on breaks or recovers.                      *)
HealthChanges ==
  /\ outages < MaxOutages
  /\ outages' = outages + 1
  /\ healthy' = ~healthy
  /\ UNCHANGED <<state, failures, age, calls>>

Ends(c) == RecordSuccess(c) \/ RecordFailure(c)

BreakerNext ==
  \/ \E c \in Callers : Admit(c) \/ RecordSuccess(c) \/ RecordFailure(c)
  \/ LookAt
  \/ BreakerTick
  \/ HealthChanges

BreakerSpec == BreakerInit /\ [][BreakerNext]_breakerVars

(* Time passes, a call that was started ends (criu runs under a timeout),  *)
(* and a caller that is let through at times keeps calling.                *)
BreakerFairness ==
  /\ WF_breakerVars(BreakerTick)
  /\ \A c \in Callers : WF_breakerVars(Ends(c)) /\ SF_breakerVars(Admit(c))

FairBreakerSpec == BreakerSpec /\ BreakerFairness

--------------------------------------------------------------------------------
(* The state and the counter agree in every interleaving of late results:  *)
(* the breaker is closed exactly while fewer than MaxFailures failures     *)
(* were recorded since the last success.                                   *)
StateMatchesFailures == state = "Closed" <=> failures < MaxFailures

(* No operation is let through within OpenDuration of the last recorded    *)
(* failure once MaxFailures of them were recorded in a row, whichever      *)
(* calls were under way when the breaker opened.                           *)
NoCallWhileSuspended ==
  [][\A c \in Callers : c \in calls' \ calls =>
       failures < MaxFailures \/ age >= OpenDuration]_breakerVars

(* When CRIU is healthy for good the breaker closes for good: no late      *)
(* result or lost probe keeps it open.                                     *)
RecoversWhenHealthy == (<>[]healthy) => <>[](state = "Closed")
================================================================================
