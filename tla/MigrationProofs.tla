--------------------------- MODULE MigrationProofs ---------------------------
(***************************************************************************)
(* Proofs about the migration handler, for every set of requests and       *)
(* targets.                                                                *)
(*                                                                         *)
(* While requests follow one another, one request at most holds the job:   *)
(* its Execute or a command of it is under way, or its restore took        *)
(* effect.  Only that request can spoil the images, so its dump, transfer  *)
(* and restore are each of what the one before left.  (MigrationInv, with  *)
(* an executor that migrates.)  With the no-op executor no command ever    *)
(* begins and the job stays where it is (NoopInv).                         *)
(***************************************************************************)
EXTENDS Migration, FiniteSetTheorems, TLAPS

Restored(r) == cmd[r]["restore"] = "ok"
Resumed(r) == cmd[r]["unfreeze"] = "ok"
Holds(r) ==
  \/ stage[r] \in Stages
  \/ \E s \in Stages : cmd[r][s] = "begun"
  \/ Restored(r)

(* The commands of a request begin in the order of the stages.             *)
InOrder(r) ==
  /\ stage[r] \in {"none", "pre-dump"} => cmd[r]["dump"] = "none"
  /\ stage[r] \in {"none", "pre-dump", "dump"} => cmd[r]["transfer"] = "none"
  /\ stage[r] \in {"none", "pre-dump", "dump", "transfer"} => cmd[r]["restore"] = "none"
  /\ stage[r] \notin {"unfreeze", "failed", "lost"} => cmd[r]["unfreeze"] = "none"
  /\ stage[r] = "none" => cmd[r]["pre-dump"] = "none"
  /\ stage[r] \in {"dump", "transfer", "restore", "unfreeze", "done"} => cmd[r]["pre-dump"] = "ok"
  /\ stage[r] \in {"transfer", "restore", "unfreeze", "done"} => cmd[r]["dump"] = "ok"
  /\ stage[r] \in {"restore", "unfreeze", "done"} => cmd[r]["transfer"] = "ok"
  /\ stage[r] = "done" => Restored(r)
  /\ cmd[r]["dump"] # "none" => cmd[r]["pre-dump"] = "ok"
  /\ cmd[r]["transfer"] # "none" => cmd[r]["dump"] = "ok"
  /\ cmd[r]["restore"] # "none" => cmd[r]["transfer"] = "ok"
  /\ cmd[r]["unfreeze"] # "none" => cmd[r]["transfer"] = "ok"
CommandsInOrder == \A r \in Requests : InOrder(r)

OneHolder == ~disturbed => \A r, q \in Requests : Holds(r) /\ Holds(q) => r = q

(* Every copy was restored by a request, which found the node empty.       *)
CopiesRestored ==
  /\ \A n \in Targets : proc[n] # "none" => \E r \in Requests : Restored(r) /\ target[r] = n
  /\ \A r \in Requests : Restored(r) => proc[target[r]] # "none"
  /\ proc[Source] \in {"running", "stopped"}

(* What the commands of the holder have left for its next command.         *)
Carried(r) ==
  ~Resumed(r) =>
    /\ cmd[r]["dump"] = "ok" => proc[Source] = "stopped"
    /\ cmd[r]["dump"] = "ok" /\ ~Restored(r) => image[Source] = "fresh"
    /\ cmd[r]["transfer"] = "ok" /\ ~Restored(r) => image[target[r]] = "fresh"
    /\ Restored(r) => proc[target[r]] = "running"
HolderCarried == ~disturbed => \A r \in Requests : Holds(r) => Carried(r)

(* The source is resumed only after a restore that cannot take effect.     *)
ResumedAfterFailure ==
  ~misreported =>
    \A r \in Requests : cmd[r]["restore"] \in {"begun", "ok"} =>
      stage[r] # "unfreeze" /\ cmd[r]["unfreeze"] = "none"

MigrationInv ==
  /\ executor = "real"
  /\ TypeOK
  /\ CommandsInOrder
  /\ OneHolder
  /\ CopiesRestored
  /\ HolderCarried
  /\ ResumedAfterFailure
  /\ StatusTracksMigration

NoopInv ==
  /\ executor = "noop"
  /\ TypeOK
  /\ \A r \in Requests : \A s \in Stages : cmd[r][s] = "none"
  /\ proc = [n \in Nodes |-> IF n = Source THEN "running" ELSE "none"]
  /\ ~disturbed => \A r, q \in Active : r = q
  /\ StatusTracksMigration

Inv == MigrationInv \/ NoopInv

LEMMA FollowingStage ==
  /\ Following("pre-dump") = "dump"
  /\ Following("dump") = "transfer"
  /\ Following("transfer") = "restore"
  /\ Following("restore") = "done"
  BY Zenon DEF Following

LEMMA TargetIsOther ==
  ASSUME TypeOK, NEW r \in Requests
  PROVE  /\ Source \in Nodes
         /\ target[r] \in Targets /\ target[r] \in Nodes
         /\ target[r] # Source
<1>1. target[r] \in Targets
  BY DEF TypeOK
<1> QED
  BY <1>1, MigrationAssumption DEF Nodes

LEMMA InitInv == Init => Inv
<1> SUFFICES ASSUME Init PROVE Inv
  OBVIOUS
<1> USE MigrationAssumption
<1>1. TypeOK
  BY DEF Init, TypeOK, Nodes, Stages
<1>2. \A r \in Requests : stage[r] = "none" /\ \A s \in Stages : cmd[r][s] = "none"
  BY DEF Init
<1>3. \A r \in Requests : ~Holds(r)
  BY <1>2 DEF Holds, Restored, Stages
<1>4. CommandsInOrder
  BY <1>2 DEF CommandsInOrder, InOrder, Stages
<1>5. OneHolder /\ HolderCarried
  BY <1>3 DEF OneHolder, HolderCarried
<1>6. CopiesRestored
  BY <1>2 DEF Init, CopiesRestored, Restored, Nodes, Stages
<1>7. ResumedAfterFailure
  BY <1>2 DEF ResumedAfterFailure, Stages
<1>8. StatusTracksMigration
  BY <1>2 DEF Init, StatusTracksMigration, Active, Stages
<1>9. CASE executor = "real"
  BY <1>1, <1>4, <1>5, <1>6, <1>7, <1>8, <1>9 DEF MigrationInv, Inv
<1>10. CASE executor = "noop"
  BY <1>1, <1>2, <1>8, <1>10 DEF Init, NoopInv, Inv, Active, Stages
<1> QED
  BY <1>9, <1>10 DEF Init

(* A step of the server that starts no Execute leaves the copies and the   *)
(* images as they are, and the holder is the same or gone.                 *)
LEMMA ServerStep ==
  ASSUME MigrationInv, UNCHANGED <<executor, target, cmd, proc, image, disturbed>>,
         \A r \in Requests : stage'[r] \in Stages => stage[r] \in Stages
  PROVE  OneHolder' /\ CopiesRestored' /\ HolderCarried'
<1>1. \A r \in Requests : Holds(r)' => Holds(r)
  BY DEF Holds, Restored
<1>2. OneHolder'
  BY <1>1 DEF MigrationInv, OneHolder
<1>3. CopiesRestored'
  BY DEF MigrationInv, CopiesRestored, Restored
<1>4. \A r \in Requests : Carried(r) => Carried(r)'
  BY DEF Carried, Restored, Resumed
<1>5. HolderCarried'
  BY <1>1, <1>4 DEF MigrationInv, HolderCarried
<1> QED
  BY <1>2, <1>3, <1>5

(* A request that executes is the only one while nothing is disturbed.     *)
LEMMA ActiveIsHolder ==
  ASSUME MigrationInv, ~disturbed, NEW r \in Requests, stage[r] \in Stages
  PROVE  Active = {r}
  BY DEF MigrationInv, OneHolder, Holds, Active

LEMMA TriggerStep ==
  ASSUME MigrationInv, NEW r \in Requests, TriggerMigration(r)
  PROVE  MigrationInv'
<1> USE DEF MigrationInv
<1>1. TypeOK'
  BY DEF TypeOK, TriggerMigration, Stages
<1>2. /\ stage[r] = "none" /\ stage'[r] = "pre-dump"
      /\ \A q \in Requests : q # r => stage'[q] = stage[q]
      /\ UNCHANGED <<executor, target, cmd, proc, image, misreported>>
  BY DEF TypeOK, TriggerMigration, Stages
<1>3. CommandsInOrder'
  <2> SUFFICES ASSUME NEW q \in Requests PROVE InOrder(q)'
    BY DEF CommandsInOrder
  <2>1. InOrder(q)
    BY DEF CommandsInOrder
  <2> QED
    BY <1>2, <2>1 DEF InOrder, Restored
<1>4. CopiesRestored'
  BY <1>2 DEF CopiesRestored, Restored
<1>5. ResumedAfterFailure'
  BY <1>2 DEF ResumedAfterFailure
<1>6. ~disturbed' => /\ ~disturbed
                     /\ \A q \in Requests : ~Holds(q)
                     /\ Active = {}
  <2> SUFFICES ASSUME ~disturbed'
               PROVE  ~disturbed /\ (\A q \in Requests : ~Holds(q)) /\ Active = {}
    OBVIOUS
  <2>1. ~disturbed /\ Active = {} /\ Under = {} /\ \A n \in Targets : proc[n] = "none"
    BY DEF TypeOK, TriggerMigration
  <2>2. \A q \in Requests : \A s \in Stages : cmd[q][s] # "begun"
    BY <2>1 DEF Under, Begun
  <2>3. ASSUME NEW q \in Requests PROVE ~Restored(q)
    <3>1. target[q] \in Targets
      BY DEF TypeOK
    <3> QED
      BY <2>1, <3>1 DEF CopiesRestored
  <2> QED
    BY <2>1, <2>2, <2>3 DEF Holds, Active
<1>7. OneHolder'
  BY <1>2, <1>6 DEF OneHolder, Holds, Restored
<1>8. HolderCarried'
  <2> SUFFICES ASSUME ~disturbed', NEW q \in Requests, Holds(q)' PROVE Carried(q)'
    BY DEF HolderCarried
  <2>1. q = r
    BY <1>2, <1>6 DEF Holds, Restored
  <2>2. InOrder(r)
    BY DEF CommandsInOrder
  <2> QED
    BY <1>2, <2>1, <2>2 DEF Carried, InOrder, Restored
<1>9. StatusTracksMigration'
  BY <1>2 DEF StatusTracksMigration, TriggerMigration, Active, Stages
<1> QED
  BY <1>1, <1>2, <1>3, <1>4, <1>5, <1>7, <1>8, <1>9

LEMMA BeginStep ==
  ASSUME MigrationInv, NEW r \in Requests, Begin(r)
  PROVE  MigrationInv'
<1> USE DEF MigrationInv
<1> DEFINE s == stage[r]
<1>1. /\ s \in Stages
      /\ cmd[r][s] = "none" /\ cmd'[r][s] = "begun"
      /\ \A u \in Stages : u # s => cmd'[r][u] = cmd[r][u]
      /\ \A q \in Requests : q # r => cmd'[q] = cmd[q]
      /\ UNCHANGED <<executor, stage, target, status, proc, disturbed, misreported>>
  BY DEF TypeOK, Begin
<1>2. /\ image' \in [Nodes -> {"none", "torn", "fresh", "stale"}]
      /\ \A n \in Nodes \ Overwrites(r, s) : image'[n] = image[n]
  BY DEF TypeOK, Begin
<1>3. TypeOK'
  BY <1>2 DEF TypeOK, Begin
<1>4. CommandsInOrder'
  <2> SUFFICES ASSUME NEW q \in Requests PROVE InOrder(q)'
    BY DEF CommandsInOrder
  <2>1. InOrder(q)
    BY DEF CommandsInOrder
  <2>2. CASE q # r
    BY <1>1, <2>1, <2>2 DEF InOrder, Restored
  <2>3. CASE q = r
    BY <1>1, <2>1, <2>3 DEF InOrder, Restored, Stages
  <2> QED
    BY <2>2, <2>3
<1>5. \A q \in Requests : Restored(q)' <=> Restored(q)
  BY <1>1 DEF Restored, Stages
<1>6. \A q \in Requests : Holds(q)' => Holds(q)
  <2> SUFFICES ASSUME NEW q \in Requests, Holds(q)' PROVE Holds(q)
    OBVIOUS
  <2>1. CASE q = r
    BY <1>1, <2>1 DEF Holds
  <2>2. CASE q # r
    BY <1>1, <1>5, <2>2 DEF Holds
  <2> QED
    BY <2>1, <2>2
<1>7. OneHolder'
  BY <1>1, <1>6 DEF OneHolder
<1>8. CopiesRestored'
  BY <1>1, <1>5 DEF CopiesRestored
<1>9. HolderCarried'
  <2> SUFFICES ASSUME ~disturbed', NEW q \in Requests, Holds(q)' PROVE Carried(q)'
    BY DEF HolderCarried
  <2>1. Holds(r) /\ Holds(q) /\ ~disturbed
    BY <1>1, <1>6 DEF Holds
  <2>2. q = r /\ Carried(r) /\ InOrder(r) /\ InOrder(r)'
    BY <2>1, <1>4 DEF OneHolder, HolderCarried, CommandsInOrder
  <2>3. /\ cmd'[r]["dump"] = "ok" => cmd[r]["dump"] = "ok" /\ s \notin {"pre-dump", "dump"}
        /\ cmd'[r]["transfer"] = "ok" => cmd[r]["transfer"] = "ok" /\ s # "transfer"
        /\ cmd'[r]["unfreeze"] # "ok" => cmd[r]["unfreeze"] # "ok"
    BY <1>1, <2>2 DEF InOrder, Stages
  <2>4. Source \in Nodes /\ target[r] \in Nodes /\ target[r] # Source
    BY TargetIsOther
  <2>5. /\ cmd'[r]["dump"] = "ok" => image'[Source] = image[Source]
        /\ cmd'[r]["transfer"] = "ok" => image'[target[r]] = image[target[r]]
    <3>1. cmd'[r]["dump"] = "ok" => Source \notin Overwrites(r, s)
      BY <2>3, <2>4 DEF Overwrites
    <3>2. cmd'[r]["transfer"] = "ok" => target[r] \notin Overwrites(r, s)
      BY <2>3, <2>4 DEF Overwrites
    <3> QED
      BY <1>2, <2>4, <3>1, <3>2
  <2> QED
    BY <1>1, <1>5, <2>2, <2>3, <2>5 DEF Carried, Resumed
<1>10. ResumedAfterFailure'
  <2> SUFFICES ASSUME ~misreported', NEW q \in Requests, cmd'[q]["restore"] \in {"begun", "ok"}
               PROVE  stage'[q] # "unfreeze" /\ cmd'[q]["unfreeze"] = "none"
    BY DEF ResumedAfterFailure
  <2>1. CASE q # r
    BY <1>1, <2>1 DEF ResumedAfterFailure
  <2>2. CASE q = r
    BY <1>1, <2>2 DEF ResumedAfterFailure, CommandsInOrder, InOrder, Stages
  <2> QED
    BY <2>1, <2>2
<1>11. StatusTracksMigration'
  BY <1>1 DEF StatusTracksMigration, Active
<1> QED
  BY <1>1, <1>3, <1>4, <1>7, <1>8, <1>9, <1>10, <1>11

(* What a step of Execute of r to another stage leaves to show.            *)
LEMMA ProceedStep ==
  ASSUME MigrationInv, NEW r \in Requests, stage[r] \in Stages,
         NEW t \in {"dump", "transfer", "restore", "unfreeze", "done", "failed"},
         Proceed(r, t), UNCHANGED <<executor, target, cmd, proc, image, disturbed>>,
         misreported' \in BOOLEAN, InOrder(r)', ResumedAfterFailure'
  PROVE  MigrationInv'
<1> USE DEF MigrationInv
<1>1. /\ stage'[r] = t
      /\ \A q \in Requests : q # r => stage'[q] = stage[q]
  BY DEF TypeOK, Proceed
<1>2. TypeOK'
  BY DEF TypeOK, Proceed, Stages
<1>3. CommandsInOrder'
  <2> SUFFICES ASSUME NEW q \in Requests, q # r PROVE InOrder(q)'
    BY DEF CommandsInOrder
  <2> QED
    BY <1>1 DEF CommandsInOrder, InOrder, Restored
<1>4. OneHolder' /\ CopiesRestored' /\ HolderCarried'
  BY <1>1, ServerStep
<1>5. StatusTracksMigration'
  <2> SUFFICES ASSUME ~disturbed' PROVE status' = "running" <=> Active' # {}
    BY DEF StatusTracksMigration
  <2>1. Active = {r} /\ status = "running"
    BY ActiveIsHolder DEF StatusTracksMigration
  <2>2. Active' = IF t \in Stages THEN {r} ELSE {}
    BY <1>1, <2>1 DEF Active
  <2> QED
    BY <2>1, <2>2 DEF Proceed, Stages
<1> QED
  BY <1>2, <1>3, <1>4, <1>5

LEMMA StageSucceedsStep ==
  ASSUME MigrationInv, NEW r \in Requests, StageSucceeds(r)
  PROVE  MigrationInv'
<1> USE DEF MigrationInv
<1>1. /\ stage[r] \in {"pre-dump", "dump", "transfer", "restore"}
      /\ cmd[r][stage[r]] = "ok"
      /\ Proceed(r, Following(stage[r]))
      /\ UNCHANGED <<executor, target, cmd, proc, image, disturbed, misreported>>
  BY DEF StageSucceeds, Stages
<1>2. /\ Following(stage[r]) \in {"dump", "transfer", "restore", "done"}
      /\ Following(stage[r]) = "done" => stage[r] = "restore"
  BY <1>1, FollowingStage
<1>3. InOrder(r)'
  <2>1. InOrder(r)
    BY DEF CommandsInOrder
  <2>2. stage'[r] = Following(stage[r])
    BY <1>1 DEF TypeOK, Proceed
  <2>3. CASE stage[r] = "pre-dump"
    BY <1>1, <2>1, <2>2, <2>3, FollowingStage DEF InOrder, Restored
  <2>4. CASE stage[r] = "dump"
    BY <1>1, <2>1, <2>2, <2>4, FollowingStage DEF InOrder, Restored
  <2>5. CASE stage[r] = "transfer"
    BY <1>1, <2>1, <2>2, <2>5, FollowingStage DEF InOrder, Restored
  <2>6. CASE stage[r] = "restore"
    BY <1>1, <2>1, <2>2, <2>6, FollowingStage DEF InOrder, Restored
  <2> QED
    BY <1>1, <2>3, <2>4, <2>5, <2>6
<1>4. ResumedAfterFailure'
  <2>1. \A q \in Requests : stage'[q] = "unfreeze" => stage[q] = "unfreeze"
    BY <1>1, <1>2 DEF TypeOK, Proceed
  <2> QED
    BY <1>1, <2>1 DEF ResumedAfterFailure
<1>5. stage[r] \in Stages /\ misreported' \in BOOLEAN
  BY <1>1 DEF Stages, TypeOK
<1> QED
  BY <1>1, <1>2, <1>3, <1>4, <1>5, ProceedStep

LEMMA StageFailsStep ==
  ASSUME MigrationInv, NEW r \in Requests, StageFails(r)
  PROVE  MigrationInv'
<1> USE DEF MigrationInv
<1> DEFINE t == IF stage[r] = "restore" THEN "unfreeze" ELSE "failed"
<1>1. /\ stage[r] \in {"pre-dump", "dump", "transfer", "restore"}
      /\ Proceed(r, t)
      /\ UNCHANGED <<executor, target, cmd, proc, image, disturbed>>
  BY DEF StageFails, Stages
<1>2. /\ stage'[r] = t
      /\ \A q \in Requests : q # r => stage'[q] = stage[q]
  BY <1>1 DEF TypeOK, Proceed
<1>3. InOrder(r)'
  <2>1. InOrder(r)
    BY DEF CommandsInOrder
  <2> QED
    BY <1>1, <1>2, <2>1 DEF InOrder, Restored
<1>4. /\ misreported' \in BOOLEAN
      /\ misreported => misreported'
      /\ stage[r] = "restore" /\ cmd[r]["restore"] \in {"begun", "ok"} => misreported'
  BY DEF StageFails, TypeOK
<1>5. ResumedAfterFailure'
  <2> SUFFICES ASSUME ~misreported', NEW q \in Requests, cmd'[q]["restore"] \in {"begun", "ok"}
               PROVE  stage'[q] # "unfreeze" /\ cmd'[q]["unfreeze"] = "none"
    BY DEF ResumedAfterFailure
  <2>1. stage[q] # "unfreeze" /\ cmd[q]["unfreeze"] = "none"
    BY <1>1, <1>4 DEF ResumedAfterFailure
  <2> QED
    BY <1>1, <1>2, <1>4, <2>1
<1>6. stage[r] \in Stages
  BY <1>1 DEF Stages
<1> QED
  BY <1>1, <1>3, <1>4, <1>5, <1>6, ProceedStep

LEMMA UnfreezeReturnsStep ==
  ASSUME MigrationInv, NEW r \in Requests, UnfreezeReturns(r)
  PROVE  MigrationInv'
<1> USE DEF MigrationInv
<1>1. /\ stage[r] = "unfreeze" /\ Proceed(r, "failed")
      /\ UNCHANGED <<executor, target, cmd, proc, image, disturbed, misreported>>
  BY DEF UnfreezeReturns
<1>2. /\ stage'[r] = "failed"
      /\ \A q \in Requests : q # r => stage'[q] = stage[q]
  BY <1>1 DEF TypeOK, Proceed
<1>3. InOrder(r)'
  <2>1. InOrder(r)
    BY DEF CommandsInOrder
  <2> QED
    BY <1>1, <1>2, <2>1 DEF InOrder, Restored
<1>4. ResumedAfterFailure'
  BY <1>1, <1>2 DEF ResumedAfterFailure
<1>5. stage[r] \in Stages /\ misreported' \in BOOLEAN
  BY <1>1 DEF Stages, TypeOK
<1> QED
  BY <1>1, <1>3, <1>4, <1>5, ProceedStep

LEMMA ServerStopsStep ==
  ASSUME MigrationInv, ServerStops
  PROVE  MigrationInv'
<1> USE DEF MigrationInv
<1>1. /\ \A q \in Requests : stage'[q] = IF stage[q] \in Stages THEN "lost" ELSE stage[q]
      /\ UNCHANGED <<executor, target, cmd, proc, image, disturbed, misreported>>
      /\ status' = ""
  BY DEF ServerStops, Active
<1>2. \A q \in Requests : stage'[q] \notin Stages
  BY <1>1 DEF Stages
<1>3. TypeOK'
  BY <1>1 DEF TypeOK, ServerStops, Stages
<1>4. CommandsInOrder'
  <2> SUFFICES ASSUME NEW q \in Requests PROVE InOrder(q)'
    BY DEF CommandsInOrder
  <2>1. InOrder(q)
    BY DEF CommandsInOrder
  <2> QED
    BY <1>1, <2>1 DEF InOrder, Restored, Stages
<1>5. OneHolder' /\ CopiesRestored' /\ HolderCarried'
  BY <1>1, <1>2, ServerStep
<1>6. ResumedAfterFailure'
  BY <1>1 DEF ResumedAfterFailure
<1>7. StatusTracksMigration'
  BY <1>1, <1>2 DEF StatusTracksMigration, Active
<1> QED
  BY <1>1, <1>3, <1>4, <1>5, <1>6, <1>7

(* The end of a command, seen from the requests.                           *)
LEMMA EndsFacts ==
  ASSUME MigrationInv, NEW r \in Requests, NEW s \in Stages, NEW how \in {"ok", "bad"},
         Ends(r, s, how)
  PROVE  /\ cmd[r][s] = "begun" /\ cmd'[r][s] = how
         /\ \A u \in Stages : u # s => cmd'[r][u] = cmd[r][u]
         /\ \A q \in Requests : q # r => cmd'[q] = cmd[q]
         /\ cmd' \in [Requests -> [Stages -> {"none", "begun", "ok", "bad"}]]
         /\ UNCHANGED <<executor, stage, target, status, disturbed, misreported>>
         /\ Holds(r) /\ InOrder(r)
         /\ ~disturbed => Carried(r)
<1>1. /\ cmd[r][s] = "begun"
      /\ UNCHANGED <<executor, stage, target, status, disturbed, misreported>>
  BY DEF Ends, Begun
<1>2. /\ cmd'[r][s] = how
      /\ \A u \in Stages : u # s => cmd'[r][u] = cmd[r][u]
      /\ \A q \in Requests : q # r => cmd'[q] = cmd[q]
      /\ cmd' \in [Requests -> [Stages -> {"none", "begun", "ok", "bad"}]]
  BY DEF MigrationInv, TypeOK, Ends
<1>3. Holds(r) /\ InOrder(r)
  BY <1>1 DEF MigrationInv, CommandsInOrder, Holds
<1> QED
  BY <1>1, <1>2, <1>3 DEF MigrationInv, HolderCarried

LEMMA EndsStep ==
  ASSUME MigrationInv, NEW r \in Requests, NEW s \in Stages, NEW how \in {"ok", "bad"},
         Ends(r, s, how),
         proc' \in [Nodes -> {"none", "running", "stopped", "behind"}],
         image' \in [Nodes -> {"none", "torn", "fresh", "stale"}],
         CopiesRestored',
         ~disturbed => Carried(r)'
  PROVE  MigrationInv'
<1> USE DEF MigrationInv
<1>1. /\ cmd[r][s] = "begun" /\ cmd'[r][s] = how
      /\ \A u \in Stages : u # s => cmd'[r][u] = cmd[r][u]
      /\ \A q \in Requests : q # r => cmd'[q] = cmd[q]
      /\ cmd' \in [Requests -> [Stages -> {"none", "begun", "ok", "bad"}]]
      /\ UNCHANGED <<executor, stage, target, status, disturbed, misreported>>
  BY EndsFacts
<1>2. TypeOK'
  BY <1>1 DEF TypeOK
<1>3. CommandsInOrder'
  <2> SUFFICES ASSUME NEW q \in Requests PROVE InOrder(q)'
    BY DEF CommandsInOrder
  <2>1. InOrder(q)
    BY DEF CommandsInOrder
  <2>2. CASE q # r
    BY <1>1, <2>1, <2>2 DEF InOrder, Restored
  <2>3. CASE q = r
    BY <1>1, <2>1, <2>3 DEF InOrder, Restored, Stages
  <2> QED
    BY <2>2, <2>3
<1>4. \A q \in Requests : Holds(q)' => Holds(q)
  <2> SUFFICES ASSUME NEW q \in Requests, Holds(q)' PROVE Holds(q)
    OBVIOUS
  <2>1. CASE q = r
    BY <1>1, <2>1 DEF Holds
  <2>2. CASE q # r
    BY <1>1, <2>2 DEF Holds, Restored
  <2> QED
    BY <2>1, <2>2
<1>5. OneHolder'
  BY <1>1, <1>4 DEF OneHolder
<1>6. HolderCarried'
  <2> SUFFICES ASSUME ~disturbed', NEW q \in Requests, Holds(q)' PROVE Carried(q)'
    BY DEF HolderCarried
  <2>1. q = r
    BY <1>1, <1>4 DEF OneHolder, Holds
  <2> QED
    BY <1>1, <2>1
<1>7. ResumedAfterFailure'
  <2> SUFFICES ASSUME ~misreported', NEW q \in Requests, cmd'[q]["restore"] \in {"begun", "ok"}
               PROVE  stage'[q] # "unfreeze" /\ cmd'[q]["unfreeze"] = "none"
    BY DEF ResumedAfterFailure
  <2>1. CASE q # r
    BY <1>1, <2>1 DEF ResumedAfterFailure
  <2>2. CASE q = r
    <3>1. cmd[r]["restore"] \in {"begun", "ok"}
      BY <1>1, <2>2 DEF Stages
    <3> QED
      BY <1>1, <2>2, <3>1 DEF ResumedAfterFailure, Stages
  <2> QED
    BY <2>1, <2>2
<1>8. StatusTracksMigration'
  BY <1>1 DEF StatusTracksMigration, Active
<1> QED
  BY <1>1, <1>2, <1>3, <1>5, <1>6, <1>7, <1>8

(* A command that leaves no mark.                                          *)
LEMMA SilentEnd ==
  ASSUME MigrationInv, NEW r \in Requests, NEW s \in Stages, NEW how \in {"ok", "bad"},
         Ends(r, s, how), UNCHANGED <<proc, image>>,
         (how = "bad" /\ s # "unfreeze") \/ s = "pre-dump"
  PROVE  MigrationInv'
<1>1. /\ cmd[r][s] = "begun" /\ cmd'[r][s] = how
      /\ \A u \in Stages : u # s => cmd'[r][u] = cmd[r][u]
      /\ \A q \in Requests : q # r => cmd'[q] = cmd[q]
      /\ UNCHANGED target
      /\ ~disturbed => Carried(r)
  BY EndsFacts
<1>2. \A q \in Requests : Restored(q)' <=> Restored(q)
  BY <1>1 DEF Restored, Stages
<1>3. CopiesRestored'
  BY <1>1, <1>2 DEF MigrationInv, CopiesRestored
<1>4. /\ cmd'[r]["dump"] = "ok" => cmd[r]["dump"] = "ok"
      /\ cmd'[r]["transfer"] = "ok" => cmd[r]["transfer"] = "ok"
      /\ cmd'[r]["unfreeze"] # "ok" => cmd[r]["unfreeze"] # "ok"
  BY <1>1 DEF Stages
<1>5. ~disturbed => Carried(r)'
  BY <1>1, <1>2, <1>4 DEF Carried, Resumed
<1>6. /\ proc' \in [Nodes -> {"none", "running", "stopped", "behind"}]
      /\ image' \in [Nodes -> {"none", "torn", "fresh", "stale"}]
  BY DEF MigrationInv, TypeOK
<1> QED
  BY <1>3, <1>5, <1>6, EndsStep

LEMMA DumpEndsStep ==
  ASSUME MigrationInv, NEW r \in Requests, DumpEnds(r)
  PROVE  MigrationInv'
<1>1. Ends(r, "dump", "ok") /\ "dump" \in Stages
  BY DEF DumpEnds, Stages
<1>2. /\ cmd[r]["dump"] = "begun" /\ cmd'[r]["dump"] = "ok"
      /\ \A u \in Stages : u # "dump" => cmd'[r][u] = cmd[r][u]
      /\ \A q \in Requests : q # r => cmd'[q] = cmd[q]
      /\ UNCHANGED <<target, disturbed>>
      /\ Holds(r) /\ InOrder(r)
  BY <1>1, EndsFacts
<1>3. Source \in Nodes /\ \A n \in Targets : n \in Nodes /\ n # Source
  BY MigrationAssumption DEF Nodes
<1>4. /\ proc' \in [Nodes -> {"none", "running", "stopped", "behind"}]
      /\ image' \in [Nodes -> {"none", "torn", "fresh", "stale"}]
      /\ proc'[Source] = "stopped"
      /\ \A n \in Targets : proc'[n] = proc[n]
      /\ Writers = {r} => image'[Source] = "fresh"
  BY <1>3 DEF DumpEnds, MigrationInv, TypeOK
<1>5. CopiesRestored'
  <2>1. \A q \in Requests : Restored(q)' <=> Restored(q)
    BY <1>2 DEF Restored, Stages
  <2>2. \A q \in Requests : target[q] \in Targets
    BY DEF MigrationInv, TypeOK
  <2> QED
    BY <1>2, <1>4, <2>1, <2>2 DEF MigrationInv, CopiesRestored
<1>6. ~disturbed => Carried(r)'
  <2> SUFFICES ASSUME ~disturbed PROVE Carried(r)'
    OBVIOUS
  <2>1. ASSUME NEW q \in Writers PROVE q = r
    <3>1. q \in Requests /\ Holds(q)
      BY DEF Writers, Begun, Holds, Stages
    <3> QED
      BY <1>2, <3>1 DEF MigrationInv, OneHolder
  <2>2. Writers = {r}
    BY <1>2, <2>1 DEF Writers, Begun
  <2>3. cmd'[r]["transfer"] = "none" /\ cmd'[r]["restore"] = "none"
    <3>1. cmd[r]["transfer"] = "none" /\ cmd[r]["restore"] = "none"
      BY <1>2 DEF InOrder
    <3> QED
      BY <1>2, <3>1 DEF Stages
  <2> QED
    BY <1>4, <2>2, <2>3 DEF Carried, Restored
<1> QED
  BY <1>1, <1>4, <1>5, <1>6, EndsStep

LEMMA TransferEndsStep ==
  ASSUME MigrationInv, NEW r \in Requests, TransferEnds(r)
  PROVE  MigrationInv'
<1>1. Ends(r, "transfer", "ok") /\ "transfer" \in Stages
  BY DEF TransferEnds, Stages
<1>2. /\ cmd[r]["transfer"] = "begun"
      /\ \A u \in Stages : u # "transfer" => cmd'[r][u] = cmd[r][u]
      /\ \A q \in Requests : q # r => cmd'[q] = cmd[q]
      /\ UNCHANGED <<target, disturbed>>
      /\ Holds(r) /\ InOrder(r)
      /\ ~disturbed => Carried(r)
  BY <1>1, EndsFacts
<1>3. target[r] \in Nodes /\ Source \in Nodes /\ target[r] # Source
  BY TargetIsOther DEF MigrationInv
<1>4. /\ image[Source] \in {"none", "torn", "fresh", "stale"}
      /\ proc' = proc
      /\ image' \in [Nodes -> {"none", "torn", "fresh", "stale"}]
      /\ image'[Source] = image[Source]
      /\ Writers = {} => image'[target[r]] = image[Source]
  BY <1>3 DEF TransferEnds, MigrationInv, TypeOK
<1>5. CopiesRestored'
  <2>1. \A q \in Requests : Restored(q)' <=> Restored(q)
    BY <1>2 DEF Restored, Stages
  <2> QED
    BY <1>2, <1>4, <2>1 DEF MigrationInv, CopiesRestored
<1>6. ~disturbed => Carried(r)'
  <2> SUFFICES ASSUME ~disturbed, ~Resumed(r)' PROVE Carried(r)'
    BY DEF Carried
  <2>1. /\ cmd[r]["pre-dump"] = "ok" /\ cmd[r]["dump"] = "ok"
        /\ cmd[r]["restore"] = "none"
    BY <1>2 DEF InOrder
  <2>2. ~Resumed(r)
    BY <1>2 DEF Resumed, Stages
  <2>3. image[Source] = "fresh" /\ proc[Source] = "stopped"
    BY <1>2, <2>1, <2>2 DEF Carried, Restored
  <2>4. ASSUME NEW q \in Writers PROVE FALSE
    <3>1. q \in Requests /\ Holds(q)
      BY DEF Writers, Begun, Holds, Stages
    <3>2. q = r
      BY <1>2, <3>1 DEF MigrationInv, OneHolder
    <3> QED
      BY <2>1, <3>2 DEF Writers, Begun
  <2>5. image'[target'[r]] = "fresh" /\ image'[Source] = "fresh" /\ proc'[Source] = "stopped"
    BY <1>2, <1>4, <2>3, <2>4
  <2>6. ~Restored(r)'
    BY <1>2, <2>1 DEF Restored, Stages
  <2> QED
    BY <2>5, <2>6 DEF Carried
<1>7. proc' \in [Nodes -> {"none", "running", "stopped", "behind"}]
  BY <1>4 DEF MigrationInv, TypeOK
<1> QED
  BY <1>1, <1>4, <1>5, <1>6, <1>7, EndsStep

(* The images only age when a copy runs on.                                *)
LEMMA AgedType ==
  ASSUME TypeOK
  PROVE  Aged \in [Nodes -> {"none", "torn", "fresh", "stale"}]
  BY DEF TypeOK, Aged

LEMMA RestoreEndsStep ==
  ASSUME MigrationInv, NEW r \in Requests, RestoreEnds(r)
  PROVE  MigrationInv'
<1> DEFINE t == target[r]
<1>1. Ends(r, "restore", "ok") /\ "restore" \in Stages
  BY DEF RestoreEnds, Stages
<1>2. /\ cmd[r]["restore"] = "begun" /\ cmd'[r]["restore"] = "ok"
      /\ \A u \in Stages : u # "restore" => cmd'[r][u] = cmd[r][u]
      /\ \A q \in Requests : q # r => cmd'[q] = cmd[q]
      /\ UNCHANGED <<target, disturbed>>
      /\ InOrder(r)
      /\ ~disturbed => Carried(r)
  BY <1>1, EndsFacts
<1>3. t \in Nodes /\ t \in Targets /\ Source \in Nodes /\ t # Source
  BY TargetIsOther DEF MigrationInv
<1>4. /\ proc' \in [Nodes -> {"none", "running", "stopped", "behind"}]
      /\ proc'[t] # "none"
      /\ image[t] = "fresh" => proc'[t] = "running"
      /\ \A n \in Nodes : n # t => proc'[n] = proc[n]
  BY <1>3 DEF RestoreEnds, MigrationInv, TypeOK
<1>5. image' \in [Nodes -> {"none", "torn", "fresh", "stale"}]
  BY AgedType DEF RestoreEnds, MigrationInv
<1>6. Restored(r)' /\ \A q \in Requests : q # r => (Restored(q)' <=> Restored(q))
  BY <1>2 DEF Restored
<1>7. CopiesRestored'
  <2>1. ASSUME NEW n \in Targets, proc'[n] # "none"
        PROVE  \E q \in Requests : Restored(q)' /\ target'[q] = n
    <3>1. CASE n = t
      BY <1>2, <1>6, <3>1
    <3>2. CASE n # t
      <4>1. n \in Nodes /\ proc[n] # "none"
        BY <1>4, <2>1, <3>2 DEF Nodes
      <4>2. PICK q \in Requests : Restored(q) /\ target[q] = n
        BY <4>1 DEF MigrationInv, CopiesRestored
      <4> QED
        BY <1>2, <1>6, <3>2, <4>2
    <3> QED
      BY <3>1, <3>2
  <2>2. ASSUME NEW q \in Requests, Restored(q)' PROVE proc'[target'[q]] # "none"
    <3>1. CASE target[q] = t
      BY <1>2, <1>4, <3>1
    <3>2. CASE target[q] # t
      <4>1. Restored(q) /\ target[q] \in Nodes
        BY <1>6, <2>2, <3>2, TargetIsOther DEF MigrationInv
      <4> QED
        BY <1>2, <1>4, <3>2, <4>1 DEF MigrationInv, CopiesRestored
    <3> QED
      BY <3>1, <3>2
  <2>3. proc'[Source] \in {"running", "stopped"}
    BY <1>3, <1>4 DEF MigrationInv, CopiesRestored
  <2> QED
    BY <2>1, <2>2, <2>3 DEF CopiesRestored
<1>8. ~disturbed => Carried(r)'
  <2> SUFFICES ASSUME ~disturbed, ~Resumed(r)' PROVE Carried(r)'
    BY DEF Carried
  <2>1. cmd[r]["transfer"] = "ok" /\ cmd[r]["dump"] = "ok"
    BY <1>2 DEF InOrder
  <2>2. ~Resumed(r) /\ ~Restored(r)
    BY <1>2 DEF Resumed, Restored, Stages
  <2>3. image[t] = "fresh" /\ proc[Source] = "stopped"
    BY <1>2, <2>1, <2>2 DEF Carried
  <2>4. proc'[target'[r]] = "running" /\ proc'[Source] = "stopped"
    BY <1>2, <1>3, <1>4, <2>3
  <2> QED
    BY <1>6, <2>4 DEF Carried
<1> QED
  BY <1>1, <1>4, <1>5, <1>7, <1>8, EndsStep

LEMMA UnfreezeEndsStep ==
  ASSUME MigrationInv, NEW r \in Requests, UnfreezeEnds(r)
  PROVE  MigrationInv'
<1>1. Ends(r, "unfreeze", "ok") /\ "unfreeze" \in Stages
  BY DEF UnfreezeEnds, Stages
<1>2. /\ cmd'[r]["unfreeze"] = "ok"
      /\ \A u \in Stages : u # "unfreeze" => cmd'[r][u] = cmd[r][u]
      /\ \A q \in Requests : q # r => cmd'[q] = cmd[q]
      /\ UNCHANGED target
  BY <1>1, EndsFacts
<1>3. Source \in Nodes /\ \A n \in Targets : n \in Nodes /\ n # Source
  BY MigrationAssumption DEF Nodes
<1>4. /\ proc' \in [Nodes -> {"none", "running", "stopped", "behind"}]
      /\ proc'[Source] = "running"
      /\ \A n \in Targets : proc'[n] = proc[n]
  BY <1>3 DEF UnfreezeEnds, MigrationInv, TypeOK
<1>5. image' \in [Nodes -> {"none", "torn", "fresh", "stale"}]
  BY AgedType DEF UnfreezeEnds, MigrationInv
<1>6. CopiesRestored'
  <2>1. \A q \in Requests : Restored(q)' <=> Restored(q)
    BY <1>2 DEF Restored, Stages
  <2>2. \A q \in Requests : target[q] \in Targets
    BY DEF MigrationInv, TypeOK
  <2> QED
    BY <1>2, <1>4, <2>1, <2>2 DEF MigrationInv, CopiesRestored
<1>7. Carried(r)'
  BY <1>2 DEF Carried, Resumed
<1> QED
  BY <1>1, <1>4, <1>5, <1>6, <1>7, EndsStep

(* One case per action of Next.                                            *)
LEMMA RealStep == MigrationInv /\ [Next]_vars => MigrationInv'
<1> SUFFICES ASSUME MigrationInv, [Next]_vars PROVE MigrationInv'
  OBVIOUS
<1>1. ASSUME NEW r \in Requests, TriggerMigration(r) PROVE MigrationInv'
  BY <1>1, TriggerStep
<1>2. ASSUME NEW r \in Requests, Begin(r) PROVE MigrationInv'
  BY <1>2, BeginStep
<1>3. ASSUME NEW r \in Requests, StageSucceeds(r) PROVE MigrationInv'
  BY <1>3, StageSucceedsStep
<1>4. ASSUME NEW r \in Requests, StageFails(r) PROVE MigrationInv'
  BY <1>4, StageFailsStep
<1>5. ASSUME NEW r \in Requests, UnfreezeReturns(r) PROVE MigrationInv'
  BY <1>5, UnfreezeReturnsStep
<1>6. ASSUME NEW r \in Requests, PreDumpEnds(r) PROVE MigrationInv'
  BY <1>6, SilentEnd DEF PreDumpEnds, Stages
<1>7. ASSUME NEW r \in Requests, DumpEnds(r) PROVE MigrationInv'
  BY <1>7, DumpEndsStep
<1>8. ASSUME NEW r \in Requests, TransferEnds(r) PROVE MigrationInv'
  BY <1>8, TransferEndsStep
<1>9. ASSUME NEW r \in Requests, RestoreEnds(r) PROVE MigrationInv'
  BY <1>9, RestoreEndsStep
<1>10. ASSUME NEW r \in Requests, UnfreezeEnds(r) PROVE MigrationInv'
  BY <1>10, UnfreezeEndsStep
<1>11. ASSUME NEW r \in Requests, NEW s \in Stages \ {"unfreeze"}, CommandFails(r, s)
       PROVE  MigrationInv'
  BY <1>11, SilentEnd DEF CommandFails
<1>12. CASE ServerStops
  BY <1>12, ServerStopsStep
<1>14. ASSUME NEW r \in Requests, NoopReturns(r) PROVE MigrationInv'
  BY <1>14 DEF NoopReturns, MigrationInv
<1>13. CASE UNCHANGED vars
  <2> USE <1>13 DEF vars
  <2>1. TypeOK' /\ StatusTracksMigration'
    BY DEF MigrationInv, TypeOK, StatusTracksMigration, Active
  <2>2. \A r \in Requests : InOrder(r) => InOrder(r)'
    BY DEF InOrder, Restored
  <2>3. CommandsInOrder' /\ ResumedAfterFailure'
    BY <2>2 DEF MigrationInv, CommandsInOrder, ResumedAfterFailure
  <2>4. OneHolder' /\ CopiesRestored' /\ HolderCarried'
    BY ServerStep
  <2> QED
    BY <2>1, <2>3, <2>4 DEF MigrationInv
<1> QED
  BY <1>1, <1>2, <1>3, <1>4, <1>5, <1>6, <1>7, <1>8, <1>9, <1>10, <1>11, <1>12, <1>13, <1>14 DEF Next

(* With the no-op executor only the handler moves.                         *)
LEMMA NoopStep == NoopInv /\ [Next]_vars => NoopInv'
<1> SUFFICES ASSUME NoopInv, [Next]_vars PROVE NoopInv'
  OBVIOUS
<1> USE DEF NoopInv
<1>1. ASSUME NEW r \in Requests, TriggerMigration(r) PROVE NoopInv'
  <2>1. TypeOK' /\ UNCHANGED <<executor, cmd, proc>> /\ status' = "running"
    BY <1>1 DEF TypeOK, TriggerMigration, Stages
  <2>2. /\ stage'[r] = "pre-dump"
        /\ \A q \in Requests : q # r => stage'[q] = stage[q]
    BY <1>1 DEF TypeOK, TriggerMigration
  <2>3. ~disturbed' => Active = {}
    BY <1>1 DEF TypeOK, TriggerMigration
  <2>4. ~disturbed' => Active' = {r}
    BY <2>2, <2>3 DEF Active, Stages
  <2> QED
    BY <2>1, <2>4 DEF StatusTracksMigration
<1>2. ASSUME NEW r \in Requests, NoopReturns(r) \/ UnfreezeReturns(r) PROVE NoopInv'
  <2>1. TypeOK' /\ UNCHANGED <<executor, cmd, proc, disturbed>>
    BY <1>2 DEF TypeOK, NoopReturns, UnfreezeReturns, Proceed
  <2>2. /\ stage[r] \in Stages /\ stage'[r] \notin Stages /\ status' # "running"
        /\ \A q \in Requests : q # r => stage'[q] = stage[q]
    BY <1>2 DEF TypeOK, NoopReturns, UnfreezeReturns, Proceed, Stages
  <2>3. ~disturbed' => Active' = {}
    BY <2>1, <2>2 DEF Active
  <2> QED
    BY <2>1, <2>2, <2>3 DEF StatusTracksMigration
<1>3. CASE ServerStops
  <2>1. TypeOK' /\ UNCHANGED <<executor, cmd, proc, disturbed>> /\ status' = ""
    BY <1>3 DEF TypeOK, ServerStops
  <2>2. Active' = {}
    BY <1>3 DEF ServerStops, Active, Stages
  <2> QED
    BY <2>1, <2>2 DEF StatusTracksMigration
<1>4. CASE UNCHANGED vars
  BY <1>4 DEF vars, TypeOK, StatusTracksMigration, Active
<1>5. ASSUME NEW r \in Requests, NEW s \in Stages, NEW how, Ends(r, s, how) PROVE FALSE
  BY <1>5 DEF Ends, Begun
<1>6. ASSUME NEW r \in Requests, Begin(r) \/ StageSucceeds(r) \/ StageFails(r) PROVE FALSE
  BY <1>6 DEF Begin, StageSucceeds, StageFails
<1>7. ASSUME NEW r \in Requests,
             \/ PreDumpEnds(r) \/ DumpEnds(r) \/ TransferEnds(r) \/ RestoreEnds(r) \/ UnfreezeEnds(r)
             \/ \E s \in Stages \ {"unfreeze"} : CommandFails(r, s)
      PROVE  FALSE
  BY <1>5, <1>7 DEF PreDumpEnds, DumpEnds, TransferEnds, RestoreEnds, UnfreezeEnds, CommandFails,
                  Stages
<1> QED
  BY <1>1, <1>2, <1>3, <1>4, <1>6, <1>7 DEF Next

LEMMA InvHolds == Spec => []Inv
<1>1. Inv /\ [Next]_vars => Inv'
  BY RealStep, NoopStep DEF Inv
<1> QED
  BY <1>1, InitInv, PTL DEF Spec

(* Every variable keeps its type: the requests, commands and copies of     *)
(* k8s_exec.go and migration_routes.go.                                    *)
THEOREM TypeCorrect == Spec => []TypeOK
<1>1. Inv => TypeOK
  BY DEF Inv, MigrationInv, NoopInv
<1> QED
  BY <1>1, InvHolds, PTL

(* triggerMigration: one status entry for the job is right as long as      *)
(* nobody requests a migration while another one is around.                *)
THEOREM StatusIsTracked == Spec => []StatusTracksMigration
<1>1. Inv => StatusTracksMigration
  BY DEF Inv, MigrationInv, NoopInv
<1> QED
  BY <1>1, InvHolds, PTL

(* RealExecutorWithExec.Execute: a migration that it reports as done left  *)
(* the job running at the target and stopped on the source, for any number *)
(* of requests before it.  (The no-op executor reports it and moves        *)
(* nothing: see MigrationReported.cfg.)                                    *)
THEOREM MovesWhatItReports == Spec => []DoneMeansMoved
<1>1. Inv => DoneMeansMoved
  <2> SUFFICES ASSUME MigrationInv, ~disturbed, NEW r \in Requests, stage[r] = "done"
               PROVE  proc[target[r]] = "running" /\ proc[Source] = "stopped"
    BY DEF DoneMeansMoved, ReportedMoveHappened, Inv, NoopInv
  <2>1. Restored(r) /\ cmd[r]["dump"] = "ok" /\ ~Resumed(r)
    BY DEF MigrationInv, CommandsInOrder, InOrder, Resumed
  <2>2. Carried(r)
    BY <2>1 DEF MigrationInv, HolderCarried, Holds
  <2> QED
    BY <2>1, <2>2 DEF Carried
<1> QED
  BY <1>1, InvHolds, PTL

(* Execute and its unfreeze: two copies never run, and none repeats work,  *)
(* unless requests overlap or a restore takes effect that was given up.    *)
(* (With the no-op executor the job only ever runs on the source.)         *)
THEOREM OneCopyRuns == Spec => []OneCurrentCopy
<1> DEFINE Live == {n \in Nodes : proc[n] \in {"running", "behind"}}
<1>1. MigrationInv => OneCurrentCopy
  <2> SUFFICES ASSUME MigrationInv, ~disturbed, ~misreported
               PROVE  Cardinality(Live) <= 1 /\ \A n \in Nodes : proc[n] # "behind"
    BY DEF OneCurrentCopy
  <2>1. ASSUME NEW r \in Requests, Restored(r)
        PROVE  proc[Source] = "stopped" /\ proc[target[r]] = "running"
    <3>1. cmd[r]["dump"] = "ok" /\ ~Resumed(r)
      <4>1. cmd[r]["unfreeze"] = "none"
        BY <2>1 DEF MigrationInv, ResumedAfterFailure, Restored
      <4>2. cmd[r]["dump"] = "ok"
        BY <2>1 DEF MigrationInv, CommandsInOrder, InOrder, Restored
      <4> QED
        BY <4>1, <4>2 DEF Resumed
    <3>2. Carried(r)
      BY <2>1 DEF MigrationInv, HolderCarried, Holds
    <3> QED
      BY <2>1, <3>1, <3>2 DEF Carried
  <2>2. ASSUME NEW n \in Targets, proc[n] # "none"
        PROVE  \E r \in Requests : Restored(r) /\ target[r] = n
    BY <2>2 DEF MigrationInv, CopiesRestored
  <2>3. proc[Source] \in {"running", "stopped"}
    BY DEF MigrationInv, CopiesRestored
  <2>4. \A n \in Nodes : n = Source \/ n \in Targets
    BY DEF Nodes
  <2>5. \A n \in Nodes : proc[n] # "behind"
    BY <2>1, <2>2, <2>3, <2>4
  <2>6. ASSUME NEW m \in Live, NEW n \in Live PROVE m = n
    <3>1. CASE m = Source \/ n = Source
      BY <2>1, <2>2, <2>4, <2>6, <3>1
    <3>2. CASE m \in Targets /\ n \in Targets
      <4>1. PICK r \in Requests : Restored(r) /\ target[r] = m
        BY <2>2, <3>2
      <4>2. PICK q \in Requests : Restored(q) /\ target[q] = n
        BY <2>2, <3>2
      <4>3. r = q
        BY <4>1, <4>2 DEF MigrationInv, OneHolder, Holds
      <4> QED
        BY <4>1, <4>2, <4>3
    <3> QED
      BY <2>4, <3>1, <3>2
  <2>7. Cardinality(Live) <= 1
    <3>1. CASE Live = {}
      BY <3>1, FS_EmptySet
    <3>2. CASE Live # {}
      <4>1. PICK n \in Live : Live = {n}
        BY <2>6, <3>2
      <4> QED
        BY <4>1, FS_Singleton
    <3> QED
      BY <3>1, <3>2
  <2> QED
    BY <2>5, <2>7
<1>2. NoopInv => OneCurrentCopy
  <2> SUFFICES ASSUME NoopInv PROVE OneCurrentCopy
    OBVIOUS
  <2>1. \A n \in Nodes : proc[n] = IF n = Source THEN "running" ELSE "none"
    BY DEF NoopInv
  <2>2. Live = {Source} /\ \A n \in Nodes : proc[n] # "behind"
    BY <2>1 DEF Nodes
  <2>3. Cardinality(Live) = 1
    BY <2>2, FS_Singleton
  <2> QED
    BY <2>2, <2>3 DEF OneCurrentCopy
<1>3. Inv => OneCurrentCopy
  BY <1>1, <1>2 DEF Inv
<1> QED
  BY <1>3, InvHolds, PTL

================================================================================
