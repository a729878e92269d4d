------------------------------- MODULE Uploader -------------------------------
(***************************************************************************)
(* pkg/checkpoint/uploader.go: the worker pool that copies snapshots to a  *)
(* StorageBackend.  Tasks travel through a buffered channel; a failed      *)
(* upload comes back through Enqueue when its backoff timer fires, so the  *)
(* timers compete with the callers for the buffer and with Shutdown, which *)
(* closes the channel.  Every atomic or channel operation is a step.       *)
(***************************************************************************)
EXTENDS Integers, Sequences, FiniteSets

CONSTANTS
  Tasks,
  Workers,
  ChannelBuffer,
  MaxRetries

ASSUME UploaderAssumption ==
  /\ IsFiniteSet(Tasks) /\ Tasks # {}
  /\ Workers # {}
  /\ ChannelBuffer \in Nat \ {0}
  /\ MaxRetries \in Nat \ {0}

VARIABLES
  tasks,      \* the channel: <<task, attempt>> pairs
  doing,      \* doing[w]: what a worker is doing and for which item
  timers,     \* items waiting for their backoff
  pending, uncounted,  \* the counter, and sends that have not reached it yet
  succeeded, failed,   \* the counters of attempts that ended
  outcome,    \* what has become of a task
  shutdown,   \* progress of Shutdown
  panicked,   \* a send on the closed channel has ended the process
  errors      \* history: the <<task, attempt>> pairs whose Save returned an error

vars == <<tasks, doing, timers, pending, uncounted, succeeded, failed, outcome, shutdown,
          panicked, errors>>

Items == Tasks \X (0 .. MaxRetries - 1)
Outcomes == {"new", "rejected", "accepted", "uploaded", "gaveUp", "dropped"}
WorkerPCs == {"receiving", "counting", "saving", "exited"}
Waiting == [pc |-> "receiving", item |-> CHOOSE i \in Items : TRUE]

TypeOK ==
  /\ tasks \in Seq(Items)
  /\ panicked \in BOOLEAN
  /\ doing \in [Workers -> [pc : WorkerPCs, item : Items]]
  /\ timers \subseteq Items
  /\ pending \in Int
  /\ uncounted \in Nat
  /\ succeeded \in Nat
  /\ failed \in Nat
  /\ outcome \in [Tasks -> Outcomes]
  /\ shutdown \in {"running", "cancelled", "closed", "done"}
  /\ errors \subseteq Items

Init ==
  /\ tasks = <<>>
  /\ panicked = FALSE
  /\ doing = [w \in Workers |-> Waiting]
  /\ timers = {}
  /\ pending = 0 /\ uncounted = 0 /\ succeeded = 0 /\ failed = 0
  /\ outcome = [t \in Tasks |-> "new"]
  /\ shutdown = "running"
  /\ errors = {}

(* close(u.tasks) *)
closed == shutdown \in {"closed", "done"}

Settle(t, o) == outcome' = [outcome EXCEPT ![t] = o]

--------------------------------------------------------------------------------
(* Enqueue: the select sends, or takes the default when the buffer is      *)
(* full; on a closed channel it panics.  The counter follows the send.     *)
Full == Len(tasks) >= ChannelBuffer

Send(item) ==
  /\ tasks' = Append(tasks, item)
  /\ uncounted' = uncounted + 1

(* A caller hands over a new snapshot; it does so before it calls Shutdown.*)
Submit(t) ==
  /\ ~panicked
  /\ shutdown = "running"
  /\ outcome[t] = "new"
  /\ IF Full
     THEN Settle(t, "rejected") /\ UNCHANGED <<tasks, uncounted>>
     ELSE Settle(t, "accepted") /\ Send(<<t, 0>>)
  /\ UNCHANGED <<doing, timers, pending, succeeded, failed, shutdown, panicked, errors>>

(* Mutant: the timer is a ticker.                                          *)
TimerFiresAgain(item) ==
  /\ ~panicked
  /\ item \in timers
  /\ ~closed /\ ~Full
  /\ Send(item)
  /\ UNCHANGED <<doing, timers, pending, succeeded, failed, outcome, shutdown, panicked, errors>>

(* The timer of a failed upload enqueues it again; a full buffer loses it. *)
TimerFires(item) ==
  /\ ~panicked
  /\ item \in timers
  /\ timers' = timers \ {item}
  /\ \/ closed /\ panicked' = TRUE /\ UNCHANGED <<tasks, uncounted, outcome>>
     \/ /\ ~closed /\ Full
        /\ Settle(item[1], "dropped")
        /\ UNCHANGED <<tasks, uncounted, panicked>>
     \/ /\ ~closed /\ ~Full
        /\ Send(item)
        /\ UNCHANGED <<outcome, panicked>>
  /\ UNCHANGED <<doing, pending, succeeded, failed, shutdown, errors>>

CountSend ==
  /\ ~panicked
  /\ uncounted > 0
  /\ uncounted' = uncounted - 1
  /\ pending' = pending + 1
  /\ UNCHANGED <<tasks, doing, timers, succeeded, failed, outcome, shutdown, panicked, errors>>

--------------------------------------------------------------------------------
(* workerLoop and processTask.                                             *)
Step(w, pc) == doing' = [doing EXCEPT ![w] = [pc |-> pc, item |-> doing[w].item]]

Receive(w) ==
  /\ ~panicked
  /\ doing[w].pc = "receiving"
  /\ tasks # <<>>
  /\ doing' = [doing EXCEPT ![w] = [pc |-> "counting", item |-> Head(tasks)]]
  /\ tasks' = Tail(tasks)
  /\ UNCHANGED <<timers, pending, uncounted, succeeded, failed, outcome, shutdown, panicked, errors>>

CountReceive(w) ==
  /\ ~panicked
  /\ doing[w].pc = "counting"
  /\ pending' = pending - 1
  /\ Step(w, "saving")
  /\ UNCHANGED <<tasks, timers, uncounted, succeeded, failed, outcome, shutdown, panicked, errors>>

SaveSucceeds(w) ==
  /\ ~panicked
  /\ doing[w].pc = "saving"
  /\ succeeded' = succeeded + 1
  /\ Settle(doing[w].item[1], "uploaded")
  /\ Step(w, "receiving")
  /\ UNCHANGED <<tasks, timers, pending, uncounted, failed, shutdown, panicked, errors>>

(* Mutant: the worker ends with the failed upload.                         *)
SaveFailsEndsWorker(w) ==
  /\ ~panicked
  /\ doing[w].pc = "saving"
  /\ Settle(doing[w].item[1], "gaveUp")
  /\ failed' = failed + 1
  /\ Step(w, "exited")
  /\ errors' = errors \cup {doing[w].item}
  /\ UNCHANGED <<tasks, timers, pending, uncounted, succeeded, shutdown, panicked>>

(* Mutant: the attempt of the item that waits is not raised.               *)
SaveFailsSameAttempt(w) ==
  LET i == doing[w].item IN
  /\ ~panicked
  /\ doing[w].pc = "saving"
  /\ IF i[2] + 1 >= MaxRetries
     THEN Settle(i[1], "gaveUp") /\ UNCHANGED timers
     ELSE timers' = timers \cup {i} /\ UNCHANGED outcome
  /\ failed' = failed + 1
  /\ Step(w, "receiving")
  /\ errors' = errors \cup {i}
  /\ UNCHANGED <<tasks, pending, uncounted, succeeded, shutdown, panicked>>

(* An error, the upload timeout, or the abort after u.cancel().            *)
SaveFails(w) ==
  LET t == doing[w].item[1]
      attempt == doing[w].item[2]
  IN
  /\ ~panicked
  /\ doing[w].pc = "saving"
  /\ IF attempt + 1 >= MaxRetries
     THEN Settle(t, "gaveUp") /\ UNCHANGED timers
     ELSE timers' = timers \cup {<<t, attempt + 1>>} /\ UNCHANGED outcome
  /\ failed' = failed + 1
  /\ Step(w, "receiving")
  /\ errors' = errors \cup {doing[w].item}
  /\ UNCHANGED <<tasks, pending, uncounted, succeeded, shutdown, panicked>>

(* Mutant: wg.Done is forgotten.                                           *)
ExitWithoutDone(w) ==
  /\ ~panicked
  /\ doing[w].pc = "receiving"
  /\ closed /\ tasks = <<>>
  /\ UNCHANGED vars

(* The range loop ends on a closed and empty channel; wg.Done.             *)
Exit(w) ==
  /\ ~panicked
  /\ doing[w].pc = "receiving"
  /\ closed /\ tasks = <<>>
  /\ Step(w, "exited")
  /\ UNCHANGED <<tasks, timers, pending, uncounted, succeeded, failed, outcome, shutdown, panicked, errors>>

Worker(w) == Receive(w) \/ CountReceive(w) \/ SaveSucceeds(w) \/ SaveFails(w) \/ Exit(w)

--------------------------------------------------------------------------------
(* Shutdown, called once: cancel, which lets the uploads under way fail,   *)
(* close, wait.                                                            *)
Cancel ==
  /\ ~panicked
  /\ shutdown = "running"
  /\ shutdown' = "cancelled"
  /\ UNCHANGED <<tasks, doing, timers, pending, uncounted, succeeded, failed, outcome, panicked, errors>>

Close ==
  /\ ~panicked
  /\ shutdown = "cancelled"
  /\ shutdown' = "closed"
  /\ UNCHANGED <<tasks, doing, timers, pending, uncounted, succeeded, failed, outcome, panicked, errors>>

Wait ==
  /\ ~panicked
  /\ shutdown = "closed"
  /\ \A w \in Workers : doing[w].pc = "exited"
  /\ shutdown' = "done"
  /\ UNCHANGED <<tasks, doing, timers, pending, uncounted, succeeded, failed, outcome, panicked, errors>>

Next ==
  \/ \E t \in Tasks : Submit(t)
  \/ \E i \in Items : TimerFires(i)
  \/ CountSend
  \/ \E w \in Workers : Worker(w)
  \/ Cancel \/ Close \/ Wait

Spec == Init /\ [][Next]_vars

(* Goroutines are scheduled, Save ends (the upload context has a timeout)  *)
(* and timers fire.  Nobody has to call Shutdown, which goes on once begun.*)
Fairness ==
  /\ WF_vars(CountSend)
  /\ \A w \in Workers : WF_vars(Worker(w))
  /\ \A i \in Items : WF_vars(TimerFires(i))
  /\ WF_vars(Close) /\ WF_vars(Wait)

FairSpec == Spec /\ Fairness

--------------------------------------------------------------------------------
(* Where an accepted, unsettled task may be.                               *)
Queued(t) == {k \in DOMAIN tasks : tasks[k][1] = t}
Held(t) == {w \in Workers : doing[w].pc \in {"counting", "saving"} /\ doing[w].item[1] = t}
Delayed(t) == {i \in timers : i[1] = t}
Places(t) == Cardinality(Queued(t)) + Cardinality(Held(t)) + Cardinality(Delayed(t))

(* No upload is lost or doubled between the channel, the workers and the   *)
(* backoff timers: an unsettled task is in exactly one of them, a settled  *)
(* one in none, so two workers never work on one task at a time.  (A task  *)
(* is one call of Enqueue; a caller that enqueues a snapshot twice has two *)
(* tasks, see SnapshotStore.  After the panic the memory is gone.)         *)
NoTaskLostOrDoubled ==
  panicked \/ \A t \in Tasks : Places(t) = IF outcome[t] = "accepted" THEN 1 ELSE 0

(* The counters that Stats and the queue depth gauge read are exact up to  *)
(* the operations in progress, although each is updated after the channel  *)
(* operation it counts: every upload that ended in an error is counted as  *)
(* failed once and is never made again under its number, a task is given   *)
(* up after all its attempts, and one that waits has failed in all before. *)
FailedAttempts(t) == {n \in 0 .. MaxRetries - 1 : <<t, n>> \in errors}
CountersExact ==
  /\ pending + uncounted = Len(tasks) + Cardinality({w \in Workers : doing[w].pc = "counting"})
  /\ succeeded = Cardinality({t \in Tasks : outcome[t] = "uploaded"})
  /\ failed = Cardinality(errors)
  /\ \A t \in Tasks : outcome[t] = "gaveUp" => FailedAttempts(t) = 0 .. MaxRetries - 1
  /\ \A i \in timers : FailedAttempts(i[1]) = 0 .. i[2] - 1

(* Every accepted snapshot is uploaded, given up after MaxRetries or       *)
(* dropped by a full queue, unless the process panics: no worker or timer  *)
(* keeps a task for ever.                                                  *)
EveryTaskSettles ==
  \A t \in Tasks : outcome[t] = "accepted" ~> (outcome[t] # "accepted" \/ panicked)

(* Shutdown returns: no worker is left waiting on the channel.  Only a     *)
(* retry that fires after close panics, and ends the process first.        *)
ShutdownReturns == shutdown # "running" ~> (shutdown = "done" \/ panicked)
================================================================================
