# PhoenixGPU: TLA+ specification

TLA+ modules of PhoenixGPU (Go, Kubernetes), the TLC configurations that check
them on small instances, and proofs for TLAPS.  Every definition is translated
from the code; `PROJECT.json` names, for each one, the lines it stands for.

    tlc -workers 2 -config MCHAController.cfg MCHAController
    tlapm HAControllerProofs.tla

## 1. The system

PhoenixGPU shares GPUs between training jobs and keeps them alive across node
failures: a controller checkpoints each `PhoenixJob` with CRIU at intervals,
watches the nodes, and restores the jobs of a failed one.  A device plugin
offers slices of the GPUs to Kubernetes, a webhook and a scheduler extender put
pods on them, libvgpu holds a container to its share of the memory, and the
billing engine charges for what the jobs use.

| Component | State it keeps | Operations | Talks to |
|---|---|---|---|
| Fault detector `pkg/hacontroller/fault_detector.go` | `notReadySince`, `faultEmitted` per node, in memory | `Run` (ticker), `poll`, `checkNode` | lists nodes; starts `HandleNodeFault` in a goroutine |
| HA controller `pkg/hacontroller/controller.go` | job status at the API server, `restoreSem` | `Reconcile`, `triggerCheckpoint`, `HandleNodeFault`, `initiateRestore` | API server, CRIU checkpointer |
| CRIU checkpointer `pkg/checkpoint/criu.go` | snapshot directories | `Dump`, `PreDump`, `Restore` | the `criu` command |
| Circuit breaker `pkg/checkpoint/circuit_breaker.go` | `state`, `failures`, `lastFailTime` | `Allow`, `RecordSuccess`, `RecordFailure`, `State` | wraps a checkpointer |
| Upload pool `pkg/checkpoint/uploader.go` | task channel, three counters, timers | `Enqueue`, workers, `Shutdown` | storage backend |
| Snapshot storage `pkg/checkpoint/storage*.go` | files or objects per snapshot | `Save`, `Load`, `List`, `Delete`, `Prune` | PVC, S3 |
| Oversubscription `pkg/vgpu/oversub.go` | three atomic counters; an LRU list | `Alloc`, `Free`; `LRUTracker` | callers of one process |
| Migration `pkg/migration/`, `cmd/api-server/internal/migration_*.go` | `State` of an execution; status map | `triggerMigration`, `Execute`, four stages | commands in pods |
| Billing `pkg/billing/`, `cmd/billing-engine` | usage records, quota policies | `Record`, `checkQuota`, collection loop | database, API server, alert hooks |
| Cluster client `pkg/k8s/client.go` | a `MetricsCache` per node and metric | `Get`, `ListGPUNodes`, `GetClusterSummary` | Prometheus, API server |
| API server `cmd/api-server` | the migration status, rate limiters | HTTP handlers | cluster client, migration |
| Device plugin `cmd/device-plugin` | slices and their health, a socket | `Start`, `Register`, `ListAndWatch`, `Allocate`, `checkHealth` | kubelet, `nvidia-smi` |
| Scheduler extender `cmd/scheduler-extender` | none | filter, prioritize | kube-scheduler |
| Webhook `cmd/webhook` | none | validate jobs, mutate pods | API server |
| libvgpu `libvgpu/src` | memory account in a shared mapping, meter | hooks of `cuMemAlloc`, `cuMemFree` | CUDA, other processes of the container |

What is hard here: the detector decides on lists that are stale when used; the
controller patches without a resource version and works on objects it read
minutes before; a fault starts goroutines for several pods of one job; the
uploader's timers outlive `Shutdown`; the counters of `OversubManager` are
atomic one by one and not together; a command in a pod goes on when its exec
stream breaks; the billing loop serves ticks late and loses replies; a cache is
refreshed under a lock that everybody wants; the device plugin names slices by
an index that can move; the memory account of a container has a mutex per
process.  `PROJECT.json` lists these hazards at their lines.

## 2. Modules

| Module | Models | Specification |
|---|---|---|
| `NodeFaults` | what a fault detector promises: one declaration per outage | abstract |
| `FaultDetector` | the polling detector; implements `NodeFaults` | detailed |
| `HAController` | reconciler, fault handler, restore goroutines, CRIU directories, API server | composition |
| `CircuitBreaker` | the breaker and its overlapping callers | detailed |
| `Uploader` | queue, workers, retry timers, shutdown | detailed |
| `OversubManager` | `Alloc` and `Free`, one action per atomic operation | detailed |
| `SnapshotStore` | `Save`, `Load`, `Delete`, `Prune` object by object | detailed |
| `Migration` | API server handler and `Execute`, commands in pods | composition |
| `Billing` | collection loop, stores, quota checks, alert hook | detailed |
| `ClusterClient` | concurrent requests over the metrics caches; cluster summary | detailed |
| `Webhook`, `SchedulerExtender` | what the admission and scheduling handlers compute | operators |
| `DevicePlugin` | the plugin with kubelet, scheduler, webhook, GPUs and pods | composition |
| `VramQuota` | libvgpu's account of a container's memory | detailed |
| `MC*` | constants for TLC | |
| `HAControllerProofs`, `MigrationProofs`, `SnapshotStoreProofs`, `BillingProofs`, `ClusterClientProofs` | theorems about the module each is named after | proofs |
| `ResilienceProofs` | theorems about `FaultDetector`, `CircuitBreaker`, `Uploader` | proofs |
| `GPUMemoryProofs` | theorems about `VramQuota`, `OversubManager`, `DevicePlugin` | proofs |
| `SumTheorems` | sums over finite sets, for memory and bills | proofs |

Modules that share a proof module have specifications with names of their own
(`DetectorSpec`, `BreakerSpec`, `OversubSpec`, `PluginSpec`).

### FaultDetector and NodeFaults

`registered` and `ready` are the cluster; `listed` is the reply of `List`, which
the cluster may contradict by the time `CheckNodes` walks it.  `since` is the
age of `notReadySince` (`Untracked` where the map has no entry), `lastGood` a
history variable: the age of the last poll that saw the node Ready or missing.
Time is discrete (`Tick`); a poll may take any time, and the ticker holds one
tick (`tick`), as Go's does.  `CheckNodes` is everything `poll` does after
`List`: the code between is local and no other goroutine reads the maps.
`HandlerRuns` is the goroutine `go fd.handler`; `Restart` is a new process or a
new leader, with empty maps.

`NodeFaults` has one view per node (`up`, `suspect`, `faulted`) and the step
`Observe`.  `ImplementsNodeFaults` maps the two maps to that view.  The
detector, and with it every property, judges by what the Lists showed: an alarm
for a node that recovered after the `List` is an alarm the properties allow.

### HAController

One reconcile worker (controller-runtime's default of one concurrent
reconcile; `SetupWithManager` sets none), with `StartCheckpoint` (the checks of
`Reconcile` and `triggerCheckpoint` up to the start of `Dump`), the end of
`Dump`, and the patch.  `Dump` takes minutes, so faults, restores and deletions
happen in between.  `HandleNodeFault` starts a goroutine per pod of the node
(`restores`); each is the sequence semaphore, `Get`, patch to Restoring,
`Restore`, patch to Running or Failed, one action each, for every call can fail
and every gap lets others run.  `disk` says what each snapshot directory holds.
A goroutine may panic anywhere (`Panics`: `recover` and the deferred release of
the slot).  `apiErrors`, `Crash`, `DeleteJob` and `RecreateJob` are the
environment, bounded.  `failures` and `cutShort` are history variables, and so is
`uid`, which no code reads.

A job may be created again under the name of a deleted one (`RecreateJob`,
`JobStarts`).  Patches go by name without a UID and directories are
`ns/name/seq`, so what was started for the old job meets the new one: a Dump
under way patches its own number onto a count of 0, a restore patches the phase,
and the new job counts from 1 again and dumps into directories that exist.
`CheckpointUsable`, `RestoringExplained` and `CheckpointsDense` hold through
this; the latter allows that the first number recorded for a new job is the one
of its predecessor's Dump.  `RestoreSourceStable` does not: it speaks of the
goroutines whose job is still the one they read (`OfThisJob`), since the new
job's first Dump may write the very directory an old goroutine restores from.
That collision is reachable in the model and in the code.

`NodeNameIndexed` says whether the client can list pods by `spec.nodeName`.  The
manager's cached client needs a field index for that, and neither `main.go` nor
`SetupWithManager` registers one; with FALSE every `HandleNodeFault` ends in
`ListPodsFails` and no restore ever starts (section 5).  The runs about restores
take the value TRUE.

Details kept from the code: a failure of the patch to Restoring or Running is
logged and the restore goes on; a reply lost after the server applied a patch is
the successful patch as far as the state goes; the manager's client reads
`Unstructured` objects live, so `Get` is not stale; `restoreAttempts` is read
and never written.

### CircuitBreaker

`age` is the time since `lastFailTime`, up to `OpenDuration`.  Any number of
calls run between `Allow` and their result; `State` itself may move the breaker
to half-open.  The code admits every caller while half-open.  The environment
(`healthy`) decides how a call ends.

### Uploader

Send and `pending++`, and receive and `pending--`, are separate steps, as in the
code.  A task is in the channel, with a worker, waiting in a timer, uploaded,
given up or rejected.  `Shutdown` is three steps: cancel the context (running
saves may fail), close the channel, wait for the workers.  A task is one call of
`Enqueue`, which compares nothing: a snapshot that is enqueued twice is two
tasks.  `errors` is history: the attempts that ended in an error.  Callers stop
submitting before `Shutdown`; timers cannot know, and a timer that fires after
`close` panics (`panicked`).

### OversubManager

A thread per concurrent call with its local value and a program counter.
Arithmetic is modulo `Modulus` (2^64 in the code): `Minus` is the code's
`Add(^(n - 1))`.  `freeRaced` remembers whether a `Free` overlapped another call.

### SnapshotStore

Both backends, one chosen in the initial state (`backend`), for the snapshots of
one job.  `objects` is what a listing and a read would return: content of each
image and of meta.json, `absent`, `torn` for a file of the PVC that is being
written or was left half written, or `shared` for one that Saves of different
dumps have open at once.  Each client runs one call at a time (`op`), a step per
object, and may fail after every step.  Nothing keeps two Saves of one snapshot
apart, neither the backends nor the uploader, so they overlap in the model as
they may in the code; the last to close a shared file leaves one of the dumps or
a mixture (`Leaves`).  Nothing but `Prune` calls `Delete`.  Names are abstract,
so the order of a directory is any order: the images precede meta.json in a Save
because the code says so, while a Delete meets meta.json anywhere.

`overwritten`, `deleted` and `mixed` are history: while a Save goes over an
announced snapshot, once a Delete has begun, and once Saves have collided,
meta.json is not a sign of anything.  On the PVC any two overlapping Saves of one
snapshot collide; in S3 they do when their contents differ or one was disturbed,
so two Saves of one dump are safe there.  After a Delete that failed half way,
or a collision, it stays so until a Save that nothing disturbed completes.  The
properties say exactly how far meta.json can be trusted.  `LoadComplete` leaves
out one more thing (`quiet` in `StartLoad`): a Load from the PVC asks for the
directory only, so one of a snapshot whose Save was cut short and never
announced, or whose meta.json is half written, succeeds and delivers what is
there.

### Migration

`executor` is what `newMigrationHandlers` was given: one that migrates, or nil,
for which it puts a no-op that returns success at once (`NoopReturns`).  The
shipped api-server gives none, so there `done` means that nothing moved;
`DoneMeansMoved` is about a server that was given an executor.

Each request is a goroutine of `triggerMigration` that runs `Execute`: the four
stages in order, one exec call each, and after a failed restore the exec call
that resumes the source.  No adapter between `MigrationExecutor` and
`RealExecutorWithExec` is in the repository; the composition is the direct one.
The command of an exec call (`commands`) is external: it may have its effect
before the call returns, after it, or never, and it may fail.  `proc` is the
process on each node: none, running, stopped, or `behind` when it was restored
from an image older than the work done since.  `disturbed` says that a request
came while an execution, a stray command or another copy was there, and
`misreported` that a restore was given up after it had begun.

### Billing

The loop is one goroutine: wait for a tick, list the jobs, and for each active
one build a record and save it.  `tick` is the channel of the ticker, which
holds one; a tick that finds it full is dropped.  Each saved record starts a
goroutine `checkQuota` (`checks`): up to three queries, then up to three calls
of the hook.  `backend` is the store chosen at the start: the in-memory one
forgets everything in a crash and counts a namespace as a tenant, the database
keeps the records and may lose a reply before or after the row was written.  A
quota check succeeds on the in-memory store only (`GetQuotaStatus`): the engine
passes `monthly`, the query uses it as the unit of `date_trunc`, and the
database rejects it every time (`GetQuotaStatusFails`).  The in-memory store has
the policies that were set with `SetQuota`, which is for users of the package
and tests; `cmd/billing-engine` sets none, so in the shipped binary no alert
comes from either store.  `AlertsJustified` and `AlertEventually` are about the
in-memory store with policies.  Hours are counted in quarters of a GPU.  `used`,
`spells`, `missed`, `late` and `uncheckedFor` are history: how long each job was
active, how often that began, what was lost and whose check was lost.
`time.Ticker`, `INSERT` and the two queries are the whole of the interface that
is modelled; prices are constant factors of the hours and left out.

### ClusterClient

A caller is an HTTP request: `ListGPUNodes` over the metrics, one `Get` after
the other in any order, or `GetClusterSummary`.  `queue` is the lock of a cache
in the order of arrival; readers look at the cache only while nobody fetches,
and those that wait when a writer unlocks go before the next writer, as
`sync.RWMutex` has it.  (Between writers the order is strictly that of arrival;
Go's mutex lets a newcomer overtake until somebody has waited for 1 ms, so
`WaitBounded` is about a lock a little fairer than Go's.)  A `Get` is: look (`GetCached` or `WaitForLock`), look
again under the lock (`DoubleCheck`), fetch.  A fetch may succeed with a reading
that is as old as the fetch, fail, or last until its deadline.  Local steps take
no time.  `known`, `waited` and `answer` are history.

### DevicePlugin, Webhook and SchedulerExtender

`Webhook` and `SchedulerExtender` are operators without state.  Patches, JSON
and HTTP are left out; what `json.Unmarshal` does to the numbers is not, because
the handler's range checks depend on it.  `int64()` of a float is a choice of the
two values rounding can give.

`DevicePlugin` uses them and adds the plugin process (`plugin`, `devices`), its
socket, what the kubelet knows (`kubelet`, `offered`) and the pods on their way:
created (mutated by the webhook or not), bound (if the extender's filter and the
scheduler's own count let them), allocated, running.  `nvidia-smi` numbers
what it finds in the order of the bus (`Number`), so losing a GPU moves the
others down; `moved` remembers that some index was not the first one.  The list
of slices is sent once, of GPUs discovered once: `disturbed` remembers that
since the discovery a GPU came or went, or that `nvidia-smi` failed before the
list was sent.  `ResourceReturns` demands again and again that the kubelet is
connected and, unless `disturbed`, is offered all the slices; only a plugin that
a restarted kubelet orphaned, or a node without GPUs, is excused.
`GPUNotOverpromised` adds up the containers that have one GPU; one with slices
of several is not in the sums.  A
container may be created with variables of its own, which come after those of
the plugin and override them: `Plain` says that it sets neither of the two that
the properties of slices and memory read.

### VramQuota

The module is about the library as if it were loaded and only `cuMemAlloc` and
`cuMemFree` allocated memory.  Three things are outside it.  The constructor
calls `dlsym` (`hook.c:70`), which is the library's own override
(`hook.c:109-119`) and calls `real_dlsym` while that is still NULL: where the
symbol is interposed, as under `LD_PRELOAD`, the process crashes at its start.
Only `cuMemAlloc` and `cuMemAlloc_v2` are hooked (`cuda_hook.c:168-187`), so
memory from `cuMemAllocManaged`, `cuMemAllocPitch`, `cuMemAllocAsync` and so on
is in no account.  And a process that could not map the file (`degraded`)
allocates without an account.  `AccountExact` and `UsageBounded` say nothing of
the memory of these.

Each allocation is four steps: check against the limit, the driver's call, the
read and the write of `+=` on the shared account.  The mutex excludes threads of
one process and not two processes.  A process that finds the file without its
magic number clears it, some time after it looked (`Load`, `Clear`); it may fail
to map it and go on without an account (`degraded`), and it may exit anywhere.
A free and an exit change what is held and never the account.  `lost`,
`restored` and `released` are history: what a write or a late clear drops, what
a write brings back that had been cleared, and what was freed.

## 3. Runs

| Run | Instance | What it shows |
|---|---|---|
| `fault_detector` | 2 nodes, poll period 2, threshold 3, 4 changes of the cluster, 1 restart | no early alarm, no silenced node, dead nodes are declared, `NodeFaults` implemented |
| `ha_controller` | 1 job with 3 pods on one node, 2 restore slots, 2 checkpoints, 1 fault, 1 API error, 1 crash, 1 re-creation under the name | snapshots usable and stable under a restore, counts dense, Restoring explained, every restore gets a slot and ends |
| `circuit_breaker` | 3 callers, 2 failures open it, open for 2 ticks, 4 changes of health | state and counter agree under late results, suspension kept, recovery |
| `uploader` | 3 tasks, 2 workers, buffer 1, 2 attempts | no task lost or doubled, counters exact, every failed upload counted once, everything settles, `Shutdown` returns |
| `oversub` | 3 threads, sizes 1 and 2, capacities 3 and 5, arithmetic modulo 8, threads symmetric | limit and sum exact in every interleaving, split exact while no `Free` races |
| `migration` | 2 requests, 2 targets, with and without an executor | with an executor done means moved, one copy, status right, every migration ends |
| `snapshot_store` | both backends, 3 snapshots of 2 images, 2 contents, 2 clients, keep 1, 4 calls | meta.json announces whole dumps, Loads deliver them, `Prune` keeps the newest and reaches its limit, with the exceptions of section 2 |
| `billing` | 2 jobs, one department, interval 2, 4 time units, both stores, 1 change of phase, 1 failure, 1 crash | billed hours are used hours within the stated error, no double billing; with the in-memory store and policies, alerts exactly when due |
| `cluster_client` | 2 requests at a time, 2 metrics, TTL 2, fetch deadline 1 | fresh means fresh, waits bounded, no error once known, refreshes spaced, every call returns |
| `device_plugin` | 2 GPUs in 2 slices each, 2 pods, one with an `LD_PRELOAD` of its own | promised memory exists, containers see the GPUs of their slices, libvgpu is loaded, all slices are offered again |
| `vram_quota` | 3 processes with 2, 1 and 1 threads, with and without a limit, memory of 5 units, 6 allocations of 1 unit | every unit accounted for, bounded excess over the limit |
| `ha_failed_jobs` | 1 job with 1 pod, 2 attempts, 2 faults, no API error, no crash, no re-creation | violation: Failed is never reached |

`MCDevicePlugin` also holds assumptions, which TLC evaluates in the same run,
that compare the pure handlers with reference statements over bounded inputs:
a job passes the CRD schema and the handler exactly when it has no error (and
either alone lets some through); a pod's request is the peak of its containers
and init containers; a larger request never admits more nodes; priorities lie in
0 to 100 with the best first; the policies order nodes as they say.
Type invariants are not among the properties of the runs: those that are proved
are named in section 4.

Bounds.  Three pods and two slots make a goroutine wait for the semaphore while
two restore the same job.  Two checkpoints suffice for a third directory never
to matter: the properties relate the recorded directory and the one being
written; one re-creation makes a Dump and restores of the old job meet the new
one.  After the last fault event the detector polls no more in `HAController`, as
its views would matter to nobody.  Three callers of a breaker with two failures let a late result meet
each state.  One slot of buffer with two workers and three tasks makes the queue
full while a timer fires.  Three threads make two of them race while the third
changes the counters under both; modulus 8 lies above the virtual capacity, so
only an underflow wraps.  Two migrations make the second one follow, or overlap,
a failed first one.  Counters in the environment (`changes`, `restarts`,
`outages`, `MaxFaults`, `MaxApiErrors`, `MaxCrashes`, `MaxRecreations`) bound how often it
disturbs the system, not what it does.  `CHECK_DEADLOCK FALSE` stands only in
the configurations of systems that really stop: after a shutdown, after the last
migration, or when the bounded faults and checkpoints are used up.

Three snapshots and four calls allow two overlapping Prunes over two saved
snapshots, and a Prune among three.  Four time units are two billing intervals,
the shortest time in which a tick is served late or dropped and a second record
follows a first; half a GPU for one interval is 80 percent of the limit in the
instance.  Two requests and two metrics make one fetch while the other waits,
creates the same cache or is at another metric.  Two GPUs are the fewest that
can be renumbered.  Two threads in one process and one in each of two others give
each pair the mutex orders and each pair it does not, and a process that clears
the file while two others write to it.

Fairness.  Weak fairness of the program's own goroutines: the poll loop and the
handler it starts (the scheduler runs them), the restore goroutines (each call
has a deadline; a send on a Go channel waits in a FIFO queue), the workers, timers and `Shutdown`, and each
`Execute` (its context has a deadline of ten minutes and the unfreeze one of
30 s).  Strong fairness in few places: `ListNodes`, for `List` fails
now and then but not for ever (a detector that never sees the nodes declares
nothing); and `Admit`, for the users of the breaker keep calling and some of
their calls meet the moment when it is half-open.  Calls of the breaker end.
In `Billing` the quota checks run (each call has an answer or an error).  In
`ClusterClient` every call runs, a fetch ends by its deadline, and `DoubleCheck`
is strongly fair because a writer waiting for a `sync.RWMutex` holds off new
readers.  In `DevicePlugin` the DaemonSet restarts the plugin and the kubelet
answers, strongly, for a crash may come between any two of their steps but not
for ever.
Never assumed: that a command in a pod ends, that a patch, a Save or a Dump
succeeds, that users act.

## 4. Proofs

The theorems hold for every value of the constants under the named assumptions
of the modules (finite sets, positive numbers; `Nat` for the bounds).  Every
safety property that a passing run checks is a theorem.  `PROJECT.json` lists
them; this is how they are proved.

**`ResilienceProofs`**

* Fault detector.  `DetectorInv` is type correctness, `EmittedIsTracked` and
  `SinceAfterLastGood`: the time stamp is never older than the last good
  observation.  Without the last part `NoEarlyAlarm` is not inductive, because
  the guard of an emission speaks of `since` and the property of `lastGood`.
  `Refinement` maps each step to one of `NodeFaults` or a stutter and uses
  `EmittedIsTracked` for the steps that clean up.
* Circuit breaker.  `BreakerInv` adds to type correctness and
  `StateMatchesFailures` that a half-open breaker is old enough, which is what
  `SuspensionRespected` needs, since a caller is admitted in that state without
  a look at the clock.
* Upload pool.  `PlacesInv` states `NoTaskLostOrDoubled` without cardinalities:
  no place holds a task twice, no two places hold one task, and the held tasks
  are the accepted ones.  Each action moves one item from one place to the next,
  or settles it.  For `CountersExact` the failed uploads are a set of pairs of a
  task and an attempt (`errors`): `failed` is its cardinality, an item that is
  still in flight is not in it and all earlier attempts of its task are
  (`FlightErrors`), and a task that was given up has all its attempts in it
  (`SettledErrors`).  So no failure is counted twice and none is left out.

**`HAControllerProofs`**

* `SnapshotInv` has four parts: the status names the recorded count
  (`StatusNamesLast`), every recorded directory is complete
  (`RecordedComplete`), the worker writes the next number of the job it read, or,
  when another job has the name by now, that job has recorded none
  (`WorkerWritesNext`, `NextOfStatus`), and a goroutine whose job is still the
  one it read holds a recorded number (`GoroutinesHoldRecorded`).  Together they
  give `CheckpointsUsable`, `RestoreSourcesStable` and `CheckpointsAreDense`.
  The argument rests on the single reconcile worker and on counts that go back
  only with a new uid.
* `RestoresAreBounded` follows from the guard of the send on `restoreSem` and
  the cardinality lemmas of the library.
* `RestoringIsExplained` has an invariant of its own: a goroutine named by a
  fault that was not handled yet has not started (`NotYetStarted`), so the next
  fault replaces no goroutine that explains a `Restoring` job.

**`MigrationProofs`**.  With the no-op executor no command begins and the job stays
where it is (`NoopInv`).  With one that migrates (`MigrationInv`), while requests follow one another, one request at most
*holds* the job (`OneHolder`): its `Execute` or one of its commands is under
way, or its restore took effect.  A request that starts undisturbed finds no
holder, because every copy on a target was left by a restore
(`CopiesRestored`).  So nobody but the holder touches the images, and dump,
transfer and restore each work on what the command before left
(`HolderCarried`).  This gives `DoneMeansMoved`; with `ResumedAfterFailure` (a
restore that can still take effect has no unfreeze behind it) it gives
`OneCurrentCopy`, and `OneHolder` alone gives `StatusTracksMigration`.

**`SnapshotStoreProofs`**, in layers:

* `StoreInv`: of two Saves of one snapshot none is undisturbed unless they store
  the same dump in S3 (`SaversAgree`); a Save writes meta.json last (`MetaLast`);
  a Save beside a Delete is disturbed (`DeleterDisturbs`), and a disturbed Save is
  one of a snapshot in `deleted` or `mixed` (`DisturbedExcused`); S3 stores in one
  step (`InOneStep`).  So an undisturbed Save has stored its content in every
  image it has ticked off (`StoredSoFar`), and a meta.json that can be read under
  it is of that content (`MetaAgrees`).  `AnnouncedComplete` is the last part.
* `LoadsInv`: an undisturbed Load still has a complete snapshot before it, and
  the images in its hand are of the content that meta.json announces.
* `PruneInv`: what a Prune has listed was announced, and everything it deletes
  has `Keep` announced snapshots above it (`Superseded`).  No snapshot leaves
  `announced`, so that stays true whatever the other calls do, and `NewestKept`
  follows.
* `LimitInv`: in a Prune that nobody disturbs, what remains is among the
  snapshots it has listed and those it has still to look at, and then at most
  `Keep` more than those it has still to delete.

**`BillingProofs`**

* `ClockInv`: ticks are an interval apart, and one that was not taken at once is
  in `late`.  `LedgerInv`: the records of a job are of different ticks, in
  order, each of one interval.  They give `NothingBilledTwice`.
* `UseInv`: what a job used and what was billed meet only at the end of a
  collection.  In between the engine owes a record for each tick in its hand and
  each record under way, and the age of the period that has begun; `Upper` and
  `Lower` are the two bounds of `BillingTracksUse` with these terms, for a job
  that is active and for one that is not.
* `AlertInv`: each alert had a goroutine and each goroutine a record, counted as
  cardinalities, and a tenant near its limit stays there.

**`ClusterClientProofs`**

* `LockInv`: whoever waits is in the queue, and whoever fetches is its head and
  found the value stale.  `CacheInv`: a known metric has a value, and a sample
  is at most `FetchTimeout` older than its cache says.  From the first follows
  `RefreshesSpaced`, from the second `ServedNotTooOld`, and from both
  `NoErrorOnceKnown`.
* `WaitInv`: the queue is a line without repetition (`LineOnce`), and a caller
  at place i has waited for at most as many fetches as there are callers that are
  not behind it, and the time the head has spent (`PlaceBound`).
  `WaitsAreBounded` follows, since the line has each caller once at most.

**`SumTheorems`**.  The library's sum of a function over a set is a recursive
function chosen by `CHOOSE`.  That it exists, that it is 0 for {} and that a
further element adds its value is proved by induction on the subsets of the set
(`InductionOnSubsets`), which rests on the least element of a set of numbers
(`WFMin` of the library) and on no rule with an operator parameter.

**`GPUMemoryProofs`**

* libvgpu.  `Balance` is `AccountExact` with sums over threads and processes.
  `ExcessIsBounded` needs `ClaimsBounded` as well: the account and the requests
  that were let through exceed the limit by one request for every thread but
  one, and by what a late write brought back, which no check has seen.
* Oversubscription.  `VirtualInv`: the virtual counter is what the threads have
  charged, and a compare-and-swap that is about to be made fits.  `SplitInv`:
  while no Free overlaps another call, the physical counter never exceeds its
  capacity, swap is used only when it is full, and what a thread has loaded is a
  lower bound.  So no counter wraps, for any word that holds the capacity and
  one request more.
* Device plugin.  While nothing has moved, the number of a GPU is its place on
  the bus (`NumberIsPlace`), and the first part of a slice's name says which GPU
  it is of (`SliceInv`).  `OfferInv`: the kubelet offers slices of a plugin that
  is up.  `GrantInv`: no two pods have a slice in common, and the variables of a
  pod are the plugin's answer for its slices before its own.
  `GrantsAreVisible` and `LibraryIsPreloaded` follow with `Getenv`, for which
  the last entry of a name counts.  `MemoryIsNotOverpromised` is a sum over the
  containers that share a GPU: their slices are disjoint subsets of the
  `slicesPerGPU` there are (`DisjointParts`), each worth the quotient.

Type correctness is proved of every module with state but the abstract
`NodeFaults`.

Only model-checked:

* liveness, which needs fairness and `ENABLED`: `DeadNodeIsDeclared`,
  `RestoresDrain`, `RecoversWhenHealthy`, `EveryTaskSettles`, `ShutdownReturns`,
  `EveryMigrationEnds`, `AlertEventually`, `EveryCallReturns`,
  `ResourceReturns`;
* what `MCDevicePlugin` assumes of the handlers of webhook and extender: those
  statements are about bounded inputs.

## 5. What the runs and the reading found

*No job ever becomes Failed* (violation run `ha_failed_jobs`): `initiateRestore`
adds one to a counter that nobody stores (`controller.go:317`).

Six further statements of the repository that the code does not keep have a
property and a configuration each, which TLC refutes in seconds.  They are kept
beside the runs and are not among them.

| Configuration, module, property | The repository says | The code does |
|---|---|---|
| `HAFaultScan.cfg`, `MCHAController`, `FaultsReachJobs` | `controller.go:196`: HandleNodeFault "finds all PhoenixJobs on that node and initiates restore" | lists pods by `spec.nodeName` (`:212`), for which no index is registered: every fault event is lost |
| `MigrationReported.cfg`, `MCMigration`, `ReportedMoveHappened` | `docs/releases/v0.2.0-alpha.md:8`, `docs/runbooks/deployment-verification.md:127`: a POST moves a running job, through stages | the api-server sets no executor (`cmd/api-server/main.go:94-101`) and a no-op reports success (`migration_routes.go:26-29`) |
| `StoreOverlap.cfg`, `MCSnapshotStore`, `ConcurrentSavesSafe` | `storage.go:53`: "All methods must be safe for concurrent use"; `:57`: a second Save overwrites | two Saves of one snapshot mix object by object (`storage_pvc.go:46`) |
| `StoreLoad.cfg`, `MCSnapshotStore`, `LoadedExists` | `storage.go:63`: Load "returns an error if the snapshot does not exist" | the PVC asks for the directory alone (`storage_pvc.go:96`) and delivers what a Save that was cut short left |
| `BillingAlerts.cfg`, `MCBilling`, `QuotaAlerts` | `engine.go:178`, `docs/IMPLEMENTATION_GUIDE.md:501`: above 80 percent an alert is fired | the database rejects `monthly` as the unit of `date_trunc` (`store_postgres.go:110`): no check succeeds |
| `DeviceHealth.cfg`, `MCDevicePlugin`, `HealthIsSent` | `device-plugin/main.go:222`: the health check "triggers re-sends" | `ListAndWatch` sends once and waits for `stopCh` |

What follows was met while the models were written.  The models contain it as
the code does it, and the properties are stated around it; the property that
would forbid it is not among the runs.

* `HAController`: a job created under a name that was in use dumps into
  directories a restore of the old job may still read (`controller.go:526-529`).
* `Uploader`: `Shutdown` can panic.  `uploader.go:167` closes the channel on
  which a backoff timer (`:262`) sends.
* `OversubManager`: `Free` is not safe against `Free`.  `oversub.go:188` acts on a
  reading of `swapUsedMiB` that may be stale, and the split goes wrong.
* `Migration`: a failed dump or transfer leaves the source stopped;
  `k8s_exec.go:213` resumes it only when the restore failed.
* `Billing`: an interval that was lost is never made up; `AlertFired` is never
  set, so the alert repeats with every record.  Behind the rejected query, and so
  not in the model: it sums by department only, and a soft limit of 0 gives a
  NULL percentage that does not scan.  `allocRatio` is not in the CRD schema, and a
  whole number would not be read as a float (`main.go:123`), so jobs are billed
  for whole GPUs.  The hook registered at `cmd/billing-engine/main.go:239` has no
  result, while `AlertHook` returns an error; the model takes the hook as one
  that may fail.
* `Webhook`: the handler decodes with `encoding/json`, which makes every number a
  float64, and `NestedInt64` does not take one, so the ranges of
  `intervalSeconds` and `maxSnapshots` are enforced by the CRD schema alone.  The
  validation of `allocRatio` and of quota limits that `main.go:59-62` announces
  is not there.  Init containers get no libvgpu.
* `SchedulerExtender`: the filter compares with all a node can allocate; binpack
  looks at the request and the size of a node, not at its use; with `NodeNames`
  instead of `Nodes` a request for a vGPU gets an empty answer.
* `DevicePlugin`: GPUs are discovered once (`main.go:484`), so one that comes back
  later is not offered before the plugin starts again; the plugin does not register again after a restart of the kubelet (`Orphaned`); slices are
  named by index, and after a GPU is lost an index may mean another GPU, so
  `GPUNotOverpromised` and `GrantVisible` hold while nothing has moved.  A
  container that sets `NVIDIA_VISIBLE_DEVICES` or `VGPU_MEMORY_LIMIT_MIB` itself
  overrides the plugin, and one that sets `LD_PRELOAD` and was not seen by the
  webhook runs without libvgpu.  The limits of slices of several GPUs are added
  up; `nvidia.com/vgpu-memory` is
  never registered.
* `VramQuota`: the device plugin sets `VGPU_MEMORY_LIMIT_MIB` (`main.go:282`) and
  libvgpu reads `PHOENIX_VRAM_LIMIT_MB` (`hook.c:183`), so in a deployment no
  limit is in force; the run checks both values.  Frees and exits are never
  subtracted (`cuda_hook.c:88-93` counts on a sampler thread that does not
  exist), so a long-lived container runs out of quota; `PHOENIX_POD_UID` is never
  set, so the file is `/tmp/phoenix-default.shm`.  A process that found the file
  without its magic number may clear it after two others have written to it
  (`hook.c:220-228`): what they hold is then outside the limit, and a late write
  brings part of the account back (`restored`).  As it stands,
  the constructor crashes under `LD_PRELOAD` (`hook.c:70`, see section 2).
* One more in the hazard list without a property: a checkpoint that ends late
  patches a Failed or Restoring job back to Running (`controller.go:546`).

## 6. Not modelled, and the plan

Left out of the modelled components: the lookup of the process to dump (its
outcome is one nondeterministic guard), command lines, log and metric calls, the
`onNodeFailure` and `maxSnapshots` fields of the CRD (no code reads them), the
upload of what the controller dumps (no code calls the pool), the build tags
that select real implementations, the sets of file names (a second dump whose
files have other names leaves the old ones beside the new), `LRUTracker` (one
mutex throughout), prices and TFlops, the SM throttle of libvgpu (nothing writes
the utilisation it reads) and its meter and NVML view, the reads of the cluster
client that make one query and convert it, the HTTP handlers of the API server
and its rate limiter.

Not at all: the web UI, charts and scripts (no behaviour of the system),
generated and stub files, the shared API types.

The plan has left: a refinement of `SnapshotStore` to an abstract store whose
Saves and Loads are single steps; lemmas about the handlers of the webhook and
the extender for inputs of every size; `LRUTracker`, once code calls it.
