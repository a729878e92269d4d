---------------------------- MODULE ClusterClient ----------------------------
(***************************************************************************)
(* pkg/k8s/client.go: the API server's view of the cluster.  Requests run  *)
(* concurrently.  ListGPUNodes walks the metrics of the nodes, each behind *)
(* a MetricsCache that is created on first use and refreshed under its     *)
(* lock; GetClusterSummary puts together two lists and one query, any of   *)
(* which may fail.  The Kubernetes API and Prometheus are external.        *)
(*                                                                         *)
(* Time is discrete, and only fetches take any: local steps are instant.   *)
(* A key is a node and a metric, "node:util" say.                          *)
(***************************************************************************)
EXTENDS Integers, Sequences, FiniteSets

CONSTANTS
  Callers, Keys,
  TTL,            \* 15 s
  FetchTimeout    \* 5 s, the deadline of a fetch and the HTTP client's timeout

ASSUME ClientAssumption ==
  /\ IsFiniteSet(Callers) /\ Keys # {}
  /\ TTL \in Nat \ {0} /\ FetchTimeout \in Nat \ {0}

VARIABLES
  cached,     \* utilCaches and the fields of each MetricsCache
  queue,      \* callers that hold (the first) or wait for the lock of a cache
  pc,
  left,       \* keys whose metric the call has not asked for yet
  key,        \* the key the call is at
  elapsed,    \* time the fetch of the call has lasted
  parts,      \* what a summary has so far
  (* History.                                                              *)
  known,      \* keys of which some call has had a value
  waited,     \* time the call has spent on the key it is at
  answer      \* outcome of the last Get of each caller

vars == <<cached, queue, pc, left, key, elapsed, parts, known, waited, answer>>

(* Ages stop where nothing depends on them any more.                       *)
MaxAge == TTL + FetchTimeout
Older(a, limit) == IF a < limit THEN a + 1 ELSE a

(* age is time.Since(fetchedAt); sampled is the age of the reading itself. *)
Cache == [exists : BOOLEAN, hasValue : BOOLEAN, age : 0 .. TTL, sampled : 0 .. MaxAge]
NoCache == [exists |-> FALSE, hasValue |-> FALSE, age |-> 0, sampled |-> 0]
EmptyCache == [NoCache EXCEPT !.exists = TRUE]

Answer == [kind : {"none", "fresh", "stale", "error"}, sampled : 0 .. MaxAge]
NoAnswer == [kind |-> "none", sampled |-> 0]

Parts == {"nodes", "jobs", "util"}
NoParts == [p \in Parts |-> "pending"]

TypeOK ==
  /\ cached \in [Keys -> Cache]
  /\ queue \in [Keys -> Seq(Callers)]
  /\ pc \in [Callers -> {"idle", "next", "create", "get", "lock", "fetch", "summary"}]
  /\ left \in [Callers -> SUBSET Keys]
  /\ key \in [Callers -> Keys]
  /\ elapsed \in [Callers -> 0 .. FetchTimeout]
  /\ parts \in [Callers -> [Parts -> {"pending", "ok", "failed"}]]
  /\ known \subseteq Keys
  /\ waited \in [Callers -> Nat]
  /\ answer \in [Callers -> Answer]

Init ==
  /\ cached = [k \in Keys |-> NoCache]
  /\ queue = [k \in Keys |-> <<>>]
  /\ pc = [c \in Callers |-> "idle"]
  /\ left = [c \in Callers |-> {}]
  /\ key = [c \in Callers |-> CHOOSE k \in Keys : TRUE]
  /\ elapsed = [c \in Callers |-> 0]
  /\ parts = [c \in Callers |-> NoParts]
  /\ known = {}
  /\ waited = [c \in Callers |-> 0]
  /\ answer = [c \in Callers |-> NoAnswer]

Fresh(k) == cached[k].hasValue /\ cached[k].age < TTL

(*------------------------------ ListGPUNodes ------------------------------*)
(* listRawNodes has answered; when it fails the call ends there.           *)
StartList(c) ==
  /\ pc[c] = "idle"
  /\ pc' = [pc EXCEPT ![c] = "next"]
  /\ left' = [left EXCEPT ![c] = Keys]
  /\ UNCHANGED <<cached, queue, key, elapsed, parts, known, waited, answer>>

(* getNodeMetrics ranges over a map, in any order; getOrCreateCache looks  *)
(* the cache up under the read lock.                                       *)
NextKey(c) ==
  /\ pc[c] = "next"
  /\ \E k \in left[c] :
       /\ left' = [left EXCEPT ![c] = @ \ {k}]
       /\ key' = [key EXCEPT ![c] = k]
       /\ pc' = [pc EXCEPT ![c] = IF cached[k].exists THEN "get" ELSE "create"]
  /\ waited' = [waited EXCEPT ![c] = 0]
  /\ answer' = [answer EXCEPT ![c] = NoAnswer]
  /\ UNCHANGED <<cached, queue, elapsed, parts, known>>

EndList(c) ==
  /\ pc[c] = "next" /\ left[c] = {}
  /\ pc' = [pc EXCEPT ![c] = "idle"]
  /\ waited' = [waited EXCEPT ![c] = 0]
  /\ answer' = [answer EXCEPT ![c] = NoAnswer]
  /\ UNCHANGED <<cached, queue, left, key, elapsed, parts, known>>

(* Mutant: the map is not looked at again under the write lock.            *)
CreateAnyway(c) ==
  /\ pc[c] = "create"
  /\ cached' = [cached EXCEPT ![key[c]] = EmptyCache]
  /\ pc' = [pc EXCEPT ![c] = "get"]
  /\ UNCHANGED <<queue, left, key, elapsed, parts, known, waited, answer>>

(* getOrCreateCache under the write lock.                                  *)
CreateCache(c) ==
  /\ pc[c] = "create"
  /\ cached' = IF cached[key[c]].exists THEN cached
               ELSE [cached EXCEPT ![key[c]] = EmptyCache]
  /\ pc' = [pc EXCEPT ![c] = "get"]
  /\ UNCHANGED <<queue, left, key, elapsed, parts, known, waited, answer>>

(*--------------------------------- Get ------------------------------------*)
(* A value or an error; the metric is skipped after an error.              *)
Answered(c, kind, sampled) ==
  /\ answer' = [answer EXCEPT ![c] = [kind |-> kind, sampled |-> sampled]]
  /\ known' = IF kind = "error" THEN known ELSE known \cup {key[c]}
  /\ pc' = [pc EXCEPT ![c] = "next"]
  /\ elapsed' = [elapsed EXCEPT ![c] = 0]

At(c, k, label) == key[c] = k /\ pc[c] = label
Fetching(k) == \E c \in Callers : At(c, k, "fetch")
Unlocked(k) == queue' = [queue EXCEPT ![k] = Tail(@)]

(* Under the read lock, which is not to be had during a fetch.             *)
GetCached(c) ==
  /\ pc[c] = "get" /\ ~Fetching(key[c])
  /\ Fresh(key[c])
  /\ Answered(c, "fresh", cached[key[c]].sampled)
  /\ UNCHANGED <<cached, queue, left, key, parts, waited>>

(* The write lock goes from one to the next in the order of arrival.       *)
WaitForLock(c) ==
  /\ pc[c] = "get" /\ ~Fetching(key[c])
  /\ ~Fresh(key[c])
  /\ queue' = [queue EXCEPT ![key[c]] = Append(@, c)]
  /\ pc' = [pc EXCEPT ![c] = "lock"]
  /\ UNCHANGED <<cached, left, key, elapsed, parts, known, waited, answer>>

(* A writer that unlocks lets the readers that wait go first.              *)
Locked(c) ==
  /\ pc[c] = "lock" /\ Head(queue[key[c]]) = c
  /\ \A d \in Callers : ~At(d, key[c], "get")

(* Mutant: a writer that waited fetches without another look.              *)
FetchAnyway(c) ==
  /\ Locked(c)
  /\ pc' = [pc EXCEPT ![c] = "fetch"]
  /\ UNCHANGED <<cached, queue, left, key, elapsed, parts, known, waited, answer>>

DoubleCheck(c) ==
  /\ Locked(c)
  /\ IF Fresh(key[c])
       THEN /\ Answered(c, "fresh", cached[key[c]].sampled)
            /\ Unlocked(key[c])
       ELSE /\ pc' = [pc EXCEPT ![c] = "fetch"]
            /\ UNCHANGED <<queue, elapsed, known, answer>>
  /\ UNCHANGED <<cached, left, key, parts, waited>>

(* Prometheus took its reading somewhere between request and answer.       *)
FetchSucceeds(c) ==
  /\ pc[c] = "fetch"
  /\ \E s \in 0 .. elapsed[c] :
       /\ cached' = [cached EXCEPT ![key[c]] = [exists |-> TRUE, hasValue |-> TRUE,
                                                age |-> 0, sampled |-> s]]
       /\ Answered(c, "fresh", s)
  /\ Unlocked(key[c])
  /\ UNCHANGED <<left, key, parts, waited>>

(* Mutant: a failed fetch counts as a refresh, to spare Prometheus.        *)
FetchFailsRestamps(c) ==
  /\ pc[c] = "fetch"
  /\ IF cached[key[c]].hasValue
       THEN Answered(c, "stale", cached[key[c]].sampled)
       ELSE Answered(c, "error", 0)
  /\ cached' = [cached EXCEPT ![key[c]].age = 0]
  /\ Unlocked(key[c])
  /\ UNCHANGED <<left, key, parts, waited>>

(* Mutant: a failed fetch is tried again under the lock.                   *)
FetchFailsRetries(c) ==
  /\ pc[c] = "fetch"
  /\ elapsed' = [elapsed EXCEPT ![c] = 0]
  /\ UNCHANGED <<cached, queue, pc, left, key, parts, known, waited, answer>>

(* An error, the deadline, or a request whose client has gone.             *)
FetchFails(c) ==
  /\ pc[c] = "fetch"
  /\ IF cached[key[c]].hasValue
       THEN Answered(c, "stale", cached[key[c]].sampled)
       ELSE Answered(c, "error", 0)
  /\ Unlocked(key[c])
  /\ UNCHANGED <<cached, left, key, parts, waited>>

(*--------------------------- GetClusterSummary ----------------------------*)
StartSummary(c) ==
  /\ pc[c] = "idle"
  /\ pc' = [pc EXCEPT ![c] = "summary"]
  /\ parts' = [parts EXCEPT ![c] = NoParts]
  /\ UNCHANGED <<cached, queue, left, key, elapsed, known, waited, answer>>

(* Mutant: a list that failed keeps the summary waiting.                   *)
PartEndsInSuccess(c) ==
  /\ pc[c] = "summary"
  /\ \E p \in Parts, r \in {"ok", "failed"} :
       /\ parts[c][p] = "pending"
       /\ p = "util" => \A q \in {"nodes", "jobs"} : parts[c][q] = "ok"
       /\ parts' = [parts EXCEPT ![c][p] = r]
  /\ UNCHANGED <<cached, queue, pc, left, key, elapsed, known, waited, answer>>

(* The two lists in goroutines of their own, the query once both are in.   *)
PartEnds(c) ==
  /\ pc[c] = "summary"
  /\ \E p \in Parts, r \in {"ok", "failed"} :
       /\ parts[c][p] = "pending"
       /\ p = "util" => \A q \in {"nodes", "jobs"} : parts[c][q] # "pending"
       /\ parts' = [parts EXCEPT ![c][p] = r]
  /\ UNCHANGED <<cached, queue, pc, left, key, elapsed, known, waited, answer>>

(* BuildClusterSummary of what there is: a list that failed counts zero.   *)
EndSummary(c) ==
  /\ pc[c] = "summary" /\ \A p \in Parts : parts[c][p] # "pending"
  /\ pc' = [pc EXCEPT ![c] = "idle"]
  /\ parts' = [parts EXCEPT ![c] = NoParts]
  /\ UNCHANGED <<cached, queue, left, key, elapsed, known, waited, answer>>

(*--------------------------------- time -----------------------------------*)
InGet(c) == pc[c] \in {"get", "lock", "fetch"}

(* Only a cache with a value has an age.                                   *)
Aged ==
  cached' = [k \in Keys |->
               IF cached[k].hasValue
                 THEN [cached[k] EXCEPT !.age = Older(@, TTL), !.sampled = Older(@, MaxAge)]
                 ELSE cached[k]]

(* Time passes for callers that fetch, or wait for one that does.          *)
Tick ==
  /\ \A c \in Callers :
       /\ pc[c] \notin {"next", "create"}
       /\ InGet(c) => Fetching(key[c])
       /\ pc[c] = "fetch" => elapsed[c] < FetchTimeout
  /\ Aged
  /\ elapsed' = [c \in Callers |-> IF pc[c] = "fetch" THEN elapsed[c] + 1 ELSE elapsed[c]]
  /\ waited' = [c \in Callers |-> IF InGet(c) THEN waited[c] + 1 ELSE waited[c]]
  /\ UNCHANGED <<queue, pc, left, key, parts, known, answer>>

Get(c) ==
  \/ GetCached(c) \/ WaitForLock(c) \/ DoubleCheck(c) \/ FetchSucceeds(c) \/ FetchFails(c)

Call(c) ==
  \/ NextKey(c) \/ EndList(c) \/ CreateCache(c) \/ Get(c) \/ PartEnds(c) \/ EndSummary(c)

Next == Tick \/ \E c \in Callers : StartList(c) \/ StartSummary(c) \/ Call(c)

(* Goroutines run, a fetch ends by its deadline, a List is answered.  A    *)
(* writer that waits for an RWMutex excludes new readers: it gets a turn. *)
Spec ==
  /\ Init /\ [][Next]_vars
  /\ \A c \in Callers : WF_vars(Call(c)) /\ SF_vars(DoubleCheck(c))

-----------------------------------------------------------------------------
(* A value served as fresh was read at most the TTL and one fetch ago,     *)
(* however many failed refreshes lie in between.                           *)
ServedNotTooOld ==
  \A c \in Callers : answer[c].kind = "fresh" => answer[c].sampled < TTL + FetchTimeout

(* "never propagates transient errors": once any call has had a value for  *)
(* a metric no call fails on it, the one that created its cache included.  *)
NoErrorOnceKnown ==
  [][\A c \in Callers :
       pc[c] = "fetch" /\ answer'[c].kind = "error" => key[c] \notin known]_vars

(* Callers that find a stale value together do not each refresh it: from   *)
(* one refresh to the next at least the TTL passes.                        *)
RefreshesSpaced ==
  [][\A c \in Callers :
       (pc[c] = "fetch" /\ answer'[c].kind = "fresh") => ~Fresh(key[c])]_vars

(* With Prometheus silent the callers of one metric time out one after the *)
(* other, but none waits for more than the fetch it met, one of each other *)
(* caller and its own.                                                     *)
WaitBounded ==
  \A c \in Callers : waited[c] <= (Cardinality(Callers) + 1) * FetchTimeout

(* Whatever fails, every request is answered.                              *)
InCall(c) == pc[c] # "idle"
EveryCallReturns == \A c \in Callers : InCall(c) ~> ~InCall(c)
=============================================================================
