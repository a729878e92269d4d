------------------------- MODULE ClusterClientProofs -------------------------
(***************************************************************************)
(* Proofs about the cluster client, for every set of callers and metrics,  *)
(* every TTL and every deadline.                                           *)
(*                                                                         *)
(* Most of the inductive invariant is about the write lock: whoever waits  *)
(* is in the queue, and whoever fetches is its head and found the value    *)
(* stale, so no value is replaced behind the back of a fetch.  What a      *)
(* caller has waited for is bounded by its place in the queue.             *)
(***************************************************************************)
EXTENDS ClusterClient, FiniteSetTheorems, TLAPS

InQueue(c) == \E i \in 1 .. Len(queue[key[c]]) : queue[key[c]][i] = c
Queued == \A c \in Callers : pc[c] \in {"lock", "fetch"} => InQueue(c)
HolderFirst ==
  \A c \in Callers : pc[c] = "fetch" => queue[key[c]] # <<>> /\ Head(queue[key[c]]) = c
HolderFoundStale == \A c \in Callers : pc[c] = "fetch" => ~Fresh(key[c])
LockInv == Queued /\ HolderFirst /\ HolderFoundStale

KnownCached == \A k \in known : cached[k].hasValue
ValueExists == \A k \in Keys : cached[k].hasValue => cached[k].exists
NotYetAnswered ==
  \A c \in Callers : pc[c] \in {"create", "get", "lock", "fetch"} => answer[c].kind = "none"
SampledNearAge ==
  \A k \in Keys : cached[k].hasValue => cached[k].sampled <= cached[k].age + FetchTimeout
CacheInv ==
  KnownCached /\ ValueExists /\ NotYetAnswered /\ SampledNearAge /\ ServedNotTooOld

ClientInv == TypeOK /\ LockInv /\ CacheInv

(* The head of the queue is in the queue: its removal is a Tail.           *)
LEMMA Head1 ==
  ASSUME NEW q \in Seq(Callers), q # <<>>
  PROVE  /\ Tail(q) \in Seq(Callers)
         /\ Head(q) = q[1] /\ Len(q) >= 1
         /\ Len(Tail(q)) = Len(q) - 1
         /\ \A i \in 1 .. Len(q) - 1 : Tail(q)[i] = q[i + 1]
  OBVIOUS

LEMMA TailKeepsOthers ==
  ASSUME NEW q \in Seq(Callers), q # <<>>,
         NEW d, d # Head(q), \E i \in 1 .. Len(q) : q[i] = d
  PROVE  \E i \in 1 .. Len(Tail(q)) : Tail(q)[i] = d
<1>1. PICK i \in 1 .. Len(q) : q[i] = d
  OBVIOUS
<1>2. i # 1 /\ i - 1 \in 1 .. Len(q) - 1
  BY <1>1, Head1
<1>3. Tail(q)[i - 1] = d /\ i - 1 \in 1 .. Len(Tail(q))
  BY <1>1, <1>2, Head1
<1> QED
  BY <1>3

LEMMA InitInv == Init => ClientInv
<1> SUFFICES ASSUME Init PROVE ClientInv
  OBVIOUS
<1> USE ClientAssumption
<1>1. TypeOK
  <2>1. (CHOOSE k \in Keys : TRUE) \in Keys
    OBVIOUS
  <2>2. NoCache \in Cache /\ NoAnswer \in Answer
    BY DEF NoCache, Cache, NoAnswer, Answer, MaxAge
  <2>3. NoParts \in [Parts -> {"pending", "ok", "failed"}]
    BY DEF NoParts
  <2> QED
    BY <2>1, <2>2, <2>3 DEF Init, TypeOK
<1>2. LockInv
  BY DEF Init, LockInv, Queued, HolderFirst, HolderFoundStale
<1>3. CacheInv
  BY DEF Init, CacheInv, KnownCached, ValueExists, NotYetAnswered, SampledNearAge,
         ServedNotTooOld, NoCache, NoAnswer
<1> QED
  BY <1>1, <1>2, <1>3 DEF ClientInv

(*---------------------------- type correctness ----------------------------*)
(* An outcome of Get keeps the types; the caller leaves it.                *)
LEMMA AnsweredType ==
  ASSUME TypeOK, NEW c \in Callers, NEW kind \in {"fresh", "stale", "error"},
         NEW s \in 0 .. MaxAge, Answered(c, kind, s)
  PROVE  /\ answer' \in [Callers -> Answer]
         /\ known' \subseteq Keys
         /\ pc' \in [Callers -> {"idle", "next", "create", "get", "lock", "fetch", "summary"}]
         /\ elapsed' \in [Callers -> 0 .. FetchTimeout]
<1> USE ClientAssumption
<1>1. [kind |-> kind, sampled |-> s] \in Answer
  BY DEF Answer
<1>2. key[c] \in Keys
  BY DEF TypeOK
<1> QED
  BY <1>1, <1>2 DEF TypeOK, Answered

LEMMA UnlockedType ==
  ASSUME TypeOK, NEW k \in Keys, queue[k] # <<>>, Unlocked(k)
  PROVE  queue' \in [Keys -> Seq(Callers)]
<1>1. Tail(queue[k]) \in Seq(Callers)
  BY Head1 DEF TypeOK
<1> QED
  BY <1>1 DEF TypeOK, Unlocked

LEMMA HeldNotEmpty ==
  ASSUME TypeOK, Queued, NEW c \in Callers, pc[c] \in {"lock", "fetch"}
  PROVE  queue[key[c]] # <<>> /\ key[c] \in Keys
<1>1. PICK i \in 1 .. Len(queue[key[c]]) : queue[key[c]][i] = c
  BY DEF Queued, InQueue
<1>2. key[c] \in Keys /\ queue[key[c]] \in Seq(Callers)
  BY DEF TypeOK
<1> QED
  BY <1>1, <1>2

LEMMA ListType ==
  ASSUME TypeOK, NEW c \in Callers, StartList(c) \/ NextKey(c) \/ EndList(c) \/ CreateCache(c)
  PROVE  TypeOK'
<1> USE ClientAssumption
<1>0. NoAnswer \in Answer
  BY DEF NoAnswer, Answer, MaxAge
<1>1. CASE StartList(c)
  BY <1>1 DEF StartList, TypeOK
<1>2. CASE NextKey(c)
  <2>1. PICK k \in left[c] :
          /\ left' = [left EXCEPT ![c] = @ \ {k}]
          /\ key' = [key EXCEPT ![c] = k]
          /\ pc' = [pc EXCEPT ![c] = IF cached[k].exists THEN "get" ELSE "create"]
    BY <1>2 DEF NextKey
  <2>2. k \in Keys /\ left[c] \in SUBSET Keys
    BY DEF TypeOK
  <2>3. key' \in [Callers -> Keys] /\ left' \in [Callers -> SUBSET Keys]
    BY <2>1, <2>2 DEF TypeOK
  <2>4. pc' \in [Callers -> {"idle", "next", "create", "get", "lock", "fetch", "summary"}]
    BY <2>1 DEF TypeOK
  <2>5. waited' \in [Callers -> Nat] /\ answer' \in [Callers -> Answer]
    BY <1>0, <1>2 DEF NextKey, TypeOK
  <2> QED
    BY <1>2, <2>3, <2>4, <2>5 DEF NextKey, TypeOK
<1>3. CASE EndList(c)
  BY <1>0, <1>3 DEF EndList, TypeOK
<1>4. CASE CreateCache(c)
  <2>1. EmptyCache \in Cache
    <3>1. NoCache \in Cache
      BY DEF NoCache, Cache, MaxAge
    <3> QED
      BY <3>1 DEF EmptyCache, Cache
  <2>2. key[c] \in Keys
    BY DEF TypeOK
  <2> QED
    BY <1>4, <2>1, <2>2 DEF CreateCache, TypeOK
<1> QED
  BY <1>1, <1>2, <1>3, <1>4

LEMMA GetType ==
  ASSUME TypeOK, Queued, NEW c \in Callers, Get(c)
  PROVE  TypeOK'
<1> USE ClientAssumption
<1>1. key[c] \in Keys /\ cached[key[c]] \in Cache
  BY DEF TypeOK
<1>2. cached[key[c]].sampled \in 0 .. MaxAge
  BY <1>1 DEF Cache
<1>3. CASE GetCached(c)
  BY <1>2, <1>3, AnsweredType DEF GetCached, TypeOK
<1>4. CASE WaitForLock(c)
  <2>1. Append(queue[key[c]], c) \in Seq(Callers)
    BY <1>1 DEF TypeOK
  <2> QED
    BY <1>1, <1>4, <2>1 DEF WaitForLock, TypeOK
<1>5. CASE DoubleCheck(c)
  <2>1. pc[c] = "lock"
    BY <1>5 DEF DoubleCheck, Locked
  <2>2. CASE Fresh(key[c])
    <3>1. Answered(c, "fresh", cached[key[c]].sampled) /\ Unlocked(key[c])
      BY <1>5, <2>2 DEF DoubleCheck
    <3>2. queue' \in [Keys -> Seq(Callers)]
      BY <2>1, <3>1, HeldNotEmpty, UnlockedType
    <3> QED
      BY <1>2, <1>5, <3>1, <3>2, AnsweredType DEF DoubleCheck, TypeOK
  <2>3. CASE ~Fresh(key[c])
    BY <1>5, <2>3 DEF DoubleCheck, TypeOK
  <2> QED
    BY <2>2, <2>3
<1>6. CASE FetchSucceeds(c)
  <2>1. PICK s \in 0 .. elapsed[c] :
          /\ cached' = [cached EXCEPT ![key[c]] = [exists |-> TRUE, hasValue |-> TRUE,
                                                   age |-> 0, sampled |-> s]]
          /\ Answered(c, "fresh", s)
    BY <1>6 DEF FetchSucceeds
  <2>2. s \in 0 .. MaxAge
    BY DEF TypeOK, MaxAge
  <2>3. cached' \in [Keys -> Cache]
    <3>1. [exists |-> TRUE, hasValue |-> TRUE, age |-> 0, sampled |-> s] \in Cache
      BY <2>2 DEF Cache
    <3> QED
      BY <2>1, <3>1 DEF TypeOK
  <2>4. queue' \in [Keys -> Seq(Callers)]
    BY <1>6, HeldNotEmpty, UnlockedType DEF FetchSucceeds
  <2> QED
    BY <1>6, <2>1, <2>2, <2>3, <2>4, AnsweredType DEF FetchSucceeds, TypeOK
<1>7. CASE FetchFails(c)
  <2>1. queue' \in [Keys -> Seq(Callers)]
    BY <1>7, HeldNotEmpty, UnlockedType DEF FetchFails
  <2>2. 0 \in 0 .. MaxAge
    BY DEF MaxAge
  <2>3. PICK kind \in {"fresh", "stale", "error"}, s \in 0 .. MaxAge : Answered(c, kind, s)
    BY <1>2, <1>7, <2>2 DEF FetchFails
  <2> QED
    BY <1>7, <2>1, <2>3, AnsweredType DEF FetchFails, TypeOK
<1> QED
  BY <1>3, <1>4, <1>5, <1>6, <1>7 DEF Get

LEMMA SummaryType ==
  ASSUME TypeOK, NEW c \in Callers, StartSummary(c) \/ PartEnds(c) \/ EndSummary(c)
  PROVE  TypeOK'
<1>0. NoParts \in [Parts -> {"pending", "ok", "failed"}]
  BY DEF NoParts
<1>1. CASE StartSummary(c)
  BY <1>0, <1>1 DEF StartSummary, TypeOK
<1>2. CASE PartEnds(c)
  <2>1. PICK p \in Parts, r \in {"ok", "failed"} :
          parts' = [parts EXCEPT ![c] = [parts[c] EXCEPT ![p] = r]]
    BY <1>2 DEF PartEnds
  <2>2. [parts[c] EXCEPT ![p] = r] \in [Parts -> {"pending", "ok", "failed"}]
    BY DEF TypeOK
  <2>3. parts' \in [Callers -> [Parts -> {"pending", "ok", "failed"}]]
    BY <2>1, <2>2 DEF TypeOK
  <2> QED
    BY <1>2, <2>3 DEF PartEnds, TypeOK
<1>3. CASE EndSummary(c)
  BY <1>0, <1>3 DEF EndSummary, TypeOK
<1> QED
  BY <1>1, <1>2, <1>3

LEMMA TickType == TypeOK /\ Tick => TypeOK'
<1> SUFFICES ASSUME TypeOK, Tick PROVE TypeOK'
  OBVIOUS
<1> USE ClientAssumption
<1>1. ASSUME NEW k \in Keys PROVE cached'[k] \in Cache
  <2>1. cached[k] \in Cache
    BY DEF TypeOK
  <2>2. CASE cached[k].hasValue
    <3>1. cached'[k] = [cached[k] EXCEPT !.age = Older(cached[k].age, TTL),
                                         !.sampled = Older(cached[k].sampled, MaxAge)]
      BY <2>2 DEF Tick, Aged
    <3>2. /\ Older(cached[k].age, TTL) \in 0 .. TTL
          /\ Older(cached[k].sampled, MaxAge) \in 0 .. MaxAge
      BY <2>1 DEF Older, Cache, MaxAge
    <3> QED
      BY <2>1, <3>1, <3>2 DEF Cache
  <2>3. CASE ~cached[k].hasValue
    BY <2>1, <2>3 DEF Tick, Aged
  <2> QED
    BY <2>2, <2>3
<1>2. cached' \in [Keys -> Cache]
  BY <1>1 DEF Tick, Aged
<1>3. elapsed' \in [Callers -> 0 .. FetchTimeout]
  BY DEF Tick, TypeOK
<1> QED
  BY <1>2, <1>3 DEF Tick, TypeOK

LEMMA NextType == TypeOK /\ Queued /\ [Next]_vars => TypeOK'
<1> SUFFICES ASSUME TypeOK, Queued, [Next]_vars PROVE TypeOK'
  OBVIOUS
<1>1. CASE Tick
  BY <1>1, TickType
<1>2. ASSUME NEW c \in Callers, StartList(c) \/ StartSummary(c) \/ Call(c) PROVE TypeOK'
  BY <1>2, ListType, GetType, SummaryType DEF Call
<1>3. CASE UNCHANGED vars
  BY <1>3 DEF vars, TypeOK
<1> QED
  BY <1>1, <1>2, <1>3 DEF Next

(*-------------------------------- the lock --------------------------------*)
(* A step that neither moves another caller nor touches the queues leaves  *)
(* the lock as it was.                                                     *)
LEMMA OthersKeepLock ==
  ASSUME TypeOK, LockInv, NEW c \in Callers,
         pc' \in [Callers -> {"idle", "next", "create", "get", "lock", "fetch", "summary"}],
         pc'[c] \notin {"lock", "fetch"},
         \A d \in Callers \ {c} : pc'[d] = pc[d] /\ key'[d] = key[d],
         queue' = queue,
         \A k \in Keys : Fresh(k)' => Fresh(k)
  PROVE  LockInv'
<1>1. \A d \in Callers : pc'[d] \in {"lock", "fetch"} =>
        d # c /\ pc[d] = pc'[d] /\ key'[d] = key[d] /\ key[d] \in Keys
  BY DEF TypeOK
<1>2. Queued'
  BY <1>1 DEF LockInv, Queued, InQueue
<1>3. HolderFirst'
  BY <1>1 DEF LockInv, HolderFirst
<1>4. HolderFoundStale'
  BY <1>1 DEF LockInv, HolderFoundStale
<1> QED
  BY <1>2, <1>3, <1>4 DEF LockInv

(* The head of a queue leaves it.  Only the head fetches, so no other      *)
(* fetch on that key is under way, and those on other keys see no change.  *)
LEMMA HeadLeaves ==
  ASSUME TypeOK, LockInv, NEW c \in Callers,
         pc[c] \in {"lock", "fetch"}, Head(queue[key[c]]) = c,
         pc' = [pc EXCEPT ![c] = "next"], key' = key, Unlocked(key[c]),
         \A k \in Keys \ {key[c]} : cached'[k] = cached[k]
  PROVE  LockInv'
<1>1. queue[key[c]] # <<>> /\ key[c] \in Keys /\ queue[key[c]] \in Seq(Callers)
  BY HeldNotEmpty DEF LockInv, TypeOK
<1>2. \A d \in Callers : pc'[d] \in {"lock", "fetch"} =>
        d # c /\ pc[d] = pc'[d] /\ key'[d] = key[d] /\ key[d] \in Keys
  BY DEF TypeOK
<1>3. \A k \in Keys : queue'[k] = IF k = key[c] THEN Tail(queue[k]) ELSE queue[k]
  BY DEF Unlocked, TypeOK
<1>4. ASSUME NEW d \in Callers, pc'[d] = "fetch" PROVE key[d] # key[c]
  BY <1>2, <1>4 DEF LockInv, HolderFirst
<1>5. ASSUME NEW d \in Callers, pc'[d] \in {"lock", "fetch"} PROVE InQueue(d)'
  <2>1. InQueue(d) /\ d # c /\ key'[d] = key[d] /\ key[d] \in Keys
    BY <1>2, <1>5 DEF LockInv, Queued
  <2>2. CASE key[d] = key[c]
    <3>1. \E i \in 1 .. Len(Tail(queue[key[c]])) : Tail(queue[key[c]])[i] = d
      BY <1>1, <2>1, <2>2, TailKeepsOthers DEF InQueue
    <3> QED
      BY <1>3, <2>1, <2>2, <3>1 DEF InQueue
  <2>3. CASE key[d] # key[c]
    BY <1>3, <2>1, <2>3 DEF InQueue
  <2> QED
    BY <2>2, <2>3
<1>6. Queued'
  BY <1>5 DEF Queued
<1>7. HolderFirst'
  BY <1>2, <1>3, <1>4 DEF LockInv, HolderFirst
<1>8. HolderFoundStale'
  BY <1>2, <1>4 DEF LockInv, HolderFoundStale, Fresh
<1> QED
  BY <1>6, <1>7, <1>8 DEF LockInv

LEMMA WaitForLockInv ==
  ASSUME TypeOK, LockInv, NEW c \in Callers, WaitForLock(c)
  PROVE  LockInv'
<1>0. PICK k \in Keys : k = key[c]
  BY DEF TypeOK
<1>1. queue[k] \in Seq(Callers) /\ pc'[c] = "lock" /\ key' = key
  BY DEF WaitForLock, TypeOK
<1>2. \A j \in Keys : queue'[j] = IF j = k THEN Append(queue[k], c) ELSE queue[j]
  BY <1>0 DEF WaitForLock, TypeOK
<1>3. \A d \in Callers \ {c} : pc'[d] = pc[d] /\ key[d] \in Keys
  BY DEF WaitForLock, TypeOK
<1>4. /\ Len(Append(queue[k], c)) = Len(queue[k]) + 1
      /\ Append(queue[k], c)[Len(queue[k]) + 1] = c
      /\ \A i \in 1 .. Len(queue[k]) : Append(queue[k], c)[i] = queue[k][i]
      /\ queue[k] # <<>> => Head(Append(queue[k], c)) = Head(queue[k])
      /\ Append(queue[k], c) # <<>>
  BY <1>1
<1>5. InQueue(c)'
  <2>0. Len(queue[k]) \in Nat
    BY <1>1
  <2>1. queue'[k] = Append(queue[k], c)
    BY <1>2, Zenon
  <2>2. Len(queue[k]) + 1 \in 1 .. Len(queue'[k])
    BY <1>4, <2>0, <2>1
  <2>3. queue'[k][Len(queue[k]) + 1] = c
    BY <1>4, <2>1
  <2>4. key'[c] = k
    BY <1>0, <1>1
  <2> QED
    BY <2>2, <2>3, <2>4 DEF InQueue
<1>6. ASSUME NEW d \in Callers \ {c}, InQueue(d) PROVE InQueue(d)'
  <2>1. PICK i \in 1 .. Len(queue[key[d]]) : queue[key[d]][i] = d
    BY <1>6 DEF InQueue
  <2>2. i \in 1 .. Len(queue'[key[d]]) /\ queue'[key[d]][i] = d
    <3>1. key[d] \in Keys /\ Len(queue[k]) \in Nat
      BY <1>1, <1>3
    <3>2. CASE key[d] = k
      <4>1. queue'[key[d]] = Append(queue[k], c)
        BY <1>2, <3>1, <3>2
      <4>2. i \in 1 .. Len(Append(queue[k], c)) /\ Append(queue[k], c)[i] = d
        BY <1>4, <2>1, <3>1, <3>2
      <4> QED
        BY <4>1, <4>2
    <3>3. CASE key[d] # k
      BY <1>2, <2>1, <3>1, <3>3
    <3> QED
      BY <3>2, <3>3
  <2> QED
    BY <1>1, <2>2 DEF InQueue
<1>7. Queued'
  BY <1>3, <1>5, <1>6 DEF LockInv, Queued
<1>8. HolderFirst'
  BY <1>0, <1>1, <1>2, <1>3, <1>4 DEF LockInv, HolderFirst
<1>9. HolderFoundStale'
  BY <1>1, <1>3 DEF LockInv, HolderFoundStale, WaitForLock, Fresh
<1> QED
  BY <1>7, <1>8, <1>9 DEF LockInv

LEMMA DoubleCheckInv ==
  ASSUME TypeOK, LockInv, NEW c \in Callers, DoubleCheck(c)
  PROVE  LockInv'
<1>1. pc[c] = "lock" /\ Head(queue[key[c]]) = c /\ key' = key /\ cached' = cached
  BY DEF DoubleCheck, Locked
<1>2. CASE Fresh(key[c])
  <2>1. pc' = [pc EXCEPT ![c] = "next"] /\ Unlocked(key[c])
    BY <1>2 DEF DoubleCheck, Answered
  <2> QED
    BY <1>1, <2>1, HeadLeaves
<1>3. CASE ~Fresh(key[c])
  <2>1. pc' = [pc EXCEPT ![c] = "fetch"] /\ queue' = queue
    BY <1>3 DEF DoubleCheck
  <2>2. queue[key[c]] # <<>> /\ InQueue(c)
    BY <1>1, HeldNotEmpty DEF LockInv, Queued
  <2>3. Queued'
    BY <1>1, <2>1, <2>2 DEF LockInv, Queued, InQueue, TypeOK
  <2>4. HolderFirst'
    BY <1>1, <2>1, <2>2 DEF LockInv, HolderFirst, TypeOK
  <2>5. HolderFoundStale'
    BY <1>1, <1>3, <2>1 DEF LockInv, HolderFoundStale, TypeOK, Fresh
  <2> QED
    BY <2>3, <2>4, <2>5 DEF LockInv
<1> QED
  BY <1>2, <1>3

(* A fetch ends and gives the lock back.                                   *)
LEMMA FetchEndsInv ==
  ASSUME TypeOK, LockInv, NEW c \in Callers, FetchSucceeds(c) \/ FetchFails(c)
  PROVE  LockInv'
<1>1. pc[c] = "fetch" /\ key' = key /\ Unlocked(key[c]) /\ pc' = [pc EXCEPT ![c] = "next"]
  BY DEF FetchSucceeds, FetchFails, Answered
<1>2. Head(queue[key[c]]) = c
  BY <1>1 DEF LockInv, HolderFirst
<1>3. \A k \in Keys \ {key[c]} : cached'[k] = cached[k]
  BY DEF FetchSucceeds, FetchFails, TypeOK
<1> QED
  BY <1>1, <1>2, <1>3, HeadLeaves

LEMMA LocalLockInv ==
  ASSUME TypeOK, TypeOK', LockInv, NEW c \in Callers,
         \/ StartList(c) \/ NextKey(c) \/ EndList(c) \/ CreateCache(c) \/ GetCached(c)
         \/ StartSummary(c) \/ PartEnds(c) \/ EndSummary(c)
  PROVE  LockInv'
<1>1. queue' = queue
  BY DEF StartList, NextKey, EndList, CreateCache, GetCached, StartSummary, PartEnds, EndSummary
<1>2. pc'[c] \notin {"lock", "fetch"}
  BY DEF StartList, NextKey, EndList, CreateCache, GetCached, Answered, StartSummary, PartEnds,
         EndSummary, TypeOK
<1>3. \A d \in Callers \ {c} : pc'[d] = pc[d] /\ key'[d] = key[d]
  BY DEF StartList, NextKey, EndList, CreateCache, GetCached, Answered, StartSummary, PartEnds,
         EndSummary, TypeOK
<1>4. \A k \in Keys : Fresh(k)' => Fresh(k)
  <2>1. CASE cached' = cached
    BY <2>1 DEF Fresh
  <2>2. CASE cached' = [cached EXCEPT ![key[c]] = EmptyCache]
    <3>1. ~EmptyCache.hasValue
      BY DEF EmptyCache, NoCache
    <3> QED
      BY <2>2, <3>1 DEF Fresh, TypeOK
  <2> QED
    BY <2>1, <2>2 DEF StartList, NextKey, EndList, CreateCache, GetCached, StartSummary,
                      PartEnds, EndSummary
<1>5. pc' \in [Callers -> {"idle", "next", "create", "get", "lock", "fetch", "summary"}]
  BY DEF TypeOK
<1> QED
  BY <1>1, <1>2, <1>3, <1>4, <1>5, OthersKeepLock

LEMMA TickLockInv == TypeOK /\ LockInv /\ Tick => LockInv'
<1> SUFFICES ASSUME TypeOK, LockInv, Tick PROVE LockInv'
  OBVIOUS
<1>1. \A k \in Keys : Fresh(k)' => Fresh(k)
  BY ClientAssumption DEF Tick, Aged, Fresh, Older, TypeOK, Cache
<1> QED
  BY <1>1 DEF Tick, LockInv, Queued, InQueue, HolderFirst, HolderFoundStale, TypeOK

LEMMA NextLockInv ==
  TypeOK /\ TypeOK' /\ LockInv /\ [Next]_vars => LockInv'
<1> SUFFICES ASSUME TypeOK, TypeOK', LockInv, [Next]_vars PROVE LockInv'
  OBVIOUS
<1>1. CASE Tick
  BY <1>1, TickLockInv
<1>2. ASSUME NEW c \in Callers, StartList(c) \/ StartSummary(c) \/ Call(c) PROVE LockInv'
  BY <1>2, LocalLockInv, WaitForLockInv, DoubleCheckInv, FetchEndsInv DEF Call, Get
<1>3. CASE UNCHANGED vars
  BY <1>3 DEF vars, LockInv, Queued, InQueue, HolderFirst, HolderFoundStale, Fresh
<1> QED
  BY <1>1, <1>2, <1>3 DEF Next

(*------------------------------- the caches -------------------------------*)
(* An answer is given for the key the caller is at.                        *)
LEMMA AnsweredInv ==
  ASSUME TypeOK, CacheInv, NEW c \in Callers, NEW kind, NEW s,
         Answered(c, kind, s), key' = key,
         kind = "error" \/ cached'[key[c]].hasValue,
         kind = "fresh" => s < TTL + FetchTimeout,
         \A k \in Keys : cached[k].hasValue => cached'[k].hasValue
  PROVE  KnownCached' /\ NotYetAnswered' /\ ServedNotTooOld'
<1>1. known \subseteq Keys /\ key[c] \in Keys
  BY DEF TypeOK
<1>2. KnownCached'
  BY <1>1 DEF CacheInv, KnownCached, Answered
<1>3. NotYetAnswered'
  BY DEF CacheInv, NotYetAnswered, Answered, TypeOK
<1>4. ServedNotTooOld'
  <2>1. answer'[c].kind = kind /\ answer'[c].sampled = s
    BY DEF Answered, TypeOK
  <2>2. \A d \in Callers \ {c} : answer'[d] = answer[d]
    BY DEF Answered, TypeOK
  <2> QED
    BY <2>1, <2>2 DEF CacheInv, ServedNotTooOld
<1> QED
  BY <1>2, <1>3, <1>4

LEMMA GetCacheInv ==
  ASSUME TypeOK, CacheInv, NEW c \in Callers, Get(c)
  PROVE  CacheInv'
<1> USE ClientAssumption
<1>1. key[c] \in Keys /\ cached[key[c]] \in Cache /\ key' = key
  BY DEF TypeOK, Get, GetCached, WaitForLock, DoubleCheck, FetchSucceeds, FetchFails
<1>2. ASSUME Fresh(key[c])
      PROVE  cached[key[c]].hasValue /\ cached[key[c]].sampled < TTL + FetchTimeout
  BY <1>1, <1>2 DEF Fresh, CacheInv, SampledNearAge, Cache, MaxAge
<1>3. CASE GetCached(c)
  <2>1. KnownCached' /\ NotYetAnswered' /\ ServedNotTooOld'
    BY <1>1, <1>2, <1>3, AnsweredInv DEF GetCached
  <2> QED
    BY <1>3, <2>1 DEF GetCached, CacheInv, ValueExists, SampledNearAge
<1>4. CASE WaitForLock(c)
  BY <1>4 DEF WaitForLock, CacheInv, KnownCached, ValueExists, NotYetAnswered, SampledNearAge,
              ServedNotTooOld, TypeOK
<1>5. CASE DoubleCheck(c)
  <2>1. CASE Fresh(key[c])
    <3>1. KnownCached' /\ NotYetAnswered' /\ ServedNotTooOld'
      BY <1>1, <1>2, <1>5, <2>1, AnsweredInv DEF DoubleCheck
    <3> QED
      BY <1>5, <3>1 DEF DoubleCheck, CacheInv, ValueExists, SampledNearAge
  <2>2. CASE ~Fresh(key[c])
    BY <1>5, <2>2 DEF DoubleCheck, Locked, CacheInv, KnownCached, ValueExists, NotYetAnswered,
                      SampledNearAge, ServedNotTooOld, TypeOK
  <2> QED
    BY <2>1, <2>2
<1>6. CASE FetchSucceeds(c)
  <2>1. PICK s \in 0 .. elapsed[c] :
          /\ cached' = [cached EXCEPT ![key[c]] = [exists |-> TRUE, hasValue |-> TRUE,
                                                   age |-> 0, sampled |-> s]]
          /\ Answered(c, "fresh", s)
    BY <1>6 DEF FetchSucceeds
  <2>2. s \in 0 .. FetchTimeout
    BY DEF TypeOK
  <2>3. /\ cached'[key[c]] = [exists |-> TRUE, hasValue |-> TRUE, age |-> 0, sampled |-> s]
        /\ \A k \in Keys \ {key[c]} : cached'[k] = cached[k]
    BY <1>1, <2>1 DEF TypeOK
  <2>4. KnownCached' /\ NotYetAnswered' /\ ServedNotTooOld'
    BY <1>1, <2>1, <2>2, <2>3, AnsweredInv
  <2>5. ValueExists' /\ SampledNearAge'
    BY <2>2, <2>3 DEF CacheInv, ValueExists, SampledNearAge
  <2> QED
    BY <2>4, <2>5 DEF CacheInv
<1>7. CASE FetchFails(c)
  <2>1. cached' = cached
    BY <1>7 DEF FetchFails
  <2>2. KnownCached' /\ NotYetAnswered' /\ ServedNotTooOld'
    <3>1. CASE cached[key[c]].hasValue
      BY <1>1, <1>7, <2>1, <3>1, AnsweredInv DEF FetchFails
    <3>2. CASE ~cached[key[c]].hasValue
      BY <1>1, <1>7, <2>1, <3>2, AnsweredInv DEF FetchFails
    <3> QED
      BY <3>1, <3>2
  <2> QED
    BY <2>1, <2>2 DEF CacheInv, ValueExists, SampledNearAge
<1> QED
  BY <1>3, <1>4, <1>5, <1>6, <1>7 DEF Get

(* A new cache replaces none: the look under the write lock.               *)
LEMMA CreateCacheInv ==
  ASSUME TypeOK, CacheInv, NEW c \in Callers, CreateCache(c)
  PROVE  CacheInv'
<1>1. key[c] \in Keys /\ known \subseteq Keys
  BY DEF TypeOK
<1>2. NotYetAnswered' /\ ServedNotTooOld'
  BY DEF CreateCache, CacheInv, NotYetAnswered, ServedNotTooOld, TypeOK
<1>3. CASE cached[key[c]].exists
  BY <1>2, <1>3 DEF CreateCache, CacheInv, KnownCached, ValueExists, SampledNearAge
<1>4. CASE ~cached[key[c]].exists
  <2>1. /\ ~cached[key[c]].hasValue /\ ~EmptyCache.hasValue
        /\ cached'[key[c]] = EmptyCache
        /\ \A k \in Keys \ {key[c]} : cached'[k] = cached[k]
    BY <1>1, <1>4 DEF CreateCache, CacheInv, ValueExists, TypeOK, EmptyCache, NoCache
  <2> QED
    BY <1>1, <1>2, <2>1 DEF CreateCache, CacheInv, KnownCached, ValueExists, SampledNearAge
<1> QED
  BY <1>3, <1>4

LEMMA TickCacheInv == TypeOK /\ CacheInv /\ Tick => CacheInv'
<1> SUFFICES ASSUME TypeOK, CacheInv, Tick PROVE CacheInv'
  OBVIOUS
<1> USE ClientAssumption
<1>1. known' = known /\ pc' = pc /\ answer' = answer /\ known \subseteq Keys
  BY DEF Tick, TypeOK
<1>2. ASSUME NEW k \in Keys
      PROVE  /\ cached'[k].hasValue = cached[k].hasValue
             /\ cached'[k].exists = cached[k].exists
             /\ cached[k].hasValue => cached'[k].sampled <= cached'[k].age + FetchTimeout
  <2>1. cached[k] \in Cache
    BY DEF TypeOK
  <2>2. CASE cached[k].hasValue
    <3>1. cached'[k] = [cached[k] EXCEPT !.age = Older(cached[k].age, TTL),
                                         !.sampled = Older(cached[k].sampled, MaxAge)]
      BY <2>2 DEF Tick, Aged
    <3>2. /\ cached'[k].hasValue = cached[k].hasValue
          /\ cached'[k].exists = cached[k].exists
          /\ cached'[k].age = Older(cached[k].age, TTL)
          /\ cached'[k].sampled = Older(cached[k].sampled, MaxAge)
      BY <2>1, <3>1 DEF Cache
    <3>3. cached[k].sampled <= cached[k].age + FetchTimeout
      BY <2>2 DEF CacheInv, SampledNearAge
    <3>4. Older(cached[k].sampled, MaxAge) <= Older(cached[k].age, TTL) + FetchTimeout
      BY <2>1, <3>3 DEF Older, Cache, MaxAge
    <3> QED
      BY <3>2, <3>4
  <2>3. CASE ~cached[k].hasValue
    BY <2>3 DEF Tick, Aged
  <2> QED
    BY <2>2, <2>3
<1>3. KnownCached' /\ ValueExists' /\ SampledNearAge'
  BY <1>1, <1>2 DEF CacheInv, KnownCached, ValueExists, SampledNearAge
<1>4. NotYetAnswered' /\ ServedNotTooOld'
  BY <1>1 DEF CacheInv, NotYetAnswered, ServedNotTooOld
<1> QED
  BY <1>3, <1>4 DEF CacheInv

LEMMA NextCacheInv == TypeOK /\ CacheInv /\ [Next]_vars => CacheInv'
<1> SUFFICES ASSUME TypeOK, CacheInv, [Next]_vars PROVE CacheInv'
  OBVIOUS
<1> USE DEF CacheInv, KnownCached, ValueExists, NotYetAnswered, SampledNearAge, ServedNotTooOld
<1>1. ASSUME NEW c \in Callers, NextKey(c) \/ EndList(c) PROVE CacheInv'
  <2>1. NoAnswer.kind = "none"
    BY DEF NoAnswer
  <2>2. cached' = cached /\ known' = known
        /\ answer' = [answer EXCEPT ![c] = NoAnswer]
        /\ \A d \in Callers \ {c} : pc'[d] = pc[d]
    BY <1>1 DEF NextKey, EndList, TypeOK
  <2> QED
    BY <2>1, <2>2 DEF TypeOK
<1>2. ASSUME NEW c \in Callers,
             StartList(c) \/ StartSummary(c) \/ PartEnds(c) \/ EndSummary(c)
      PROVE  CacheInv'
  BY <1>2 DEF StartList, StartSummary, PartEnds, EndSummary, TypeOK
<1>3. CASE UNCHANGED vars
  BY <1>3 DEF vars
<1> QED
  BY <1>1, <1>2, <1>3, CreateCacheInv, GetCacheInv, TickCacheInv DEF Next, Call

(*-------------------------------- theorems --------------------------------*)
LEMMA Invariance == Spec => []ClientInv
<1>1. ClientInv /\ [Next]_vars => ClientInv'
  <2> SUFFICES ASSUME ClientInv, [Next]_vars PROVE ClientInv'
    OBVIOUS
  <2>1. TypeOK'
    BY NextType DEF ClientInv, LockInv
  <2> QED
    BY <2>1, NextLockInv, NextCacheInv DEF ClientInv
<1> QED
  BY <1>1, InitInv, PTL DEF Spec

(* Every variable keeps its type, for every set of callers and metrics.    *)
THEOREM TypeCorrect == Spec => []TypeOK
  BY Invariance, PTL DEF ClientInv

(* What Get returns within the TTL was read at most the TTL and one fetch  *)
(* before, for every TTL and deadline.                                     *)
THEOREM FreshIsFresh == Spec => []ServedNotTooOld
  BY Invariance, PTL DEF ClientInv, CacheInv

(* A metric some request has had never fails for a later one: a cache is   *)
(* not created twice and never loses its value.                            *)
THEOREM NoErrorAgain == Spec => NoErrorOnceKnown
<1> DEFINE Step == \A c \in Callers :
                     pc[c] = "fetch" /\ answer'[c].kind = "error" => key[c] \notin known
<1>1. ClientInv /\ [Next]_vars => [Step]_vars
  <2> SUFFICES ASSUME ClientInv, [Next]_vars, NEW c \in Callers,
                      pc[c] = "fetch", answer'[c].kind = "error"
               PROVE  key[c] \notin known
    OBVIOUS
  <2>1. answer[c].kind = "none"
    BY DEF ClientInv, CacheInv, NotYetAnswered
  <2>2. PICK d \in Callers : StartList(d) \/ StartSummary(d) \/ Call(d)
    BY <2>1 DEF Next, vars, Tick
  <2>3. d = c
    <3>1. answer' = answer \/ answer' = [answer EXCEPT ![d] = answer'[d]]
      BY <2>2 DEF ClientInv, TypeOK, Call, Get, StartList, NextKey, EndList, CreateCache,
                  GetCached, WaitForLock, DoubleCheck, FetchSucceeds, FetchFails, Answered,
                  StartSummary, PartEnds, EndSummary
    <3> QED
      BY <2>1, <3>1 DEF ClientInv, TypeOK
  <2>4. FetchSucceeds(c) \/ FetchFails(c)
    BY <2>2, <2>3 DEF Call, Get, StartList, NextKey, EndList, CreateCache, GetCached,
                      WaitForLock, DoubleCheck, Locked, StartSummary, PartEnds, EndSummary
  <2>5. FetchFails(c)
    BY <2>4 DEF FetchSucceeds, Answered, ClientInv, TypeOK
  <2>6. ~cached[key[c]].hasValue
    BY <2>5 DEF FetchFails, Answered, ClientInv, TypeOK
  <2> QED
    BY <2>6 DEF ClientInv, CacheInv, KnownCached
<1> QED
  BY <1>1, Invariance, PTL DEF Spec, NoErrorOnceKnown

(* A refresh replaces a value that is older than the TTL, however many     *)
(* callers found it stale: the second look under the lock.                 *)
THEOREM RefreshesAreSpaced == Spec => RefreshesSpaced
<1> DEFINE Step == \A c \in Callers :
                     (pc[c] = "fetch" /\ answer'[c].kind = "fresh") => ~Fresh(key[c])
<1>1. ClientInv => Step
  BY DEF ClientInv, LockInv, HolderFoundStale
<1> QED
  BY <1>1, Invariance, PTL DEF Spec, RefreshesSpaced

(*------------------------- how long a caller waits -------------------------*)
(* The queue of a metric is a line without repetition: a caller at place i *)
(* can have met the fetch it found, and those of the callers that left the *)
(* line before it, beside the fetch under way.                             *)
N == Cardinality(Callers)
Budget(n) == n * FetchTimeout
Spent(k) == IF pc[queue[k][1]] = "fetch" THEN elapsed[queue[k][1]] ELSE 0

LineOnce ==
  \A k \in Keys : \A i, j \in 1 .. Len(queue[k]) : queue[k][i] = queue[k][j] => i = j
LineWaits ==
  \A k \in Keys : \A i \in 1 .. Len(queue[k]) :
    pc[queue[k][i]] \in {"lock", "fetch"} /\ key[queue[k][i]] = k
PlaceBound ==
  \A k \in Keys : \A i \in 1 .. Len(queue[k]) :
    waited[queue[k][i]] <= Budget(N - i + 1) + Spent(k)
MetOneFetch ==
  \A c \in Callers : pc[c] = "get" =>
    /\ waited[c] <= FetchTimeout
    /\ \A d \in Callers : At(d, key[c], "fetch") => waited[c] <= elapsed[d]
NotYetWaited == \A c \in Callers : pc[c] = "create" => waited[c] = 0
WaitedEnough ==
  \A c \in Callers : ~InGet(c) => waited[c] <= (Cardinality(Callers) + 1) * FetchTimeout
LineInv == LineOnce /\ LineWaits
WaitInv == LineInv /\ PlaceBound /\ MetOneFetch /\ NotYetWaited /\ WaitedEnough

LEMMA BudgetFacts ==
  /\ N \in Nat /\ FetchTimeout \in Nat \ {0}
  /\ \A n \in Nat : /\ Budget(n) \in Nat /\ Budget(n + 1) = Budget(n) + FetchTimeout
                    /\ FetchTimeout <= Budget(n + 1)
  /\ \A m, n \in Nat : m <= n => Budget(m) <= Budget(n)
<1>1. N \in Nat /\ FetchTimeout \in Nat \ {0}
  BY FS_CardinalityType, ClientAssumption DEF N
<1>2. ASSUME NEW n \in Nat
      PROVE  /\ Budget(n) \in Nat /\ Budget(n + 1) = Budget(n) + FetchTimeout
             /\ FetchTimeout <= Budget(n + 1)
  <2>1. n * FetchTimeout \in Nat /\ (n + 1) * FetchTimeout = n * FetchTimeout + FetchTimeout
    BY <1>1
  <2> QED
    BY <1>1, <2>1 DEF Budget
<1>3. ASSUME NEW m \in Nat, NEW n \in Nat, m <= n PROVE Budget(m) <= Budget(n)
  <2>1. PICK d \in Nat : n = m + d
    <3>1. n - m \in Nat /\ n = m + (n - m)
      BY <1>3
    <3> QED
      BY <3>1
  <2>2. (m + d) * FetchTimeout = m * FetchTimeout + d * FetchTimeout
    BY <1>1
  <2>3. m * FetchTimeout \in Nat /\ d * FetchTimeout \in Nat
    BY <1>1
  <2> QED
    BY <2>1, <2>2, <2>3 DEF Budget
<1> QED
  BY <1>1, <1>2, <1>3

(* The end of a line leaves one fetch at least.                            *)
LEMMA LastPlace ==
  ASSUME NEW l \in Nat, l <= N, l # 0
  PROVE  Budget(N - l + 1) \in Nat /\ FetchTimeout <= Budget(N - l + 1)
<1>1. PICK m \in Nat : m = N - l
  BY BudgetFacts
<1> QED
  BY <1>1, BudgetFacts

LEMMA LineLength ==
  ASSUME NEW q \in Seq(Callers), \A i, j \in 1 .. Len(q) : q[i] = q[j] => i = j
  PROVE  Len(q) <= N
<1>1. Len(q) \in Nat /\ q \in [1 .. Len(q) -> Callers]
  OBVIOUS
<1>2. q \in Injection(1 .. Len(q), Callers)
  BY <1>1 DEF Injection, IsInjective
<1>3. Cardinality(1 .. Len(q)) <= N
  BY <1>2, ClientAssumption, FS_Injection DEF N
<1>4. Cardinality(1 .. Len(q)) = Len(q)
  BY <1>1, FS_Interval
<1> QED
  BY <1>3, <1>4

LEMMA WaitNumbers ==
  ASSUME TypeOK
  PROVE  /\ \A c \in Callers : /\ waited[c] \in Nat /\ elapsed[c] \in 0 .. FetchTimeout
                               /\ key[c] \in Keys
         /\ \A k \in Keys : /\ queue[k] \in Seq(Callers) /\ Len(queue[k]) \in Nat
                            /\ \A i \in 1 .. Len(queue[k]) : queue[k][i] \in Callers
                            /\ queue[k] # <<>> => Spent(k) \in 0 .. FetchTimeout
<1>1. \A c \in Callers : /\ waited[c] \in Nat /\ elapsed[c] \in 0 .. FetchTimeout
                         /\ key[c] \in Keys
  BY DEF TypeOK
<1>2. ASSUME NEW k \in Keys
      PROVE  /\ queue[k] \in Seq(Callers) /\ Len(queue[k]) \in Nat
             /\ \A i \in 1 .. Len(queue[k]) : queue[k][i] \in Callers
             /\ queue[k] # <<>> => Spent(k) \in 0 .. FetchTimeout
  <2>1. queue[k] \in Seq(Callers)
    BY DEF TypeOK
  <2>2. queue[k] # <<>> => queue[k][1] \in Callers
    BY <2>1
  <2>3. ASSUME queue[k] # <<>> PROVE Spent(k) \in 0 .. FetchTimeout
    <3>1. PICK d \in Callers : d = queue[k][1]
      BY <2>2, <2>3
    <3>2. elapsed[d] \in 0 .. FetchTimeout /\ 0 \in 0 .. FetchTimeout
      BY <1>1, BudgetFacts
    <3> QED
      BY <3>1, <3>2 DEF Spent
  <2> QED
    BY <2>1, <2>3
<1> QED
  BY <1>1, <1>2

(* Who fetches is first in the line of its metric.                         *)
LEMMA FetchIsFirst ==
  ASSUME TypeOK, LockInv, NEW c \in Callers, pc[c] = "fetch"
  PROVE  queue[key[c]] # <<>> /\ queue[key[c]][1] = c /\ Spent(key[c]) = elapsed[c]
<1>1. queue[key[c]] # <<>> /\ Head(queue[key[c]]) = c
  BY DEF LockInv, HolderFirst
<1>2. queue[key[c]] \in Seq(Callers)
  BY DEF TypeOK
<1>3. queue[key[c]][1] = c
  BY <1>1, <1>2
<1> QED
  BY <1>1, <1>3 DEF Spent

(* What the invariant says of a caller in Get.                             *)
LEMMA WaitIsBounded ==
  ASSUME TypeOK, LockInv, WaitInv
  PROVE  WaitBounded
<1> SUFFICES ASSUME NEW c \in Callers, InGet(c)
             PROVE  waited[c] <= (Cardinality(Callers) + 1) * FetchTimeout
  BY DEF WaitInv, WaitedEnough, WaitBounded
<1>1. /\ N \in Nat /\ FetchTimeout \in Nat /\ waited[c] \in Nat /\ key[c] \in Keys
      /\ Budget(N) \in Nat /\ Budget(N + 1) = Budget(N) + FetchTimeout
      /\ FetchTimeout <= Budget(N + 1)
  BY BudgetFacts, WaitNumbers
<1>2. waited[c] <= Budget(N + 1)
  <2>1. CASE pc[c] = "get"
    BY <1>1, <2>1 DEF WaitInv, MetOneFetch
  <2>2. CASE pc[c] \in {"lock", "fetch"}
    <3>1. PICK i \in 1 .. Len(queue[key[c]]) : queue[key[c]][i] = c
      BY <2>2 DEF LockInv, Queued, InQueue
    <3>2. Len(queue[key[c]]) <= N /\ Len(queue[key[c]]) \in Nat /\ queue[key[c]] # <<>>
      <4>1. queue[key[c]] \in Seq(Callers)
        BY <1>1, WaitNumbers
      <4> QED
        BY <1>1, <3>1, <4>1, LineLength DEF WaitInv, LineInv, LineOnce
    <3>3. PICK m \in Nat : m = N - i + 1
      BY <1>1, <3>1, <3>2
    <3>4. m <= N
      BY <1>1, <3>1, <3>3
    <3>5. Budget(m) \in Nat /\ Budget(m) <= Budget(N)
      BY <1>1, <3>4, BudgetFacts
    <3>6. PICK x \in 0 .. FetchTimeout : x = Spent(key[c])
      BY <1>1, <3>2, WaitNumbers
    <3>7. waited[c] <= Budget(m) + x
      BY <1>1, <3>1, <3>3, <3>6 DEF WaitInv, PlaceBound
    <3> QED
      BY <1>1, <3>5, <3>6, <3>7
  <2> QED
    BY <2>1, <2>2 DEF InGet
<1> QED
  BY <1>2 DEF Budget, N

(* A step of a caller that is in no line, and does not join one.           *)
LEMMA LocalWait ==
  ASSUME TypeOK, TypeOK', WaitInv, WaitBounded, NEW c \in Callers,
         pc[c] \notin {"lock", "fetch"}, pc'[c] \notin {"lock", "fetch"}, queue' = queue,
         \A d \in Callers \ {c} : /\ pc'[d] = pc[d] /\ key'[d] = key[d]
                                  /\ elapsed'[d] = elapsed[d] /\ waited'[d] = waited[d],
         waited'[c] = waited[c] \/ waited'[c] = 0,
         pc'[c] \in {"get", "create"} => waited'[c] = 0
  PROVE  WaitInv'
<1>1. \A k \in Keys : \A i \in 1 .. Len(queue[k]) : queue[k][i] \in Callers \ {c}
  BY WaitNumbers DEF WaitInv, LineInv, LineWaits
<1>2. LineOnce'
  BY DEF WaitInv, LineInv, LineOnce
<1>3. LineWaits'
  BY <1>1 DEF WaitInv, LineInv, LineWaits
<1>4. ASSUME NEW k \in Keys, NEW i \in 1 .. Len(queue[k])
      PROVE  waited'[queue[k][i]] <= Budget(N - i + 1) + Spent(k)'
  <2>1. 1 \in 1 .. Len(queue[k])
    BY <1>4, WaitNumbers
  <2>2. Spent(k)' = Spent(k)
    BY <1>1, <2>1 DEF Spent
  <2> QED
    BY <1>1, <1>4, <2>2 DEF WaitInv, PlaceBound
<1>5. PlaceBound'
  BY <1>4 DEF PlaceBound
<1>6. ASSUME NEW d \in Callers, pc'[d] = "get"
      PROVE  /\ waited'[d] <= FetchTimeout
             /\ \A e \in Callers : At(e, key[d], "fetch")' => waited'[d] <= elapsed'[e]
  <2>1. CASE d = c
    <3>1. waited'[d] = 0 /\ \A e \in Callers : elapsed'[e] >= 0
      BY <1>6, <2>1 DEF TypeOK
    <3> QED
      BY <3>1, BudgetFacts
  <2>2. CASE d # c
    <3>1. pc[d] = "get" /\ key'[d] = key[d] /\ waited'[d] = waited[d]
      BY <1>6, <2>2
    <3>2. ASSUME NEW e \in Callers, At(e, key[d], "fetch")'
          PROVE  At(e, key[d], "fetch") /\ elapsed'[e] = elapsed[e]
      <4>1. e # c
        BY <3>2 DEF At
      <4> QED
        BY <3>1, <3>2, <4>1 DEF At
    <3> QED
      BY <3>1, <3>2 DEF WaitInv, MetOneFetch
  <2> QED
    BY <2>1, <2>2
<1>7. MetOneFetch'
  BY <1>6 DEF MetOneFetch
<1>8. NotYetWaited'
  BY DEF WaitInv, NotYetWaited
<1>9. WaitedEnough'
  <2>1. (Cardinality(Callers) + 1) * FetchTimeout >= 0
    BY BudgetFacts DEF Budget, N
  <2> QED
    BY <2>1 DEF WaitedEnough, WaitBounded
<1> QED
  BY <1>2, <1>3, <1>5, <1>7, <1>8, <1>9 DEF WaitInv, LineInv

LEMMA LocalWaits ==
  ASSUME TypeOK, TypeOK', WaitInv, WaitBounded, NEW c \in Callers,
         \/ StartList(c) \/ NextKey(c) \/ EndList(c) \/ CreateCache(c) \/ GetCached(c)
         \/ StartSummary(c) \/ PartEnds(c) \/ EndSummary(c)
  PROVE  WaitInv'
<1>1. queue' = queue
  BY DEF StartList, NextKey, EndList, CreateCache, GetCached, StartSummary, PartEnds, EndSummary
<1>2. pc[c] \notin {"lock", "fetch"} /\ pc'[c] \notin {"lock", "fetch"}
  BY DEF StartList, NextKey, EndList, CreateCache, GetCached, Answered, StartSummary, PartEnds,
         EndSummary, TypeOK
<1>3. \A d \in Callers \ {c} : /\ pc'[d] = pc[d] /\ key'[d] = key[d]
                               /\ elapsed'[d] = elapsed[d] /\ waited'[d] = waited[d]
  BY DEF StartList, NextKey, EndList, CreateCache, GetCached, Answered, StartSummary, PartEnds,
         EndSummary, TypeOK
<1>4. waited'[c] = waited[c] \/ waited'[c] = 0
  BY DEF StartList, NextKey, EndList, CreateCache, GetCached, StartSummary, PartEnds,
         EndSummary, TypeOK
<1>5. pc'[c] \in {"get", "create"} => waited'[c] = 0
  BY DEF StartList, NextKey, EndList, CreateCache, GetCached, Answered, StartSummary, PartEnds,
         EndSummary, TypeOK, WaitInv, NotYetWaited
<1> QED
  BY <1>1, <1>2, <1>3, <1>4, <1>5, LocalWait

(* A caller joins the line at its end.                                     *)
LEMMA JoinWaits ==
  ASSUME TypeOK, TypeOK', WaitInv, WaitBounded, NEW c \in Callers, WaitForLock(c)
  PROVE  WaitInv'
<1>0. PICK k \in Keys : k = key[c]
  BY DEF TypeOK
<1>1. /\ pc[c] = "get" /\ pc'[c] = "lock"
      /\ key' = key /\ elapsed' = elapsed /\ waited' = waited
      /\ \A d \in Callers \ {c} : pc'[d] = pc[d]
  BY DEF WaitForLock, TypeOK
<1>2. \A j \in Keys : queue'[j] = IF j = k THEN Append(queue[k], c) ELSE queue[j]
  BY <1>0 DEF WaitForLock, TypeOK
<1>3. \A j \in Keys : \A i \in 1 .. Len(queue[j]) : queue[j][i] \in Callers \ {c}
  BY <1>1, WaitNumbers DEF WaitInv, LineInv, LineWaits
<1> DEFINE q == queue[k]
           r == queue'[k]
<1>4. /\ q \in Seq(Callers) /\ r \in Seq(Callers) /\ Len(q) \in Nat /\ Len(r) = Len(q) + 1
      /\ r[Len(q) + 1] = c /\ \A i \in 1 .. Len(q) : r[i] = q[i]
  <2>1. q \in Seq(Callers) /\ r = Append(q, c)
    BY <1>2, WaitNumbers
  <2> HIDE DEF q, r
  <2> QED
    BY <2>1
<1>5. \A i \in 1 .. Len(r) : i \in 1 .. Len(q) \/ i = Len(q) + 1
  <2> HIDE DEF q, r
  <2> QED
    BY <1>4
<1>6. \A i, j \in 1 .. Len(r) : r[i] = r[j] => i = j
  <2>1. \A i \in 1 .. Len(q) : q[i] # c
    BY <1>3
  <2>2. \A i, j \in 1 .. Len(q) : q[i] = q[j] => i = j
    BY DEF WaitInv, LineInv, LineOnce
  <2> HIDE DEF q, r
  <2> QED
    BY <1>4, <1>5, <2>1, <2>2
<1>7. Len(r) <= N
  BY <1>4, <1>6, LineLength
<1>8. \A i \in 1 .. Len(r) :
        r[i] \in Callers /\ pc'[r[i]] \in {"lock", "fetch"} /\ key'[r[i]] = k
  <2>1. ASSUME NEW i \in 1 .. Len(q)
        PROVE  q[i] \in Callers \ {c} /\ pc'[q[i]] \in {"lock", "fetch"} /\ key'[q[i]] = k
    BY <1>1, <1>3 DEF WaitInv, LineInv, LineWaits
  <2>2. key'[c] = k /\ pc'[c] = "lock"
    BY <1>0, <1>1
  <2> HIDE DEF q, r
  <2> QED
    BY <1>4, <1>5, <2>1, <2>2
<1>9. LineOnce'
  BY <1>2, <1>6 DEF WaitInv, LineInv, LineOnce
<1>10. LineWaits'
  BY <1>1, <1>2, <1>3, <1>8 DEF WaitInv, LineInv, LineWaits
<1>11. ASSUME NEW j \in Keys, j # k, NEW i \in 1 .. Len(queue'[j])
       PROVE  waited'[queue'[j][i]] <= Budget(N - i + 1) + Spent(j)'
  <2>1. queue'[j] = queue[j] /\ 1 \in 1 .. Len(queue[j]) /\ i \in 1 .. Len(queue[j])
    BY <1>2, <1>11, WaitNumbers
  <2>2. Spent(j)' = Spent(j)
    BY <1>1, <1>3, <2>1 DEF Spent
  <2> QED
    BY <1>1, <2>1, <2>2 DEF WaitInv, PlaceBound
<1>12. ASSUME NEW i \in 1 .. Len(q) PROVE waited'[r[i]] <= Budget(N - i + 1) + Spent(k)'
  <2>1. 1 \in 1 .. Len(q) /\ r[1] = q[1] /\ r[i] = q[i]
    BY <1>4, <1>12
  <2>2. pc'[r[1]] = pc[q[1]]
    BY <1>1, <1>3, <2>1
  <2>3. Spent(k)' = Spent(k)
    BY <1>1, <2>1, <2>2 DEF Spent
  <2> QED
    BY <1>1, <2>1, <2>3 DEF WaitInv, PlaceBound
<1>13. waited'[c] <= Budget(N - (Len(q) + 1) + 1) + Spent(k)'
  <2>1. waited'[c] <= FetchTimeout /\ waited[c] \in Nat
    BY <1>1, WaitNumbers DEF WaitInv, MetOneFetch
  <2>2. Spent(k)' \in 0 .. FetchTimeout
    <3>1. r # <<>> /\ r[1] \in Callers
      BY <1>4, <1>8
    <3>2. elapsed'[r[1]] \in 0 .. FetchTimeout
      BY <3>1 DEF TypeOK
    <3> QED
      BY <3>2, BudgetFacts DEF Spent
  <2> DEFINE b == Budget(N - (Len(q) + 1) + 1)
             x == Spent(k)'
  <2>3. b \in Nat /\ FetchTimeout <= b
    <3>1. Len(q) + 1 \in Nat /\ Len(q) + 1 <= N /\ Len(q) + 1 # 0
      <4> HIDE DEF q, r
      <4> QED
        BY <1>4, <1>7
    <3> QED
      BY <3>1, LastPlace
  <2>4. waited'[c] \in Nat /\ FetchTimeout \in Nat
    BY <1>1, <2>1, BudgetFacts
  <2>5. x \in Nat
    BY <2>2, <2>4
  <2> HIDE DEF b, x
  <2>6. waited'[c] <= b + x
    BY <2>1, <2>3, <2>4, <2>5
  <2> QED
    BY <2>6 DEF b, x
<1>14. ASSUME NEW i \in 1 .. Len(r) PROVE waited'[r[i]] <= Budget(N - i + 1) + Spent(k)'
  BY <1>4, <1>5, <1>12, <1>13, <1>14
<1>15. PlaceBound'
  BY <1>11, <1>14 DEF PlaceBound
<1>16. MetOneFetch'
  BY <1>1 DEF WaitInv, MetOneFetch, At
<1>17. NotYetWaited' /\ WaitedEnough'
  BY <1>1 DEF WaitInv, NotYetWaited, WaitedEnough, WaitBounded
<1> QED
  BY <1>9, <1>10, <1>15, <1>16, <1>17 DEF WaitInv, LineInv

(* The first of a line leaves it: all others move up by one place, for the *)
(* price of the fetch that has ended.                                      *)
LEMMA LeaveWaits ==
  ASSUME TypeOK, TypeOK', WaitInv, WaitBounded, LockInv, NEW c \in Callers,
         pc[c] \in {"lock", "fetch"}, Head(queue[key[c]]) = c,
         pc' = [pc EXCEPT ![c] = "next"], key' = key, waited' = waited,
         \A d \in Callers \ {c} : elapsed'[d] = elapsed[d], Unlocked(key[c])
  PROVE  WaitInv'
<1>0. PICK k \in Keys : k = key[c]
  BY DEF TypeOK
<1> DEFINE q == queue[k]
           r == queue'[k]
<1>1. q # <<>> /\ q \in Seq(Callers) /\ r = Tail(q)
  BY <1>0, HeldNotEmpty DEF LockInv, Unlocked, TypeOK
<1>2. \A j \in Keys : j # k => queue'[j] = queue[j]
  BY <1>0 DEF Unlocked, TypeOK
<1>3. /\ Len(q) \in Nat \ {0} /\ Len(r) = Len(q) - 1 /\ q[1] = c
      /\ \A i \in 1 .. Len(r) : i + 1 \in 1 .. Len(q) /\ r[i] = q[i + 1]
  <2>1. Head(q) = c
    BY <1>0
  <2> HIDE DEF q, r
  <2> QED
    BY <1>1, <2>1, Head1
<1>4. \A d \in Callers \ {c} : pc'[d] = pc[d]
  BY DEF TypeOK
<1>5. LineOnce'
  <2>1. \A i, j \in 1 .. Len(q) : q[i] = q[j] => i = j
    BY DEF WaitInv, LineInv, LineOnce
  <2>2. \A i, j \in 1 .. Len(r) : r[i] = r[j] => i = j
    <3> HIDE DEF q, r
    <3> QED
      BY <1>3, <2>1
  <2> QED
    BY <1>2, <2>2 DEF WaitInv, LineInv, LineOnce
<1>6. \A j \in Keys : \A i \in 1 .. Len(queue'[j]) :
        /\ queue'[j][i] \in Callers \ {c}
        /\ pc'[queue'[j][i]] \in {"lock", "fetch"} /\ key'[queue'[j][i]] = j
  <2>1. ASSUME NEW j \in Keys, j # k, NEW i \in 1 .. Len(queue[j])
        PROVE  queue[j][i] \in Callers \ {c}
    BY <1>0, <2>1, WaitNumbers DEF WaitInv, LineInv, LineWaits
  <2>2. ASSUME NEW i \in 1 .. Len(r)
        PROVE  r[i] \in Callers \ {c} /\ r[i] = q[i + 1] /\ i + 1 \in 1 .. Len(q)
    <3>1. \A m, n \in 1 .. Len(q) : q[m] = q[n] => m = n
      BY DEF WaitInv, LineInv, LineOnce
    <3> HIDE DEF q, r
    <3>2. i + 1 # 1 /\ 1 \in 1 .. Len(q)
      BY <1>3, <2>2
    <3> QED
      BY <1>1, <1>3, <2>2, <3>1, <3>2
  <2>3. ASSUME NEW i \in 1 .. Len(r) PROVE pc'[r[i]] \in {"lock", "fetch"} /\ key'[r[i]] = k
    <3>1. PICK d \in Callers \ {c} : d = r[i]
      BY <2>2, <2>3
    <3>2. d = q[i + 1] /\ i + 1 \in 1 .. Len(q)
      BY <2>2, <2>3, <3>1
    <3>3. pc[d] \in {"lock", "fetch"} /\ key[d] = k
      BY <3>2 DEF WaitInv, LineInv, LineWaits
    <3>4. pc'[d] \in {"lock", "fetch"} /\ key'[d] = k
      BY <1>4, <3>3
    <3> QED
      BY <3>1, <3>4
  <2>4. ASSUME NEW j \in Keys, j # k, NEW i \in 1 .. Len(queue[j])
        PROVE  pc'[queue[j][i]] \in {"lock", "fetch"} /\ key'[queue[j][i]] = j
    BY <1>4, <2>1, <2>4 DEF WaitInv, LineInv, LineWaits
  <2> QED
    BY <1>2, <2>1, <2>2, <2>3, <2>4
<1>7. LineWaits'
  BY <1>6 DEF LineWaits
<1>8. ASSUME NEW j \in Keys, j # k, NEW i \in 1 .. Len(queue'[j])
      PROVE  waited'[queue'[j][i]] <= Budget(N - i + 1) + Spent(j)'
  <2>1. queue'[j] = queue[j] /\ 1 \in 1 .. Len(queue[j]) /\ i \in 1 .. Len(queue[j])
    BY <1>2, <1>8, WaitNumbers
  <2>2. queue[j][1] \in Callers \ {c}
    BY <1>2, <1>6, <2>1
  <2>3. Spent(j)' = Spent(j)
    BY <1>4, <2>1, <2>2 DEF Spent
  <2> QED
    BY <2>1, <2>3 DEF WaitInv, PlaceBound
<1>9. ASSUME NEW i \in 1 .. Len(r) PROVE waited'[r[i]] <= Budget(N - i + 1) + Spent(k)'
  <2>1. Len(q) <= N
    BY <1>1, LineLength DEF WaitInv, LineInv, LineOnce
  <2>2. PICK x \in 0 .. FetchTimeout : x = Spent(k)
    BY <1>1, WaitNumbers
  <2>3. PICK y \in Nat : y = Spent(k)'
    <3>1. r[1] \in Callers
      BY <1>6, <1>9, <1>3
    <3>2. PICK d \in Callers : d = r[1]
      BY <3>1
    <3>3. elapsed'[d] \in Nat
      BY DEF TypeOK
    <3> QED
      BY <3>2, <3>3 DEF Spent
  <2>4. PICK l \in Nat : l = N - (i + 1) + 1
    <3> HIDE DEF q, r
    <3>1. N - (i + 1) + 1 \in Nat
      BY <1>3, <1>9, <2>1, BudgetFacts
    <3> QED
      BY <3>1
  <2>5. N - i + 1 = l + 1
    <3> HIDE DEF q, r
    <3> QED
      BY <1>3, <1>9, <2>4, BudgetFacts
  <2>6. waited[q[i + 1]] <= Budget(l) + x
    BY <1>3, <1>9, <2>2, <2>4 DEF WaitInv, PlaceBound
  <2>7. PICK u \in Nat : u = waited[q[i + 1]]
    BY <1>3, <1>9, WaitNumbers
  <2>8. Budget(l) \in Nat /\ Budget(l + 1) = Budget(l) + FetchTimeout /\ FetchTimeout \in Nat
    BY BudgetFacts
  <2>9. u <= Budget(l + 1) + y
    BY <2>2, <2>3, <2>6, <2>7, <2>8
  <2> QED
    BY <1>3, <1>9, <2>3, <2>5, <2>7, <2>9
<1>10. PlaceBound'
  BY <1>8, <1>9 DEF PlaceBound
<1>11. MetOneFetch'
  <2>1. \A d \in Callers : pc'[d] \in {"get", "fetch"} =>
          d # c /\ pc'[d] = pc[d] /\ elapsed'[d] = elapsed[d]
    BY <1>4 DEF TypeOK
  <2> QED
    BY <2>1 DEF WaitInv, MetOneFetch, At
<1>12. NotYetWaited' /\ WaitedEnough'
  <2>1. \A d \in Callers : pc'[d] = "create" => pc[d] = "create"
    BY <1>4 DEF TypeOK
  <2> QED
    BY <2>1 DEF WaitInv, NotYetWaited, WaitedEnough, WaitBounded
<1> QED
  BY <1>5, <1>7, <1>10, <1>11, <1>12 DEF WaitInv, LineInv

(* A fetch begins when no caller is before the line.                       *)
LEMMA BeginWaits ==
  ASSUME TypeOK, TypeOK', WaitInv, WaitBounded, LockInv, NEW c \in Callers,
         Locked(c), pc' = [pc EXCEPT ![c] = "fetch"],
         UNCHANGED <<queue, key, elapsed, waited>>
  PROVE  WaitInv'
<1>1. pc[c] = "lock" /\ \A d \in Callers \ {c} : pc'[d] = pc[d]
  BY DEF Locked, TypeOK
<1>2. LineInv'
  <2>1. LineOnce'
    BY DEF WaitInv, LineInv, LineOnce
  <2>2. \A d \in Callers : pc[d] \in {"lock", "fetch"} => pc'[d] \in {"lock", "fetch"}
    BY <1>1 DEF TypeOK
  <2>3. LineWaits'
    BY <2>2, WaitNumbers DEF WaitInv, LineInv, LineWaits
  <2> QED
    BY <2>1, <2>3 DEF LineInv
<1>3. ASSUME NEW k \in Keys, NEW i \in 1 .. Len(queue[k])
      PROVE  waited[queue[k][i]] <= Budget(N - i + 1) + Spent(k)'
  <2>1. PICK d \in Callers : d = queue[k][1]
    BY <1>3, WaitNumbers
  <2>2. CASE d = c
    <3>1. waited[queue[k][i]] <= Budget(N - i + 1) + 0
      BY <1>1, <1>3, <2>1, <2>2 DEF WaitInv, PlaceBound, Spent
    <3>2. Spent(k)' = elapsed[c] /\ elapsed[c] \in Nat
      BY <2>1, <2>2 DEF Spent, TypeOK
    <3>3. waited[queue[k][i]] \in Nat
      BY <1>3, WaitNumbers
    <3>4. Len(queue[k]) <= N /\ Len(queue[k]) \in Nat
      BY WaitNumbers, LineLength DEF WaitInv, LineInv, LineOnce
    <3>5. N - i + 1 \in Nat
      BY <1>3, <3>4, BudgetFacts
    <3>6. Budget(N - i + 1) \in Nat
      BY <3>5, BudgetFacts
    <3> QED
      BY <3>1, <3>2, <3>3, <3>6
  <2>3. CASE d # c
    <3>1. Spent(k)' = Spent(k)
      BY <1>1, <2>1, <2>3 DEF Spent
    <3> QED
      BY <1>3, <3>1 DEF WaitInv, PlaceBound
  <2> QED
    BY <2>2, <2>3
<1>4. PlaceBound'
  BY <1>3 DEF PlaceBound
<1>5. MetOneFetch'
  <2>1. \A d \in Callers : pc'[d] = "get" => pc[d] = "get" /\ key[d] # key[c]
    BY <1>1 DEF Locked, At, TypeOK
  <2>2. \A d \in Callers \ {c} : pc'[d] = "fetch" => pc[d] = "fetch"
    BY <1>1
  <2> QED
    BY <2>1, <2>2 DEF WaitInv, MetOneFetch, At
<1>6. NotYetWaited' /\ WaitedEnough'
  <2>1. \A d \in Callers : pc'[d] = "create" => pc[d] = "create"
    BY <1>1 DEF TypeOK
  <2> QED
    BY <2>1 DEF WaitInv, NotYetWaited, WaitedEnough, WaitBounded
<1> QED
  BY <1>2, <1>4, <1>5, <1>6 DEF WaitInv

LEMMA GetWaits ==
  ASSUME TypeOK, TypeOK', WaitInv, WaitBounded, LockInv, NEW c \in Callers,
         DoubleCheck(c) \/ FetchSucceeds(c) \/ FetchFails(c)
  PROVE  WaitInv'
<1>1. ASSUME FetchSucceeds(c) \/ FetchFails(c) PROVE WaitInv'
  <2>1. /\ pc[c] = "fetch" /\ key' = key /\ waited' = waited /\ Unlocked(key[c])
        /\ pc' = [pc EXCEPT ![c] = "next"]
        /\ \A d \in Callers \ {c} : elapsed'[d] = elapsed[d]
    BY <1>1 DEF FetchSucceeds, FetchFails, Answered, TypeOK
  <2>2. Head(queue[key[c]]) = c
    BY <2>1 DEF LockInv, HolderFirst
  <2> QED
    BY <2>1, <2>2, LeaveWaits
<1>2. ASSUME DoubleCheck(c) PROVE WaitInv'
  <2>1. CASE Fresh(key[c])
    <3>1. /\ pc[c] = "lock" /\ key' = key /\ waited' = waited /\ Unlocked(key[c])
          /\ pc' = [pc EXCEPT ![c] = "next"] /\ Head(queue[key[c]]) = c
          /\ \A d \in Callers \ {c} : elapsed'[d] = elapsed[d]
      BY <1>2, <2>1 DEF DoubleCheck, Locked, Answered, TypeOK
    <3> QED
      BY <3>1, LeaveWaits
  <2>2. CASE ~Fresh(key[c])
    <3>1. /\ Locked(c) /\ pc' = [pc EXCEPT ![c] = "fetch"]
          /\ UNCHANGED <<queue, key, elapsed, waited>>
      BY <1>2, <2>2 DEF DoubleCheck
    <3> QED
      BY <3>1, BeginWaits
  <2> QED
    BY <2>1, <2>2
<1> QED
  BY <1>1, <1>2

LEMMA TickWaits ==
  ASSUME TypeOK, TypeOK', LockInv, WaitInv, Tick
  PROVE  WaitInv'
<1>1. /\ UNCHANGED <<queue, pc, key>>
      /\ \A c \in Callers : elapsed'[c] = IF pc[c] = "fetch" THEN elapsed[c] + 1 ELSE elapsed[c]
      /\ \A c \in Callers : waited'[c] = IF InGet(c) THEN waited[c] + 1 ELSE waited[c]
      /\ \A c \in Callers : InGet(c) => Fetching(key[c])
      /\ \A c \in Callers : pc[c] \notin {"next", "create"}
  BY DEF Tick
<1>2. LineInv'
  BY <1>1 DEF WaitInv, LineInv, LineOnce, LineWaits
<1>3. ASSUME NEW k \in Keys, NEW i \in 1 .. Len(queue[k])
      PROVE  waited'[queue[k][i]] <= Budget(N - i + 1) + Spent(k)'
  <2>1. PICK c \in Callers : c = queue[k][i] /\ key[c] = k /\ pc[c] \in {"lock", "fetch"}
    BY <1>3, WaitNumbers DEF WaitInv, LineInv, LineWaits
  <2>2. PICK d \in Callers : key[d] = k /\ pc[d] = "fetch"
    BY <1>1, <2>1 DEF InGet, Fetching, At
  <2>3. queue[k][1] = d /\ Spent(k) = elapsed[d]
    BY <2>2, FetchIsFirst
  <2>4. Spent(k)' = elapsed[d] + 1
    BY <1>1, <2>2, <2>3 DEF Spent
  <2>5. waited'[c] = waited[c] + 1 /\ waited[c] \in Nat /\ elapsed[d] \in Nat
    BY <1>1, <2>1, WaitNumbers DEF InGet
  <2>6. waited[c] <= Budget(N - i + 1) + elapsed[d]
    BY <1>3, <2>1, <2>3 DEF WaitInv, PlaceBound
  <2>7. Budget(N - i + 1) \in Nat
    <3>1. Len(queue[k]) <= N /\ Len(queue[k]) \in Nat
      BY WaitNumbers, LineLength DEF WaitInv, LineInv, LineOnce
    <3>2. N - i + 1 \in Nat
      BY <1>3, <3>1, BudgetFacts
    <3> QED
      BY <3>2, BudgetFacts
  <2> QED
    BY <2>1, <2>4, <2>5, <2>6, <2>7
<1>4. PlaceBound'
  BY <1>1, <1>3 DEF PlaceBound
<1>5. ASSUME NEW c \in Callers, pc[c] = "get"
      PROVE  /\ waited'[c] <= FetchTimeout
             /\ \A d \in Callers : At(d, key[c], "fetch") => waited'[c] <= elapsed'[d]
  <2>1. PICK d \in Callers : At(d, key[c], "fetch")
    BY <1>1, <1>5 DEF InGet, Fetching
  <2>2. waited'[c] = waited[c] + 1 /\ waited[c] \in Nat
    BY <1>1, <1>5, WaitNumbers DEF InGet
  <2>3. ASSUME NEW e \in Callers, At(e, key[c], "fetch") PROVE waited'[c] <= elapsed'[e]
    <3>1. elapsed'[e] = elapsed[e] + 1 /\ elapsed[e] \in Nat
      BY <1>1, <2>3, WaitNumbers DEF At
    <3>2. waited[c] <= elapsed[e]
      BY <1>5, <2>3 DEF WaitInv, MetOneFetch
    <3> QED
      BY <2>2, <3>1, <3>2
  <2>4. waited'[c] <= elapsed'[d] /\ elapsed'[d] \in 0 .. FetchTimeout
    BY <2>1, <2>3 DEF TypeOK
  <2>5. waited'[c] <= FetchTimeout
    <3>1. waited'[c] \in Nat /\ FetchTimeout \in Nat
      BY <2>2, ClientAssumption
    <3>2. PICK u \in Nat, e \in 0 .. FetchTimeout : u = waited'[c] /\ e = elapsed'[d]
      BY <2>4, <3>1
    <3>3. u <= e
      BY <2>4, <3>2
    <3> QED
      BY <3>1, <3>2, <3>3
  <2> QED
    BY <2>3, <2>5
<1>6. MetOneFetch'
  BY <1>1, <1>5 DEF MetOneFetch, At
<1>7. NotYetWaited'
  BY <1>1 DEF NotYetWaited
<1>8. WaitedEnough'
  BY <1>1 DEF WaitInv, WaitedEnough, InGet
<1> QED
  BY <1>2, <1>4, <1>6, <1>7, <1>8 DEF WaitInv

LEMMA NextWaits ==
  ASSUME ClientInv, ClientInv', WaitInv, [Next]_vars
  PROVE  WaitInv'
<1>1. TypeOK /\ TypeOK' /\ LockInv /\ WaitBounded
  BY WaitIsBounded DEF ClientInv
<1>2. CASE Tick
  BY <1>1, <1>2, TickWaits
<1>3. ASSUME NEW c \in Callers, StartList(c) \/ StartSummary(c) \/ Call(c) PROVE WaitInv'
  BY <1>1, <1>3, LocalWaits, JoinWaits, GetWaits DEF Call, Get
<1>4. CASE UNCHANGED vars
  BY <1>4 DEF vars, WaitInv, LineInv, LineOnce, LineWaits, PlaceBound, Spent, MetOneFetch, At,
              NotYetWaited, WaitedEnough, InGet
<1> QED
  BY <1>2, <1>3, <1>4 DEF Next

LEMMA NobodyWaits == Init => WaitInv
<1> SUFFICES ASSUME Init PROVE WaitInv
  OBVIOUS
<1>1. \A k \in Keys : queue[k] = <<>>
  BY DEF Init
<1>2. LineInv /\ PlaceBound
  BY <1>1 DEF LineInv, LineOnce, LineWaits, PlaceBound
<1>3. MetOneFetch /\ NotYetWaited
  BY DEF Init, MetOneFetch, NotYetWaited
<1>4. 0 <= (Cardinality(Callers) + 1) * FetchTimeout
  <2>1. Budget(N + 1) \in Nat
    BY BudgetFacts
  <2> QED
    BY <2>1 DEF Budget, N
<1>5. WaitedEnough
  BY <1>4 DEF Init, WaitedEnough
<1> QED
  BY <1>2, <1>3, <1>5 DEF WaitInv

(* With Prometheus silent a caller of Get waits for the fetch it met, for  *)
(* one of each other caller and for its own, and no longer: for any number *)
(* of callers, whatever they call meanwhile, and any deadline.             *)
THEOREM WaitsAreBounded == Spec => []WaitBounded
<1>1. ASSUME ClientInv, WaitInv PROVE WaitBounded
  BY <1>1, WaitIsBounded DEF ClientInv
<1>2. ASSUME ClientInv, ClientInv', WaitInv, [Next]_vars PROVE WaitInv'
  BY <1>2, NextWaits
<1> QED
  BY <1>1, <1>2, NobodyWaits, Invariance, PTL DEF Spec
================================================================================
