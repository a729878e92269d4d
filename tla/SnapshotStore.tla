----------------------------- MODULE SnapshotStore -----------------------------
(***************************************************************************)
(* The two implementations of StorageBackend (storage_pvc.go, storage_s3.go) *)
(* as their callers see them: the snapshots of one job, each a directory of *)
(* images and a meta.json, and the calls that write, read and prune them    *)
(* object by object.  They differ in three points: S3 stores an object in   *)
(* one step, a file on the PVC is truncated first; S3's Delete removes what *)
(* one listing returned, RemoveAll what is left; and S3's Load asks for     *)
(* meta.json, the PVC's only for the directory.                             *)
(*                                                                          *)
(* What a Save uploads is one of Contents: the same sequence number is      *)
(* saved again by a retry (same content) or after a second dump (another),  *)
(* and nothing keeps two Saves of one snapshot apart: neither the backends  *)
(* nor the uploader's queue compare them.  Names are abstract, so           *)
(* directories and listings have no order.                                  *)
(***************************************************************************)
EXTENDS Naturals, FiniteSets

CONSTANTS
  Snaps,      \* sequence numbers of the job's snapshots
  Images,     \* files of a CRIU dump
  Meta,       \* meta.json
  Contents,   \* what a dump may contain
  Clients,    \* concurrent callers of the backend
  Keep,       \* Prune's argument
  MaxCalls    \* bound on the calls

ASSUME StoreAssumption ==
  /\ IsFiniteSet(Snaps) /\ Snaps \subseteq Nat
  /\ Meta \notin Images
  /\ {"absent", "torn", "shared"} \cap Contents = {}
  /\ Keep \in Nat /\ MaxCalls \in Nat

VARIABLES
  backend,      \* which implementation runs
  objects,      \* content of each object, "absent", "torn" (cut short) or
                \*   "shared" (two dumps are written to one file at once)
  dirs,         \* PVC: directories that exist
  op,           \* the call of each client
  announced,    \* history: snapshots some Save has completed
  overwritten,  \* history: a Save over an announced snapshot is not completed
  deleted,      \* history: a Delete has begun and no Save replaced it since
  mixed,        \* history: Saves collided and no Save replaced it since
  calls

vars == <<backend, objects, dirs, op, announced, overwritten, deleted, mixed, calls>>

Objects == Images \cup {Meta}
NoObject == [o \in Objects |-> "absent"]
NoImage == [f \in Images |-> "absent"]

Idle == [at |-> "idle", snap |-> 0, content |-> "absent", files |-> {},
         writing |-> {}, got |-> NoImage, snaps |-> {}, metas |-> {}, quiet |-> TRUE]

TypeOK ==
  /\ backend \in {"pvc", "s3"}
  /\ objects \in [Snaps -> [Objects -> Contents \cup {"absent", "torn", "shared"}]]
  /\ backend = "s3" => dirs = {} /\ 
       \A s \in Snaps, o \in Objects : objects[s][o] \notin {"torn", "shared"}
  /\ backend = "pvc" => \A s \in Snaps \ dirs : objects[s] = NoObject
  /\ \A c \in Clients :
       /\ op[c].at \in {"idle", "save", "check", "load", "loaded", "list", "prune", "delete", "pruned"}
       /\ op[c].snap \in Snaps \cup {0}
       /\ op[c].files \subseteq Objects /\ op[c].writing \subseteq op[c].files
       /\ op[c].snaps \cup op[c].metas \subseteq Snaps
  /\ announced \cup overwritten \cup deleted \cup mixed \subseteq Snaps

Present(s) == {o \in Objects : objects[s][o] # "absent"}
Readable(s) == objects[s][Meta] \notin {"absent", "torn", "shared"}
Complete(s) == Readable(s) /\ \A f \in Images : objects[s][f] = objects[s][Meta]

Newest(S, k) == {s \in S : Cardinality({t \in S : t > s}) < k}
Smallest(S) == CHOOSE s \in S : \A t \in S : s <= t

Free(c) == op[c].at \in {"idle", "loaded", "pruned"} /\ calls < MaxCalls
At(stage, s) == {c \in Clients : op[c].at = stage /\ op[c].snap = s}
Disturb(who, f) == [d \in Clients |-> IF d \in who THEN [f[d] EXCEPT !.quiet = FALSE] ELSE f[d]]

Init ==
  /\ backend \in {"pvc", "s3"}
  /\ objects = [s \in Snaps |-> NoObject]
  /\ dirs = {}
  /\ op = [c \in Clients |-> Idle]
  /\ announced = {} /\ overwritten = {} /\ deleted = {} /\ mixed = {}
  /\ calls = 0

--------------------------------------------------------------------------------
(* Save: every image, then meta.json.                                       *)
Overwrites(s, v) ==
  /\ objects[s][Meta] # "absent"
  /\ backend = "pvc" \/ objects[s][Meta] # v

(* A Save of v disturbs a Save of s that is under way, and that Save it: on *)
(* the PVC they truncate each other's files, in S3 they replace each        *)
(* other's objects when these differ, and a Save that a Delete or another   *)
(* Save disturbed may leave anything.                                       *)
Collides(s, v) ==
  \E d \in At("save", s) : backend = "pvc" \/ op[d].content # v \/ ~op[d].quiet

StartSave(c, s, v) ==
  /\ Free(c)
  /\ calls' = calls + 1
  /\ dirs' = IF backend = "pvc" THEN dirs \cup {s} ELSE dirs
  /\ overwritten' = IF Overwrites(s, v) THEN overwritten \cup {s} ELSE overwritten
  /\ mixed' = IF Collides(s, v) THEN mixed \cup {s} ELSE mixed
  /\ op' = Disturb(
       (IF Collides(s, v) THEN At("save", s) ELSE {})
         \cup (IF Collides(s, v) \/ Overwrites(s, v) THEN At("check", s) \cup At("load", s) ELSE {}),
       [op EXCEPT ![c] = [Idle EXCEPT !.at = "save", !.snap = s, !.content = v, !.files = Objects,
                                      !.quiet = At("delete", s) = {} /\ ~Collides(s, v)]])
  /\ UNCHANGED <<backend, objects, announced, deleted>>

(* Mutant: meta.json is uploaded in its turn among the files.               *)
WritableAnyOrder(c) == op[c].files

Writable(c) == IF op[c].files = {Meta} THEN {Meta} ELSE op[c].files \ {Meta}

(* The Saves that have the file of an object open.                          *)
Writers(s, o) == {d \in At("save", s) : o \in op[d].writing}

(* os.OpenFile with O_TRUNC fails when Delete has removed the directory.    *)
Truncate(c, o) ==
  /\ backend = "pvc" /\ op[c].at = "save" /\ op[c].writing = {}
  /\ o \in Writable(c) /\ op[c].snap \in dirs
  /\ objects' = [objects EXCEPT ![op[c].snap][o] =
                   IF \A d \in Writers(op[c].snap, o) : op[d].content = op[c].content
                     THEN "torn" ELSE "shared"]
  /\ op' = [op EXCEPT ![c].writing = {o}]
  /\ UNCHANGED <<backend, dirs, announced, overwritten, deleted, mixed, calls>>

Pruning == {c \in Clients : op[c].at \in {"list", "prune", "delete", "pruned"}}

(* What c leaves in an object: its content, unless others have the file     *)
(* open too.  The last to close it leaves one of the dumps written to it or *)
(* a mixture.  (That of a Save which ended since is not among them: it      *)
(* would be a whole dump again, which no property below can tell from its   *)
(* being the last to close.)                                                *)
Leaves(c, o) ==
  LET s == op[c].snap
  IN  IF Writers(s, o) \ {c} # {} THEN {objects[s][o]}
      ELSE IF objects[s][o] = "shared" THEN {op[d].content : d \in At("save", s)} \cup {"torn"}
      ELSE {op[c].content}

(* An object is complete; with meta.json the Save is.                       *)
Stored(c, o) ==
  LET s == op[c].snap
  IN  /\ \E v \in Leaves(c, o) : objects' = [objects EXCEPT ![s][o] = v]
      /\ IF o = Meta
           THEN /\ announced' = announced \cup {s}
                /\ overwritten' = overwritten \ {s}
                /\ deleted' = IF op[c].quiet THEN deleted \ {s} ELSE deleted
                /\ mixed' = IF op[c].quiet THEN mixed \ {s} ELSE mixed
                /\ op' = Disturb(Pruning, [op EXCEPT ![c] = Idle])
           ELSE /\ op' = [op EXCEPT ![c].files = @ \ {o}, ![c].writing = {}]
                /\ UNCHANGED <<announced, overwritten, deleted, mixed>>
      /\ UNCHANGED <<backend, dirs, calls>>

PutObject(c, o) ==
  /\ backend = "s3" /\ op[c].at = "save" /\ o \in Writable(c)
  /\ Stored(c, o)

WriteEnds(c) ==
  \E o \in op[c].writing :
    /\ op[c].at = "save" /\ objects[op[c].snap][o] # "absent"
    /\ Stored(c, o)

(* The file was unlinked while it was written: the bytes go nowhere.  (When *)
(* a Save that collides has created it anew, it is taken for the same file.) *)
WriteIsLost(c) ==
  \E o \in op[c].writing :
    /\ op[c].at = "save" /\ objects[op[c].snap][o] = "absent"
    /\ op' = IF o = Meta THEN [op EXCEPT ![c] = Idle]
               ELSE [op EXCEPT ![c].files = @ \ {o}, ![c].writing = {}]
    /\ UNCHANGED <<backend, objects, dirs, announced, overwritten, deleted, mixed, calls>>

--------------------------------------------------------------------------------
(* Load: S3 fetches meta.json first and then lists, the PVC lists whatever  *)
(* the directory holds.                                                     *)

(* Mutant: the S3 Load does not fetch meta.json either.                     *)
LoadableUnannounced(s) == IF backend = "pvc" THEN s \in dirs ELSE Present(s) # {}

Loadable(s) == IF backend = "pvc" THEN s \in dirs ELSE Readable(s)

StartLoad(c, s) ==
  /\ Free(c) /\ Loadable(s)
  /\ calls' = calls + 1
  /\ op' = [op EXCEPT ![c] = [Idle EXCEPT !.at = "check", !.snap = s,
              !.quiet = s \notin overwritten \cup deleted \cup mixed /\ (backend = "s3" \/ Readable(s))]]
  /\ UNCHANGED <<backend, objects, dirs, announced, overwritten, deleted, mixed>>

ListImages(c) ==
  /\ op[c].at = "check"
  /\ op' = [op EXCEPT ![c].at = "load", ![c].files = Present(op[c].snap) \ {Meta}]
  /\ UNCHANGED <<backend, objects, dirs, announced, overwritten, deleted, mixed, calls>>

ReadImage(c, f) ==
  /\ op[c].at = "load" /\ f \in op[c].files /\ objects[op[c].snap][f] # "absent"
  /\ op' = [op EXCEPT ![c].files = @ \ {f}, ![c].got[f] = objects[op[c].snap][f]]
  /\ UNCHANGED <<backend, objects, dirs, announced, overwritten, deleted, mixed, calls>>

EndLoad(c) ==
  /\ op[c].at = "load" /\ op[c].files = {}
  /\ op' = [op EXCEPT ![c].at = "loaded"]
  /\ UNCHANGED <<backend, objects, dirs, announced, overwritten, deleted, mixed, calls>>

--------------------------------------------------------------------------------
(* Prune: List, then Delete of the oldest.                                  *)
StartPrune(c) ==
  /\ Free(c)
  /\ calls' = calls + 1
  /\ op' = [op EXCEPT ![c] = [Idle EXCEPT !.at = "list",
              !.snaps = IF backend = "pvc" THEN dirs ELSE {s \in Snaps : Present(s) # {}}]]
  /\ UNCHANGED <<backend, objects, dirs, announced, overwritten, deleted, mixed>>

ReadMeta(c) ==
  /\ op[c].at = "list" /\ op[c].snaps # {}
  /\ LET s == Smallest(op[c].snaps)
     IN  op' = [op EXCEPT ![c].snaps = @ \ {s},
                          ![c].metas = IF Readable(s) THEN @ \cup {s} ELSE @]
  /\ UNCHANGED <<backend, objects, dirs, announced, overwritten, deleted, mixed, calls>>

(* A meta.json that cannot be read, for whatever reason, is skipped.        *)
SkipMeta(c) ==
  /\ op[c].at = "list" /\ op[c].snaps # {}
  /\ LET s == Smallest(op[c].snaps)
     IN  /\ Readable(s)
         /\ op' = [op EXCEPT ![c].snaps = @ \ {s}, ![c].quiet = FALSE]
  /\ UNCHANGED <<backend, objects, dirs, announced, overwritten, deleted, mixed, calls>>

(* Mutant: metas[:keep], as if the list began with the newest.              *)
DoomedFromHead(metas) == Newest(metas, Keep)

(* Mutant: len(metas) <= keep + 1 leaves one more.                          *)
DoomedOneLess(metas) == metas \ Newest(metas, Keep + 1)

Doomed(metas) == metas \ Newest(metas, Keep)

Listed(c) ==
  /\ op[c].at = "list" /\ op[c].snaps = {}
  /\ op' = [op EXCEPT ![c].at = "prune", ![c].snaps = Doomed(op[c].metas), ![c].metas = {}]
  /\ UNCHANGED <<backend, objects, dirs, announced, overwritten, deleted, mixed, calls>>

NextDelete(c) ==
  /\ op[c].at = "prune" /\ op[c].snaps # {}
  /\ LET s == Smallest(op[c].snaps)
     IN  /\ deleted' = deleted \cup {s}
         /\ op' = Disturb(At("save", s) \cup At("check", s) \cup At("load", s),
                    [op EXCEPT ![c].at = "delete", ![c].snap = s, ![c].files = Present(s)])
  /\ UNCHANGED <<backend, objects, dirs, announced, overwritten, mixed, calls>>

Left(c) == IF backend = "pvc" THEN Present(op[c].snap) ELSE op[c].files

DeleteObject(c, o) ==
  /\ op[c].at = "delete" /\ o \in Left(c)
  /\ objects' = [objects EXCEPT ![op[c].snap][o] = "absent"]
  /\ op' = [op EXCEPT ![c].files = @ \ {o}]
  /\ UNCHANGED <<backend, dirs, announced, overwritten, deleted, mixed, calls>>

EndDelete(c) ==
  /\ op[c].at = "delete" /\ Left(c) = {}
  /\ dirs' = dirs \ {op[c].snap}
  /\ op' = [op EXCEPT ![c] = [Idle EXCEPT !.at = "prune", !.quiet = op[c].quiet,
                                          !.snaps = op[c].snaps \ {op[c].snap}]]
  /\ UNCHANGED <<backend, objects, announced, overwritten, deleted, mixed, calls>>

EndPrune(c) ==
  /\ op[c].at = "prune" /\ op[c].snaps = {}
  /\ op' = [op EXCEPT ![c].at = "pruned"]
  /\ UNCHANGED <<backend, objects, dirs, announced, overwritten, deleted, mixed, calls>>

(* A cancelled context, an I/O or network error, the end of the process.    *)
CallFails(c) ==
  /\ op[c].at \notin {"idle", "loaded", "pruned"}
  /\ op' = [op EXCEPT ![c] = Idle]
  /\ UNCHANGED <<backend, objects, dirs, announced, overwritten, deleted, mixed, calls>>

Next ==
  \E c \in Clients :
    \/ \E s \in Snaps : StartLoad(c, s) \/ \E v \in Contents : StartSave(c, s, v)
    \/ \E o \in Objects : Truncate(c, o) \/ PutObject(c, o) \/ DeleteObject(c, o)
    \/ WriteEnds(c) \/ WriteIsLost(c)
    \/ ListImages(c) \/ (\E f \in Images : ReadImage(c, f)) \/ EndLoad(c)
    \/ StartPrune(c) \/ ReadMeta(c) \/ SkipMeta(c) \/ Listed(c)
    \/ NextDelete(c) \/ EndDelete(c) \/ EndPrune(c)
    \/ CallFails(c)

Spec == Init /\ [][Next]_vars

--------------------------------------------------------------------------------
(* "Upload meta.json last (signals snapshot is complete)": a snapshot that  *)
(* is announced has all images of one dump, whatever Saves were cut short   *)
(* before, except after a Delete of it, during a Save over it, and after    *)
(* Saves of it that collided, until an undisturbed Save completes.          *)
AnnouncedComplete ==
  \A s \in Snaps \ (overwritten \cup deleted \cup mixed) : Readable(s) => Complete(s)

(* A Load that returns no error delivers one whole dump, unless a Delete, a *)
(* Save over the snapshot or Saves that collided came before its last file  *)
(* or had not been made good when it began; on S3 even while the first Save *)
(* of it, or a retry, is under way.  On the PVC it is also promised only    *)
(* for a directory with a meta.json: Load delivers what it finds in one     *)
(* that was never announced (see LoadedExists).                             *)
LoadComplete ==
  \A c \in Clients : op[c].at = "loaded" /\ op[c].quiet =>
    \E v \in Contents : op[c].got = [f \in Images |-> v]

(* Prune retains the newest: of the snapshots ever announced, the newest    *)
(* Keep are complete, however many Prunes and Saves overlap and in whatever *)
(* order the Saves end, except during a Save over one and after Saves of it *)
(* that collided.                                                           *)
NewestKept == \A s \in Newest(announced, Keep) \ (overwritten \cup mixed) : Complete(s)

(* A Prune that returns no error and read every meta.json leaves at most    *)
(* Keep snapshots, unless a Save ended meanwhile.                           *)
PruneReachesLimit ==
  \A c \in Clients : op[c].at = "pruned" /\ op[c].quiet =>
    Cardinality({s \in Snaps : Readable(s)}) <= Keep

(* "All methods must be safe for concurrent use" and "calling Save twice    *)
(* with the same meta overwrites the previous snapshot" (storage.go:53-58): *)
(* once the Saves of a snapshot are over, also ones that ran at once, what  *)
(* is announced is one dump.  Violated: they interleave object by object.   *)
ConcurrentSavesSafe ==
  \A s \in Snaps \ (overwritten \cup deleted) :
    At("save", s) = {} /\ Readable(s) => Complete(s)

(* Load "returns an error if the snapshot does not exist" (storage.go:63).  *)
(* Violated on the PVC: the directory of a Save that was cut short is one   *)
(* that no Save announced, and Load copies what it holds.                   *)
LoadedExists == \A c \in Clients : op[c].at = "loaded" => op[c].snap \in announced
================================================================================
