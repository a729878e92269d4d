-------------------------- MODULE SnapshotStoreProofs --------------------------
(***************************************************************************)
(* Proofs about the snapshot store, for every set of snapshots, images,    *)
(* contents and clients, in layers that each rest on the one before:       *)
(*                                                                         *)
(* StoreInv: a Save that no Delete of its snapshot and no other Save       *)
(* disturbed has stored its content in every image it has ticked off; a    *)
(* meta.json that can be read under it is of that content; a disturbed     *)
(* Save is of a snapshot in deleted or mixed; Saves of one snapshot at     *)
(* once store the same in S3, unless it is in mixed.  Its last part is     *)
(* AnnouncedComplete.                                                      *)
(*                                                                         *)
(* LoadsInv: an undisturbed Load has a complete snapshot before it and in  *)
(* hand the images of its meta.json.                                       *)
(*                                                                         *)
(* PruneInv: what a Prune has listed was announced, and what it deletes    *)
(* is superseded: Keep announced snapshots are newer.                      *)
(*                                                                         *)
(* LimitInv: beside what an undisturbed Prune is still to delete at most   *)
(* Keep snapshots can be read.                                             *)
(***************************************************************************)
EXTENDS SnapshotStore, FiniteSetTheorems, WellFoundedInduction, TLAPS

(* A set of numbers has a least one.                                       *)
LEMMA LeastNatural ==
  ASSUME NEW T, T \subseteq Nat, T # {}
  PROVE  \E m \in T : \A n \in T : m <= n
<1> DEFINE Less == OpToRel(<, Nat)
<1>1. IsWellFoundedOn(Less, Nat)
  BY NatLessThanWellFounded
<1>2. \A m, n \in Nat : <<m, n>> \in Less <=> m < n
  BY DEF OpToRel
<1> HIDE DEF Less
<1>3. \E m \in T : \A n \in T : ~(<<n, m>> \in Less)
  BY <1>1, WFMin
<1>4. \E m \in T : \A n \in T : ~(n < m)
  BY <1>2, <1>3, Zenon
<1> QED
  BY <1>4

Ats == {"idle", "save", "check", "load", "loaded", "list", "prune", "delete", "pruned"}
States == Contents \cup {"absent", "torn", "shared"}
Ops == [at : Ats, snap : Snaps \cup {0}, content : Contents \cup {"absent"},
        files : SUBSET Objects, writing : SUBSET Objects, got : [Images -> States],
        snaps : SUBSET Snaps, metas : SUBSET Snaps, quiet : BOOLEAN]

(* The stages of a call that are about one snapshot.                       *)
OfOne == {"save", "check", "load", "delete"}
Saves(c) == op[c].at = "save"
Deletes(c) == op[c].at = "delete"

Types ==
  /\ backend \in {"pvc", "s3"}
  /\ op \in [Clients -> Ops]
  /\ objects \in [Snaps -> [Objects -> States]] /\ dirs \subseteq Snaps
  /\ \A c \in Clients : op[c].at \in OfOne => op[c].snap \in Snaps
  /\ \A c \in Clients : Saves(c) => op[c].content \in Contents

(* Saves of one snapshot at once: none is quiet alone, and they store the  *)
(* same in one step each, unless they collided.                            *)
SaversAgree ==
  \A c, d \in Clients : c # d /\ Saves(c) /\ Saves(d) /\ op[c].snap = op[d].snap =>
    /\ op[c].quiet => op[d].quiet
    /\ op[c].quiet \/ op[c].snap \notin mixed =>
         backend = "s3" /\ op[c].content = op[d].content
MetaLast ==
  \A c \in Clients : Saves(c) => /\ Meta \in op[c].writing => op[c].files = {Meta}
                                 /\ op[c].writing \subseteq op[c].files
DeleterDisturbs ==
  \A d \in Clients : Deletes(d) =>
    /\ op[d].snap \in deleted
    /\ \A c \in Clients : Saves(c) /\ op[c].snap = op[d].snap => ~op[c].quiet
DisturbedExcused ==
  \A c \in Clients : Saves(c) /\ ~op[c].quiet => op[c].snap \in deleted \cup mixed

(* S3 writes no object piece by piece.                                     *)
InOneStep == backend = "s3" =>
  /\ \A s \in Snaps, o \in Objects : objects[s][o] # "shared"
  /\ \A c \in Clients : Saves(c) => op[c].writing = {}

(* What a Save that was left in peace has stored, and is writing.          *)
StoredSoFar ==
  \A c \in Clients : Saves(c) /\ op[c].quiet =>
    /\ \A f \in Images \ op[c].files : objects[op[c].snap][f] = op[c].content
    /\ \A o \in op[c].writing : objects[op[c].snap][o] = "torn"

(* The meta.json that a Save found is none, or as good as its own.         *)
MetaAgrees ==
  \A c \in Clients : Saves(c) /\ op[c].snap \notin overwritten \cup mixed =>
    \/ ~Readable(op[c].snap)
    \/ backend = "s3" /\ objects[op[c].snap][Meta] = op[c].content

SaversInv == SaversAgree /\ MetaLast /\ DeleterDisturbs /\ DisturbedExcused
StoreInv == Types /\ SaversInv /\ InOneStep /\ StoredSoFar /\ MetaAgrees /\ AnnouncedComplete

(* A step of c leaves the calls of the others as they are, or disturbs     *)
(* them.                                                                   *)
Others(c) ==
  \A d \in Clients \ {c} :
    /\ op'[d].at = op[d].at /\ op'[d].snap = op[d].snap /\ op'[d].files = op[d].files
    /\ op'[d].writing = op[d].writing /\ op'[d].content = op[d].content
    /\ op'[d].snaps = op[d].snaps /\ op'[d].metas = op[d].metas
    /\ op'[d].quiet => op'[d] = op[d]

(*---------------------- updates of one field of a call ---------------------*)
LEMMA SetAt ==
  ASSUME NEW e \in Ops, NEW x \in Ats, NEW n, n = [e EXCEPT !.at = x]
  PROVE  /\ n \in Ops /\ n.at = x
         /\ n.snap = e.snap /\ n.content = e.content /\ n.files = e.files /\ n.writing = e.writing
         /\ n.got = e.got /\ n.snaps = e.snaps /\ n.metas = e.metas /\ n.quiet = e.quiet
  BY DEF Ops

LEMMA SetSnap ==
  ASSUME NEW e \in Ops, NEW x \in Snaps \cup {0}, NEW n, n = [e EXCEPT !.snap = x]
  PROVE  /\ n \in Ops /\ n.snap = x
         /\ n.at = e.at /\ n.content = e.content /\ n.files = e.files /\ n.writing = e.writing
         /\ n.got = e.got /\ n.snaps = e.snaps /\ n.metas = e.metas /\ n.quiet = e.quiet
  BY DEF Ops

LEMMA SetContent ==
  ASSUME NEW e \in Ops, NEW x \in Contents \cup {"absent"}, NEW n, n = [e EXCEPT !.content = x]
  PROVE  /\ n \in Ops /\ n.content = x
         /\ n.at = e.at /\ n.snap = e.snap /\ n.files = e.files /\ n.writing = e.writing
         /\ n.got = e.got /\ n.snaps = e.snaps /\ n.metas = e.metas /\ n.quiet = e.quiet
  BY DEF Ops

LEMMA SetFiles ==
  ASSUME NEW e \in Ops, NEW x \in SUBSET Objects, NEW n, n = [e EXCEPT !.files = x]
  PROVE  /\ n \in Ops /\ n.files = x
         /\ n.at = e.at /\ n.snap = e.snap /\ n.content = e.content /\ n.writing = e.writing
         /\ n.got = e.got /\ n.snaps = e.snaps /\ n.metas = e.metas /\ n.quiet = e.quiet
  BY DEF Ops

LEMMA SetWriting ==
  ASSUME NEW e \in Ops, NEW x \in SUBSET Objects, NEW n, n = [e EXCEPT !.writing = x]
  PROVE  /\ n \in Ops /\ n.writing = x
         /\ n.at = e.at /\ n.snap = e.snap /\ n.content = e.content /\ n.files = e.files
         /\ n.got = e.got /\ n.snaps = e.snaps /\ n.metas = e.metas /\ n.quiet = e.quiet
  BY DEF Ops

LEMMA SetGot ==
  ASSUME NEW e \in Ops, NEW x \in [Images -> States], NEW n, n = [e EXCEPT !.got = x]
  PROVE  /\ n \in Ops /\ n.got = x
         /\ n.at = e.at /\ n.snap = e.snap /\ n.content = e.content /\ n.files = e.files
         /\ n.writing = e.writing /\ n.snaps = e.snaps /\ n.metas = e.metas /\ n.quiet = e.quiet
  BY DEF Ops

LEMMA SetSnaps ==
  ASSUME NEW e \in Ops, NEW x \in SUBSET Snaps, NEW n, n = [e EXCEPT !.snaps = x]
  PROVE  /\ n \in Ops /\ n.snaps = x
         /\ n.at = e.at /\ n.snap = e.snap /\ n.content = e.content /\ n.files = e.files
         /\ n.writing = e.writing /\ n.got = e.got /\ n.metas = e.metas /\ n.quiet = e.quiet
  BY DEF Ops

LEMMA SetMetas ==
  ASSUME NEW e \in Ops, NEW x \in SUBSET Snaps, NEW n, n = [e EXCEPT !.metas = x]
  PROVE  /\ n \in Ops /\ n.metas = x
         /\ n.at = e.at /\ n.snap = e.snap /\ n.content = e.content /\ n.files = e.files
         /\ n.writing = e.writing /\ n.got = e.got /\ n.snaps = e.snaps /\ n.quiet = e.quiet
  BY DEF Ops

LEMMA SetQuiet ==
  ASSUME NEW e \in Ops, NEW x \in BOOLEAN, NEW n, n = [e EXCEPT !.quiet = x]
  PROVE  /\ n \in Ops /\ n.quiet = x
         /\ n.at = e.at /\ n.snap = e.snap /\ n.content = e.content /\ n.files = e.files
         /\ n.writing = e.writing /\ n.got = e.got /\ n.snaps = e.snaps /\ n.metas = e.metas
  BY DEF Ops

LEMMA IdleOp ==
  /\ Idle \in Ops /\ Idle.at = "idle" /\ Idle.files = {} /\ Idle.writing = {}
  /\ Idle.snaps = {} /\ Idle.metas = {}
  BY DEF Idle, Ops, NoImage, Ats, States

LEMMA Updated ==
  ASSUME NEW f \in [Clients -> Ops], NEW c \in Clients, NEW e \in Ops,
         NEW g, g = [f EXCEPT ![c] = e]
  PROVE  g \in [Clients -> Ops] /\ g[c] = e /\ \A d \in Clients : d # c => g[d] = f[d]
  OBVIOUS

LEMMA Replaced ==
  ASSUME op \in [Clients -> Ops], NEW c \in Clients, NEW e \in Ops, op' = [op EXCEPT ![c] = e]
  PROVE  /\ op' \in [Clients -> Ops] /\ op'[c] = e
         /\ \A d \in Clients : d # c => op'[d] = op[d]
         /\ Others(c)
<1>1. /\ op' \in [Clients -> Ops] /\ op'[c] = e
      /\ \A d \in Clients : d # c => op'[d] = op[d]
  OBVIOUS
<1>2. Others(c)
  BY <1>1 DEF Others
<1> QED
  BY <1>1, <1>2

LEMMA Disturbed ==
  ASSUME NEW f \in [Clients -> Ops], NEW who, op' = Disturb(who, f)
  PROVE  /\ op' \in [Clients -> Ops]
         /\ \A d \in Clients :
              /\ d \notin who => op'[d] = f[d]
              /\ op'[d].at = f[d].at /\ op'[d].snap = f[d].snap
              /\ op'[d].content = f[d].content /\ op'[d].files = f[d].files
              /\ op'[d].writing = f[d].writing
              /\ op'[d].snaps = f[d].snaps /\ op'[d].metas = f[d].metas
              /\ op'[d].quiet = (f[d].quiet /\ d \notin who)
<1>1. ASSUME NEW d \in Clients
      PROVE  /\ op'[d] \in Ops
             /\ d \notin who => op'[d] = f[d]
             /\ op'[d].at = f[d].at /\ op'[d].snap = f[d].snap
             /\ op'[d].content = f[d].content /\ op'[d].files = f[d].files
             /\ op'[d].writing = f[d].writing
             /\ op'[d].snaps = f[d].snaps /\ op'[d].metas = f[d].metas
             /\ op'[d].quiet = (f[d].quiet /\ d \notin who)
  <2>1. f[d] \in Ops /\ f[d].quiet \in BOOLEAN
    BY DEF Ops
  <2>2. CASE d \notin who
    <3>1. op'[d] = f[d]
      BY <2>2 DEF Disturb
    <3> QED
      BY <2>1, <2>2, <3>1
  <2>3. CASE d \in who
    <3>1. PICK q \in BOOLEAN : q = FALSE
      OBVIOUS
    <3>2. op'[d] = [f[d] EXCEPT !.quiet = q]
      BY <2>3, <3>1 DEF Disturb
    <3>3. /\ op'[d] \in Ops /\ op'[d].quiet = q
          /\ op'[d].at = f[d].at /\ op'[d].snap = f[d].snap
          /\ op'[d].content = f[d].content /\ op'[d].files = f[d].files
          /\ op'[d].writing = f[d].writing
          /\ op'[d].snaps = f[d].snaps /\ op'[d].metas = f[d].metas
      BY <2>1, <3>2, SetQuiet
    <3> QED
      BY <2>3, <3>1, <3>3
  <2> QED
    BY <2>2, <2>3
<1>2. op' = [d \in Clients |-> op'[d]]
  BY DEF Disturb
<1>3. op' \in [Clients -> Ops]
  BY <1>1, <1>2
<1> QED
  BY <1>1, <1>3

(* One call replaced, some of the others disturbed.                        *)
LEMMA ReplacedAndDisturbed ==
  ASSUME op \in [Clients -> Ops], NEW c \in Clients, NEW e \in Ops, NEW who, c \notin who,
         op' = Disturb(who, [op EXCEPT ![c] = e])
  PROVE  /\ op' \in [Clients -> Ops] /\ op'[c] = e /\ Others(c)
         /\ \A d \in Clients \ {c} : /\ d \notin who => op'[d] = op[d]
                                     /\ d \in who => ~op'[d].quiet
<1>1. PICK f : f = [op EXCEPT ![c] = e]
  OBVIOUS
<1>2. f \in [Clients -> Ops] /\ f[c] = e /\ \A d \in Clients : d # c => f[d] = op[d]
  BY <1>1, Updated
<1>3. op' = Disturb(who, f)
  BY <1>1
<1>4. /\ op' \in [Clients -> Ops]
      /\ \A d \in Clients :
           /\ d \notin who => op'[d] = f[d]
           /\ op'[d].at = f[d].at /\ op'[d].snap = f[d].snap
           /\ op'[d].content = f[d].content /\ op'[d].files = f[d].files
           /\ op'[d].writing = f[d].writing
           /\ op'[d].snaps = f[d].snaps /\ op'[d].metas = f[d].metas
           /\ op'[d].quiet = (f[d].quiet /\ d \notin who)
  BY <1>2, <1>3, Disturbed
<1>5. \A d \in Clients \ {c} : /\ d \notin who => op'[d] = op[d]
                               /\ d \in who => ~op'[d].quiet
  BY <1>2, <1>4
<1>6. Others(c)
  <2>1. ASSUME NEW d \in Clients \ {c}
        PROVE  /\ op'[d].at = op[d].at /\ op'[d].snap = op[d].snap /\ op'[d].files = op[d].files
               /\ op'[d].writing = op[d].writing /\ op'[d].content = op[d].content
               /\ op'[d].snaps = op[d].snaps /\ op'[d].metas = op[d].metas
               /\ op'[d].quiet => op'[d] = op[d]
    <3>1. f[d] = op[d]
      BY <1>2
    <3>2. op'[d].quiet => op'[d] = op[d]
      BY <1>5
    <3>3. /\ op'[d].at = f[d].at /\ op'[d].snap = f[d].snap /\ op'[d].files = f[d].files
          /\ op'[d].writing = f[d].writing /\ op'[d].content = f[d].content
          /\ op'[d].snaps = f[d].snaps /\ op'[d].metas = f[d].metas
      BY <1>4
    <3> QED
      BY <3>1, <3>2, <3>3
  <2> QED
    BY <2>1 DEF Others
<1> QED
  BY <1>2, <1>4, <1>5, <1>6

(*---------------------- steps that no Save or Delete feels ------------------*)
LEMMA Bystander ==
  ASSUME StoreInv, NEW c \in Clients, NEW e \in Ops, e.at \notin {"save", "delete"},
         e.at \in {"check", "load"} => e.snap \in Snaps, op' = [op EXCEPT ![c] = e],
         UNCHANGED <<backend, objects, overwritten, deleted, mixed>>, dirs' \subseteq Snaps
  PROVE  StoreInv' /\ Others(c) /\ op'[c] = e
<1> USE DEF StoreInv
<1>1. /\ op' \in [Clients -> Ops] /\ Others(c)
      /\ op'[c] = e
      /\ \A d \in Clients : d # c => op'[d] = op[d]
  BY Replaced DEF Types
<1>2. /\ \A d \in Clients : Saves(d)' => Saves(d) /\ op'[d] = op[d]
      /\ \A d \in Clients : Deletes(d)' => Deletes(d) /\ op'[d] = op[d]
  BY <1>1 DEF Saves, Deletes
<1>3. Types'
  BY <1>1, <1>2 DEF Types, OfOne
<1>4. SaversInv'
  BY <1>2 DEF SaversInv, SaversAgree, MetaLast, DeleterDisturbs, DisturbedExcused
<1>5. StoredSoFar' /\ InOneStep'
  BY <1>2 DEF StoredSoFar, InOneStep
<1>6. MetaAgrees'
  BY <1>2 DEF MetaAgrees, Readable
<1>7. AnnouncedComplete'
  BY DEF AnnouncedComplete, Readable, Complete
<1> QED
  BY <1>1, <1>3, <1>4, <1>5, <1>6, <1>7

LEMMA CallTypes ==
  ASSUME StoreInv, NEW c \in Clients
  PROVE  /\ op \in [Clients -> Ops] /\ op[c] \in Ops /\ dirs \subseteq Snaps
         /\ op[c].snaps \in SUBSET Snaps /\ op[c].metas \in SUBSET Snaps
         /\ op[c].files \in SUBSET Objects /\ op[c].got \in [Images -> States]
         /\ op[c].quiet \in BOOLEAN
         /\ \A s \in Snaps : objects[s] \in [Objects -> States]
         /\ op[c].at \in OfOne => op[c].snap \in Snaps
  BY DEF StoreInv, Types, Ops

LEMMA StartLoadStep ==
  ASSUME StoreInv, NEW c \in Clients, NEW s \in Snaps, StartLoad(c, s)
  PROVE  /\ StoreInv' /\ Others(c)
         /\ op'[c].at = "check" /\ op'[c].snap = s /\ op'[c].writing = {}
         /\ op'[c].quiet => s \notin overwritten \cup deleted \cup mixed /\ Readable(s)
<1>0. dirs \subseteq Snaps /\ backend \in {"pvc", "s3"}
  BY DEF StoreInv, Types
<1>1. PICK q \in BOOLEAN :
        q = (s \notin overwritten \cup deleted \cup mixed /\ (backend = "s3" \/ Readable(s)))
  BY Zenon
<1>2. PICK e1 : e1 = [Idle EXCEPT !.at = "check"]
  OBVIOUS
<1>3. PICK e2 : e2 = [e1 EXCEPT !.snap = s]
  OBVIOUS
<1>4. PICK e : e = [e2 EXCEPT !.quiet = q]
  OBVIOUS
<1>5. op' = [op EXCEPT ![c] = e]
  BY <1>1, <1>2, <1>3, <1>4, Zenon DEF StartLoad
<1>6. e1 \in Ops /\ e1.at = "check" /\ e1.writing = {}
  BY <1>2, IdleOp, SetAt DEF Ats
<1>7. e2 \in Ops /\ e2.at = "check" /\ e2.snap = s /\ e2.writing = {}
  BY <1>3, <1>6, SetSnap
<1>8. e \in Ops /\ e.at = "check" /\ e.snap = s /\ e.writing = {} /\ e.quiet = q
  BY <1>4, <1>7, SetQuiet
<1>9. q => s \notin overwritten \cup deleted \cup mixed /\ Readable(s)
  BY <1>0, <1>1 DEF StartLoad, Loadable
<1>10. StoreInv' /\ Others(c) /\ op'[c] = e
  BY <1>0, <1>5, <1>8, Bystander DEF StartLoad
<1> QED
  BY <1>8, <1>9, <1>10

LEMMA ListImagesStep ==
  ASSUME StoreInv, NEW c \in Clients, ListImages(c)
  PROVE  /\ StoreInv' /\ Others(c)
         /\ op'[c].at = "load" /\ op'[c].snap = op[c].snap /\ op'[c].writing = op[c].writing
         /\ op'[c].files = Present(op[c].snap) \ {Meta} /\ op'[c].quiet = op[c].quiet
<1>0. op[c].at = "check" /\ op[c].snap \in Snaps
  BY CallTypes DEF ListImages, OfOne
<1>1. PICK e1 : e1 = [op[c] EXCEPT !.at = "load"]
  OBVIOUS
<1>2. PICK F \in SUBSET Objects : F = Present(op[c].snap) \ {Meta}
  BY DEF Present
<1>3. PICK e : e = [e1 EXCEPT !.files = F]
  OBVIOUS
<1>4. op' = [op EXCEPT ![c] = e]
  BY <1>1, <1>2, <1>3, CallTypes, Zenon DEF ListImages
<1>5. op[c] \in Ops
  BY CallTypes
<1>6. /\ e1 \in Ops /\ e1.at = "load" /\ e1.snap = op[c].snap /\ e1.writing = op[c].writing
      /\ e1.quiet = op[c].quiet
  BY <1>1, <1>5, SetAt DEF Ats
<1>7. /\ e \in Ops /\ e.at = "load" /\ e.snap = op[c].snap /\ e.writing = op[c].writing
      /\ e.files = F /\ e.quiet = op[c].quiet
  <2>1. /\ e \in Ops /\ e.at = e1.at /\ e.snap = e1.snap /\ e.writing = e1.writing
        /\ e.files = F /\ e.quiet = e1.quiet
    BY <1>3, <1>6, SetFiles
  <2> QED
    BY <1>6, <2>1
<1>8. StoreInv' /\ Others(c) /\ op'[c] = e
  <2>1. dirs \subseteq Snaps
    BY CallTypes
  <2> QED
    BY <1>0, <1>4, <1>7, <2>1, Bystander DEF ListImages
<1> QED
  BY <1>2, <1>7, <1>8

LEMMA ReadImageStep ==
  ASSUME StoreInv, NEW c \in Clients, NEW f \in Images, ReadImage(c, f)
  PROVE  /\ StoreInv' /\ Others(c)
         /\ op'[c].at = "load" /\ op'[c].snap = op[c].snap /\ op'[c].writing = op[c].writing
         /\ op'[c].files = op[c].files \ {f} /\ op'[c].quiet = op[c].quiet
         /\ op'[c].got = [op[c].got EXCEPT ![f] = objects[op[c].snap][f]]
<1>0. op[c].at = "load" /\ op[c].snap \in Snaps
  BY CallTypes DEF ReadImage, OfOne
<1>1. PICK F \in SUBSET Objects : F = op[c].files \ {f}
  BY CallTypes
<1>2. PICK e1 : e1 = [op[c] EXCEPT !.files = F]
  OBVIOUS
<1>3. PICK g \in [Images -> States] : g = [op[c].got EXCEPT ![f] = objects[op[c].snap][f]]
  BY <1>0, CallTypes DEF Objects
<1>4. PICK e : e = [e1 EXCEPT !.got = g]
  OBVIOUS
<1>5. op[c] \in Ops
  BY CallTypes
<1>6. /\ e1 \in Ops /\ e1.at = op[c].at /\ e1.snap = op[c].snap /\ e1.writing = op[c].writing
      /\ e1.quiet = op[c].quiet /\ e1.files = F /\ e1.got = op[c].got
  BY <1>2, <1>5, SetFiles
<1>7. /\ e \in Ops /\ e.at = e1.at /\ e.snap = e1.snap /\ e.writing = e1.writing
      /\ e.quiet = e1.quiet /\ e.files = e1.files /\ e.got = g
  BY <1>4, <1>6, SetGot
<1>8. op' = [op EXCEPT ![c] = e]
  <2>1. PICK n : n = [e1 EXCEPT !.got[f] = objects[op[c].snap][f]]
    OBVIOUS
  <2>5. e1 = [op[c] EXCEPT !.files = op[c].files \ {f}]
    BY <1>1, <1>2
  <2>6. op \in [Clients -> Ops]
    BY CallTypes
  <2>2. op' = [op EXCEPT ![c] = n]
    BY <2>1, <2>5, <2>6, Zenon DEF ReadImage
  <2>3. [e1 EXCEPT !.got[f] = objects[op[c].snap][f]]
          = [e1 EXCEPT !.got = [e1.got EXCEPT ![f] = objects[op[c].snap][f]]]
    BY <1>6 DEF Ops
  <2>4. n = e
    BY <1>3, <1>4, <1>6, <2>1, <2>3, Zenon
  <2> QED
    BY <2>2, <2>4
<1>9. StoreInv' /\ Others(c) /\ op'[c] = e
  <2>1. dirs \subseteq Snaps /\ e.at = "load" /\ e.snap \in Snaps
    BY <1>0, <1>6, <1>7, CallTypes
  <2> QED
    BY <1>7, <1>8, <2>1, Bystander DEF ReadImage
<1> QED
  BY <1>0, <1>1, <1>3, <1>6, <1>7, <1>9

LEMMA EndLoadStep ==
  ASSUME StoreInv, NEW c \in Clients, EndLoad(c)
  PROVE  /\ StoreInv' /\ Others(c)
         /\ op'[c].at = "loaded" /\ op'[c].writing = op[c].writing
         /\ op'[c].got = op[c].got /\ op'[c].quiet = op[c].quiet
<1>1. PICK e : e = [op[c] EXCEPT !.at = "loaded"]
  OBVIOUS
<1>2. op' = [op EXCEPT ![c] = e]
  BY <1>1, Zenon DEF EndLoad
<1>3. op[c] \in Ops /\ dirs \subseteq Snaps
  BY CallTypes
<1>4. /\ e \in Ops /\ e.at = "loaded" /\ e.writing = op[c].writing /\ e.got = op[c].got
      /\ e.quiet = op[c].quiet
  BY <1>1, <1>3, SetAt DEF Ats
<1>5. StoreInv' /\ Others(c) /\ op'[c] = e
  BY <1>2, <1>3, <1>4, Bystander DEF EndLoad
<1> QED
  BY <1>4, <1>5

LEMMA SmallestIn == \A S \in SUBSET Snaps : S # {} => Smallest(S) \in S
<1>1. ASSUME NEW S \in SUBSET Snaps, S # {} PROVE Smallest(S) \in S
  <2>1. \E m \in S : \A n \in S : m <= n
    <3>1. S \subseteq Nat
      BY StoreAssumption
    <3> QED
      BY <1>1, <3>1, LeastNatural
  <2> QED
    BY <2>1 DEF Smallest
<1> QED
  BY <1>1

LEMMA StartPruneStep ==
  ASSUME StoreInv, NEW c \in Clients, StartPrune(c)
  PROVE  /\ StoreInv' /\ Others(c)
         /\ op'[c].at = "list" /\ op'[c].writing = {} /\ op'[c].metas = {}
         /\ op'[c].snaps = IF backend = "pvc" THEN dirs ELSE {s \in Snaps : Present(s) # {}}
<1>0. dirs \subseteq Snaps
  BY CallTypes
<1>1. PICK S \in SUBSET Snaps :
        S = IF backend = "pvc" THEN dirs ELSE {s \in Snaps : Present(s) # {}}
  BY <1>0
<1>2. PICK e1 : e1 = [Idle EXCEPT !.at = "list"]
  OBVIOUS
<1>3. PICK e : e = [e1 EXCEPT !.snaps = S]
  OBVIOUS
<1>4. op' = [op EXCEPT ![c] = e]
  BY <1>1, <1>2, <1>3, Zenon DEF StartPrune
<1>5. e1 \in Ops /\ e1.at = "list" /\ e1.writing = {} /\ e1.metas = {}
  BY <1>2, IdleOp, SetAt DEF Ats
<1>6. e \in Ops /\ e.at = "list" /\ e.writing = {} /\ e.metas = {} /\ e.snaps = S
  BY <1>3, <1>5, SetSnaps
<1>7. StoreInv' /\ Others(c) /\ op'[c] = e
  BY <1>0, <1>4, <1>6, Bystander DEF StartPrune
<1> QED
  BY <1>1, <1>6, <1>7

LEMMA ReadMetaStep ==
  ASSUME StoreInv, NEW c \in Clients, ReadMeta(c)
  PROVE  /\ StoreInv' /\ Others(c)
         /\ op'[c].at = "list" /\ op'[c].writing = op[c].writing /\ op'[c].quiet = op[c].quiet
         /\ \E s \in Snaps :
              /\ op'[c].snaps = op[c].snaps \ {s}
              /\ op'[c].metas = IF Readable(s) THEN op[c].metas \cup {s} ELSE op[c].metas
<1>0. op[c] \in Ops /\ op \in [Clients -> Ops] /\ dirs \subseteq Snaps
  BY CallTypes
<1>1. op[c].snaps \in SUBSET Snaps /\ op[c].metas \in SUBSET Snaps
  BY CallTypes
<1>2. PICK s \in Snaps : s = Smallest(op[c].snaps)
  BY <1>1, SmallestIn DEF ReadMeta
<1>3. PICK M \in SUBSET Snaps : M = IF Readable(s) THEN op[c].metas \cup {s} ELSE op[c].metas
  BY <1>1
<1>4. PICK R \in SUBSET Snaps : R = op[c].snaps \ {s}
  BY <1>1
<1>5. PICK e1 : e1 = [op[c] EXCEPT !.snaps = R]
  OBVIOUS
<1>6. PICK e : e = [e1 EXCEPT !.metas = M]
  OBVIOUS
<1>7. op' = [op EXCEPT ![c] = e]
  BY <1>0, <1>2, <1>3, <1>4, <1>5, <1>6, Zenon DEF ReadMeta
<1>8. /\ e1 \in Ops /\ e1.at = op[c].at /\ e1.writing = op[c].writing
      /\ e1.quiet = op[c].quiet /\ e1.snaps = R
  BY <1>0, <1>5, SetSnaps
<1>9. /\ e \in Ops /\ e.at = e1.at /\ e.writing = e1.writing
      /\ e.quiet = e1.quiet /\ e.snaps = e1.snaps /\ e.metas = M
  BY <1>6, <1>8, SetMetas
<1>10. op[c].at = "list"
  BY DEF ReadMeta
<1>12. e \in Ops /\ e.at = "list"
  BY <1>8, <1>9, <1>10
<1>11. StoreInv' /\ Others(c) /\ op'[c] = e
  BY <1>0, <1>7, <1>12, Bystander DEF ReadMeta
<1> QED
  BY <1>3, <1>4, <1>8, <1>9, <1>10, <1>11

LEMMA SkipMetaStep ==
  ASSUME StoreInv, NEW c \in Clients, SkipMeta(c)
  PROVE  /\ StoreInv' /\ Others(c)
         /\ op'[c].at = "list" /\ op'[c].writing = op[c].writing /\ ~op'[c].quiet
         /\ op'[c].metas = op[c].metas
<1>0. op[c] \in Ops /\ op \in [Clients -> Ops] /\ dirs \subseteq Snaps
  BY CallTypes
<1>1. op[c].snaps \in SUBSET Snaps
  BY CallTypes
<1>2. PICK s \in Snaps : s = Smallest(op[c].snaps)
  BY <1>1, SmallestIn DEF SkipMeta
<1>3. PICK R \in SUBSET Snaps : R = op[c].snaps \ {s}
  BY <1>1
<1>4. PICK q \in BOOLEAN : q = FALSE
  OBVIOUS
<1>5. PICK e1 : e1 = [op[c] EXCEPT !.snaps = R]
  OBVIOUS
<1>6. PICK e : e = [e1 EXCEPT !.quiet = q]
  OBVIOUS
<1>7. op' = [op EXCEPT ![c] = e]
  BY <1>0, <1>2, <1>3, <1>4, <1>5, <1>6, Zenon DEF SkipMeta
<1>8. e1 \in Ops /\ e1.at = op[c].at /\ e1.writing = op[c].writing /\ e1.metas = op[c].metas
  BY <1>0, <1>5, SetSnaps
<1>9. /\ e \in Ops /\ e.at = e1.at /\ e.writing = e1.writing /\ e.metas = e1.metas
      /\ e.quiet = q
  BY <1>6, <1>8, SetQuiet
<1>10. op[c].at = "list"
  BY DEF SkipMeta
<1>12. e \in Ops /\ e.at = "list"
  BY <1>8, <1>9, <1>10
<1>11. StoreInv' /\ Others(c) /\ op'[c] = e
  BY <1>0, <1>7, <1>12, Bystander DEF SkipMeta
<1> QED
  BY <1>4, <1>8, <1>9, <1>10, <1>11

LEMMA ListedStep ==
  ASSUME StoreInv, NEW c \in Clients, Listed(c)
  PROVE  /\ StoreInv' /\ Others(c)
         /\ op'[c].at = "prune" /\ op'[c].writing = op[c].writing /\ op'[c].quiet = op[c].quiet
         /\ op'[c].snaps = Doomed(op[c].metas)
<1>0. op[c] \in Ops /\ op \in [Clients -> Ops] /\ dirs \subseteq Snaps
  BY CallTypes
<1>1. PICK D \in SUBSET Snaps : D = Doomed(op[c].metas)
  BY CallTypes DEF Doomed
<1>2. PICK e1 : e1 = [op[c] EXCEPT !.at = "prune"]
  OBVIOUS
<1>3. PICK e2 : e2 = [e1 EXCEPT !.snaps = D]
  OBVIOUS
<1>4. PICK e : e = [e2 EXCEPT !.metas = {}]
  OBVIOUS
<1>5. op' = [op EXCEPT ![c] = e]
  BY <1>0, <1>1, <1>2, <1>3, <1>4, Zenon DEF Listed
<1>6. /\ e1 \in Ops /\ e1.at = "prune" /\ e1.writing = op[c].writing
      /\ e1.quiet = op[c].quiet
  BY <1>0, <1>2, SetAt DEF Ats
<1>7. /\ e2 \in Ops /\ e2.at = e1.at /\ e2.writing = e1.writing
      /\ e2.quiet = e1.quiet /\ e2.snaps = D
  BY <1>3, <1>6, SetSnaps
<1>8. /\ e \in Ops /\ e.at = e2.at /\ e.writing = e2.writing
      /\ e.quiet = e2.quiet /\ e.snaps = e2.snaps
  BY <1>4, <1>7, SetMetas
<1>10. e \in Ops /\ e.at = "prune"
  BY <1>6, <1>7, <1>8
<1>9. StoreInv' /\ Others(c) /\ op'[c] = e
  BY <1>0, <1>5, <1>10, Bystander DEF Listed
<1> QED
  BY <1>1, <1>6, <1>7, <1>8, <1>9

LEMMA EndDeleteStep ==
  ASSUME StoreInv, NEW c \in Clients, EndDelete(c)
  PROVE  /\ StoreInv' /\ Others(c)
         /\ op'[c].at = "prune" /\ op'[c].writing = {} /\ op'[c].quiet = op[c].quiet
         /\ op'[c].snaps = op[c].snaps \ {op[c].snap}
<1>0. op[c] \in Ops /\ op \in [Clients -> Ops] /\ dirs \subseteq Snaps
      /\ op[c].quiet \in BOOLEAN
  BY CallTypes
<1>1. PICK R \in SUBSET Snaps : R = op[c].snaps \ {op[c].snap}
  BY CallTypes
<1>2. PICK e1 : e1 = [Idle EXCEPT !.at = "prune"]
  OBVIOUS
<1>3. PICK e2 : e2 = [e1 EXCEPT !.quiet = op[c].quiet]
  OBVIOUS
<1>4. PICK e : e = [e2 EXCEPT !.snaps = R]
  OBVIOUS
<1>5. op' = [op EXCEPT ![c] = e]
  BY <1>1, <1>2, <1>3, <1>4, Zenon DEF EndDelete
<1>6. e1 \in Ops /\ e1.at = "prune" /\ e1.writing = {}
  BY <1>2, IdleOp, SetAt DEF Ats
<1>7. e2 \in Ops /\ e2.at = "prune" /\ e2.writing = {} /\ e2.quiet = op[c].quiet
  BY <1>0, <1>3, <1>6, SetQuiet
<1>8. /\ e \in Ops /\ e.at = e2.at /\ e.writing = e2.writing /\ e.quiet = e2.quiet
      /\ e.snaps = R
  BY <1>4, <1>7, SetSnaps
<1>9. dirs' \subseteq Snaps
  BY <1>0 DEF EndDelete
<1>10. StoreInv' /\ Others(c) /\ op'[c] = e
  BY <1>5, <1>7, <1>8, <1>9, Bystander DEF EndDelete
<1> QED
  BY <1>1, <1>7, <1>8, <1>10

LEMMA EndPruneStep ==
  ASSUME StoreInv, NEW c \in Clients, EndPrune(c)
  PROVE  /\ StoreInv' /\ Others(c)
         /\ op'[c].at = "pruned" /\ op'[c].writing = op[c].writing /\ op'[c].quiet = op[c].quiet
<1>0. op[c] \in Ops /\ dirs \subseteq Snaps
  BY CallTypes
<1>1. PICK e : e = [op[c] EXCEPT !.at = "pruned"]
  OBVIOUS
<1>2. op' = [op EXCEPT ![c] = e]
  BY <1>1, Zenon DEF EndPrune
<1>3. e \in Ops /\ e.at = "pruned" /\ e.writing = op[c].writing /\ e.quiet = op[c].quiet
  BY <1>0, <1>1, SetAt DEF Ats
<1>4. StoreInv' /\ Others(c) /\ op'[c] = e
  BY <1>0, <1>2, <1>3, Bystander DEF EndPrune
<1> QED
  BY <1>3, <1>4

LEMMA CallFailsStep ==
  ASSUME StoreInv, NEW c \in Clients, CallFails(c)
  PROVE  StoreInv' /\ Others(c) /\ op'[c].at = "idle" /\ op'[c].writing = {}
<1>0. dirs \subseteq Snaps
  BY CallTypes
<1>1. StoreInv' /\ Others(c) /\ op'[c] = Idle
  BY <1>0, IdleOp, Bystander DEF CallFails
<1> QED
  BY <1>1, IdleOp


(*---------------------------------- Save -----------------------------------*)
LEMMA StartSaveStep ==
  ASSUME StoreInv, NEW c \in Clients, NEW s \in Snaps, NEW v \in Contents, StartSave(c, s, v)
  PROVE  /\ StoreInv' /\ Others(c) /\ op'[c].at = "save" /\ op'[c].writing = {}
         /\ Overwrites(s, v) \/ Collides(s, v) => \A d \in Clients \ {c} :
              op[d].at \in {"check", "load"} /\ op[d].snap = s => ~op'[d].quiet
<1> USE DEF StoreInv
<1>1. PICK q \in BOOLEAN : q = (At("delete", s) = {} /\ ~Collides(s, v))
  BY Zenon
<1>2. PICK e1 : e1 = [Idle EXCEPT !.at = "save"]
  OBVIOUS
<1>3. PICK e2 : e2 = [e1 EXCEPT !.snap = s]
  OBVIOUS
<1>4. PICK e3 : e3 = [e2 EXCEPT !.content = v]
  OBVIOUS
<1>5. PICK e4 : e4 = [e3 EXCEPT !.files = Objects]
  OBVIOUS
<1>6. PICK e : e = [e4 EXCEPT !.quiet = q]
  OBVIOUS
<1>7. /\ e \in Ops /\ e.at = "save" /\ e.snap = s /\ e.content = v /\ e.files = Objects
      /\ e.writing = {} /\ e.quiet = q
  <2>1. e1 \in Ops /\ e1.at = "save" /\ e1.writing = {}
    <3>1. Idle \in Ops /\ Idle.writing = {}
      BY IdleOp DEF Idle
    <3> QED
      BY <1>2, <3>1, SetAt DEF Ats
  <2>2. e2 \in Ops /\ e2.at = "save" /\ e2.snap = s /\ e2.writing = {}
    BY <1>3, <2>1, SetSnap
  <2>3. e3 \in Ops /\ e3.at = "save" /\ e3.snap = s /\ e3.content = v /\ e3.writing = {}
    BY <1>4, <2>2, SetContent
  <2>4. /\ e4 \in Ops /\ e4.at = "save" /\ e4.snap = s /\ e4.content = v /\ e4.files = Objects
        /\ e4.writing = {}
    BY <1>5, <2>3, SetFiles
  <2> QED
    BY <1>6, <2>4, SetQuiet
<1>8. PICK who : who =
        (IF Collides(s, v) THEN At("save", s) ELSE {})
          \cup (IF Collides(s, v) \/ Overwrites(s, v) THEN At("check", s) \cup At("load", s) ELSE {})
  OBVIOUS
<1>9. op' = Disturb(who, [op EXCEPT ![c] = e])
  BY <1>1, <1>2, <1>3, <1>4, <1>5, <1>6, <1>8, Zenon DEF StartSave
<1>10. /\ Free(c) /\ objects' = objects /\ backend' = backend
       /\ deleted' = deleted /\ overwritten \subseteq overwritten'
       /\ Overwrites(s, v) => s \in overwritten'
       /\ mixed \subseteq mixed' /\ (Collides(s, v) => s \in mixed')
       /\ dirs' \subseteq Snaps
  BY DEF StartSave, Types
<1>11. op \in [Clients -> Ops]
  BY DEF Types
<1>13. \A d \in who : op[d].at \in {"save", "check", "load"}
  BY <1>8 DEF At
<1>14. c \notin who
  BY <1>10, <1>13 DEF Free
<1>12. /\ op' \in [Clients -> Ops] /\ op'[c] = e /\ Others(c)
       /\ \A d \in Clients \ {c} : /\ d \notin who => op'[d] = op[d]
                                   /\ d \in who => ~op'[d].quiet
  BY <1>7, <1>9, <1>11, <1>14, ReplacedAndDisturbed
<1>24. Overwrites(s, v) \/ Collides(s, v) => \A d \in Clients \ {c} :
         op[d].at \in {"check", "load"} /\ op[d].snap = s => ~op'[d].quiet
  BY <1>8, <1>12 DEF At
<1>15. \A d \in Clients \ {c} :
         /\ op'[d].at = op[d].at /\ op'[d].snap = op[d].snap /\ op'[d].content = op[d].content
         /\ op'[d].files = op[d].files /\ op'[d].writing = op[d].writing
         /\ op'[d].quiet => op[d].quiet
  BY <1>12 DEF Others
<1>16. \A d \in Clients \ {c} : op[d].at = "save" =>
         /\ op[d].snap # s => op'[d] = op[d]
         /\ op[d].snap = s => IF Collides(s, v) THEN ~op'[d].quiet ELSE op'[d] = op[d]
  BY <1>8, <1>12 DEF At
<1>26. \A d \in Clients : op[d].at = "save" /\ op[d].snap = s /\ ~Collides(s, v) =>
         backend = "s3" /\ op[d].content = v /\ op[d].quiet
  <2>1. backend # "pvc" => backend = "s3"
    BY DEF Types
  <2> QED
    BY <2>1 DEF Collides, At
<1>17. Types'
  BY <1>7, <1>10, <1>12, <1>15 DEF Types, OfOne, Saves
<1>18. MetaLast'
  BY <1>7, <1>12, <1>15 DEF SaversInv, MetaLast, Saves, Objects
<1>27. ASSUME NEW d \in Clients \ {c}, op[d].at = "save", op[d].snap = s
       PROVE  /\ q = op'[d].quiet
              /\ q \/ s \notin mixed' => backend = "s3" /\ op'[d].content = v
  <2>1. CASE Collides(s, v)
    <3>1. ~op'[d].quiet
      BY <1>16, <1>27, <2>1
    <3>2. q = FALSE
      BY <1>1, <2>1
    <3>3. op'[d].quiet \in BOOLEAN
      BY <1>12 DEF Ops
    <3> QED
      BY <1>10, <2>1, <3>1, <3>2, <3>3
  <2>2. CASE ~Collides(s, v)
    <3>1. op'[d] = op[d] /\ op[d].quiet /\ backend = "s3" /\ op[d].content = v
      BY <1>16, <1>26, <1>27, <2>2
    <3>2. At("delete", s) = {}
      BY <1>27, <3>1 DEF At, SaversInv, DeleterDisturbs, Saves, Deletes
    <3>3. q = TRUE
      BY <1>1, <2>2, <3>2
    <3>4. op'[d].quiet \in BOOLEAN
      BY <1>12 DEF Ops
    <3> QED
      BY <3>1, <3>3, <3>4
  <2> QED
    BY <2>1, <2>2
<1>28. SaversAgree'
  <2>1. ASSUME NEW a \in Clients, NEW b \in Clients, a # b, op'[a].at = "save", op'[b].at = "save",
               op'[a].snap = op'[b].snap
        PROVE  /\ op'[a].quiet => op'[b].quiet
               /\ op'[a].quiet \/ op'[a].snap \notin mixed' =>
                    backend' = "s3" /\ op'[a].content = op'[b].content
    <3>1. CASE a = c
      BY <1>7, <1>10, <1>12, <1>15, <1>27, <2>1, <3>1
    <3>2. CASE b = c
      BY <1>7, <1>10, <1>12, <1>15, <1>27, <2>1, <3>2
    <3>3. CASE a # c /\ b # c
      <4>1. /\ op[a].at = "save" /\ op[b].at = "save" /\ op[a].snap = op[b].snap
            /\ op'[a].snap = op[a].snap
        BY <1>15, <2>1, <3>3
      <4>2. /\ op[a].quiet => op[b].quiet
            /\ op[a].quiet \/ op[a].snap \notin mixed =>
                 backend = "s3" /\ op[a].content = op[b].content
        BY <2>1, <4>1 DEF SaversInv, SaversAgree, Saves
      <4>3. op[a].snap \notin mixed' => op[a].snap \notin mixed
        BY <1>10
      <4>4. CASE op[a].snap = s
        BY <1>10, <1>15, <1>27, <3>3, <4>1, <4>4
      <4>5. CASE op[a].snap # s
        BY <1>10, <1>16, <3>3, <4>1, <4>2, <4>3, <4>5
      <4> QED
        BY <4>4, <4>5
    <3> QED
      BY <3>1, <3>2, <3>3
  <2> QED
    BY <2>1 DEF SaversAgree, Saves
<1>19. DeleterDisturbs'
  <2>1. ASSUME NEW d \in Clients, op'[d].at = "delete", NEW b \in Clients, op'[b].at = "save",
               op'[b].snap = op'[d].snap
        PROVE  ~op'[b].quiet
    <3>1. d # c /\ op[d].at = "delete" /\ op[d].snap = op'[d].snap
      BY <1>7, <1>12, <1>15, <2>1
    <3>2. CASE b = c
      <4>1. d \in At("delete", s)
        BY <1>7, <1>12, <2>1, <3>1, <3>2 DEF At
      <4> QED
        BY <1>1, <1>7, <1>12, <3>2, <4>1
    <3>3. CASE b # c
      BY <1>15, <2>1, <3>1, <3>3 DEF SaversInv, DeleterDisturbs, Saves, Deletes
    <3> QED
      BY <3>2, <3>3
  <2>2. ASSUME NEW d \in Clients, op'[d].at = "delete" PROVE op'[d].snap \in deleted'
    BY <1>7, <1>10, <1>12, <1>15, <2>2 DEF SaversInv, DeleterDisturbs, Deletes
  <2> QED
    BY <2>1, <2>2 DEF DeleterDisturbs, Saves, Deletes
<1>20. DisturbedExcused'
  <2>1. ~q => s \in deleted' \cup mixed'
    <3>1. At("delete", s) # {} => s \in deleted
      BY DEF SaversInv, DeleterDisturbs, Deletes, At
    <3> QED
      BY <1>1, <1>10, <3>1
  <2>2. ASSUME NEW d \in Clients \ {c}, op[d].at = "save", ~op'[d].quiet
        PROVE  op[d].snap \in deleted' \cup mixed'
    <3>1. CASE op[d].snap = s
      BY <1>27, <2>1, <2>2, <3>1
    <3>2. CASE op[d].snap # s
      BY <1>10, <1>16, <2>2, <3>2 DEF SaversInv, DisturbedExcused, Saves
    <3> QED
      BY <3>1, <3>2
  <2> QED
    BY <1>7, <1>12, <1>15, <2>1, <2>2 DEF DisturbedExcused, Saves
<1>21. StoredSoFar' /\ InOneStep'
  BY <1>7, <1>10, <1>12, <1>15 DEF StoredSoFar, InOneStep, Saves, Objects
<1>22. MetaAgrees'
  <2>1. s \notin overwritten' => ~Readable(s) \/ (backend = "s3" /\ objects[s][Meta] = v)
    <3>1. CASE Overwrites(s, v)
      BY <1>10, <3>1
    <3>2. CASE ~Overwrites(s, v)
      <4>1. objects[s][Meta] = "absent" \/ (backend # "pvc" /\ objects[s][Meta] = v)
        BY <3>2, Zenon DEF Overwrites
      <4>2. backend # "pvc" => backend = "s3"
        BY DEF Types
      <4> QED
        BY <4>1, <4>2 DEF Readable
    <3> QED
      BY <3>1, <3>2
  <2> QED
    BY <1>7, <1>10, <1>12, <1>15, <2>1 DEF MetaAgrees, Saves, Readable
<1>23. AnnouncedComplete'
  BY <1>10 DEF AnnouncedComplete, Readable, Complete
<1> QED
  BY <1>7, <1>12, <1>17, <1>18, <1>19, <1>20, <1>21, <1>22, <1>23, <1>24, <1>28 DEF SaversInv

(* A client goes on with its Save, its call becomes e, and the object o of *)
(* its snapshot becomes x or stays.                                        *)
GoesOn(c, e, o, x) ==
  /\ op' = [op EXCEPT ![c] = e]
  /\ e.at = "save" /\ e.snap = op[c].snap /\ e.content = op[c].content /\ e.quiet = op[c].quiet
  /\ \/ objects' = objects
     \/ objects' = [objects EXCEPT ![op[c].snap][o] = x]
  /\ backend = "s3" => x = op[c].content /\ e.writing = {}
  /\ UNCHANGED <<backend, dirs, overwritten, deleted, mixed>>
  /\ e.writing \subseteq e.files /\ (Meta \in e.writing => e.files = {Meta})
KeepsOrder(e) ==
  /\ e.quiet => /\ \A f \in Images \ e.files : objects'[e.snap][f] = e.content
                /\ \A w \in e.writing : objects'[e.snap][w] = "torn"
  /\ e.snap \notin overwritten \cup mixed =>
       \/ ~Readable(e.snap)'
       \/ backend = "s3" /\ objects'[e.snap][Meta] = e.content
  /\ e.snap \notin overwritten \cup deleted \cup mixed /\ Readable(e.snap)' => Complete(e.snap)'

LEMMA SaveGoesOn ==
  ASSUME StoreInv, NEW c \in Clients, Saves(c), NEW e \in Ops, NEW o \in Objects, NEW x \in States,
         GoesOn(c, e, o, x), KeepsOrder(e)
  PROVE  StoreInv' /\ Others(c) /\ op'[c] = e
<1> USE DEF StoreInv, GoesOn, KeepsOrder
<1>1. /\ op' \in [Clients -> Ops] /\ op'[c] = e /\ Others(c)
      /\ \A d \in Clients : d # c => op'[d] = op[d]
  BY Replaced DEF Types
<1>2. op[c].snap \in Snaps /\ op[c].content \in Contents
  BY DEF Types, OfOne, Saves
<1>3. /\ objects' \in [Snaps -> [Objects -> States]]
      /\ \A t \in Snaps : t # e.snap => objects'[t] = objects[t]
      /\ \A w \in Objects : objects'[e.snap][w] \in {objects[e.snap][w], x}
  <2>1. CASE objects' = objects
    BY <2>1 DEF Types
  <2>2. CASE objects' = [objects EXCEPT ![op[c].snap][o] = x]
    BY <1>2, <2>2 DEF Types
  <2> QED
    BY <2>1, <2>2
<1>4. ASSUME NEW d \in Clients, d # c, Saves(d), op[d].snap = e.snap,
             op[d].quiet \/ e.snap \notin mixed
      PROVE  /\ backend = "s3" /\ op[d].content = x /\ op[d].writing = {}
             /\ op[d].content = e.content
  <2>1. backend = "s3" /\ op[d].content = op[c].content
    BY <1>4 DEF SaversInv, SaversAgree
  <2> QED
    BY <1>4, <2>1 DEF InOneStep
<1>5. Types'
  BY <1>1, <1>2, <1>3 DEF Types, OfOne, Saves
<1>6. SaversInv'
  BY <1>1 DEF SaversInv, SaversAgree, MetaLast, DeleterDisturbs, DisturbedExcused, Saves, Deletes
<1>7. \A d \in Clients : Saves(d)' /\ d # c =>
        op'[d] = op[d] /\ Saves(d) /\ op[d].snap \in Snaps
  BY <1>1 DEF Saves, Types, OfOne
<1>8. StoredSoFar'
  <2>1. ASSUME NEW d \in Clients, d # c, Saves(d)', op'[d].quiet
        PROVE  /\ \A f \in Images \ op'[d].files : objects'[op'[d].snap][f] = op'[d].content
               /\ \A w \in op'[d].writing : objects'[op'[d].snap][w] = "torn"
    <3>1. CASE op[d].snap = e.snap
      <4>1. \A f \in Images \ op[d].files : f \in Objects /\ objects[e.snap][f] = op[d].content
        BY <1>7, <2>1, <3>1 DEF StoredSoFar, Objects
      <4> QED
        BY <1>3, <1>4, <1>7, <2>1, <3>1, <4>1
    <3>2. CASE op[d].snap # e.snap
      BY <1>3, <1>7, <2>1, <3>2 DEF StoredSoFar
    <3> QED
      BY <3>1, <3>2
  <2> QED
    BY <1>1, <2>1 DEF StoredSoFar
<1>9. MetaAgrees'
  <2>1. ASSUME NEW d \in Clients, d # c, Saves(d), op[d].snap \in Snaps,
               op[d].snap \notin overwritten \cup mixed
        PROVE  \/ ~Readable(op[d].snap)'
               \/ backend = "s3" /\ objects'[op[d].snap][Meta] = op[d].content
    <3>1. CASE op[d].snap = e.snap
      BY <1>4, <2>1, <3>1
    <3>2. CASE op[d].snap # e.snap
      BY <1>3, <2>1, <3>2 DEF MetaAgrees, Readable
    <3> QED
      BY <3>1, <3>2
  <2> QED
    BY <1>1, <1>7, <2>1 DEF MetaAgrees, Readable
<1>10. AnnouncedComplete'
  BY <1>2, <1>3 DEF AnnouncedComplete, Readable, Complete
<1>11. InOneStep'
  <2>1. ASSUME backend = "s3", NEW s \in Snaps, NEW w \in Objects PROVE objects'[s][w] # "shared"
    <3>1. objects'[s][w] \in {objects[s][w], x}
      BY <1>3
    <3>2. x # "shared"
      BY <1>2, <2>1, StoreAssumption
    <3> QED
      BY <2>1, <3>1, <3>2 DEF InOneStep
  <2> QED
    BY <1>1, <1>7, <2>1 DEF InOneStep
<1> QED
  BY <1>1, <1>5, <1>6, <1>8, <1>9, <1>10, <1>11

(* What a Save may write next.                                             *)
LEMMA WritableFiles ==
  ASSUME NEW c \in Clients, NEW o \in Writable(c)
  PROVE  o \in op[c].files /\ (o = Meta => op[c].files = {Meta})
<1>1. CASE op[c].files = {Meta}
  BY <1>1 DEF Writable
<1>2. CASE op[c].files # {Meta}
  BY <1>2 DEF Writable
<1> QED
  BY <1>1, <1>2

LEMMA TruncateStep ==
  ASSUME StoreInv, NEW c \in Clients, NEW o \in Objects, Truncate(c, o)
  PROVE  /\ StoreInv' /\ Others(c) /\ op'[c].at = "save"
         /\ op'[c].writing \subseteq op'[c].files
<1> USE DEF StoreInv
<1>1. PICK e : e = [op[c] EXCEPT !.writing = {o}]
  OBVIOUS
<1>11. PICK x : x = IF \A d \in Writers(op[c].snap, o) : op[d].content = op[c].content
                      THEN "torn" ELSE "shared"
  OBVIOUS
<1>2. /\ Saves(c) /\ backend = "pvc" /\ op' = [op EXCEPT ![c] = e]
      /\ objects' = [objects EXCEPT ![op[c].snap][o] = x]
      /\ UNCHANGED <<backend, dirs, overwritten, deleted, mixed>>
      /\ o \in op[c].files /\ (o = Meta => op[c].files = {Meta})
  <2>1. op' = [op EXCEPT ![c] = e]
    BY <1>1, Zenon DEF Truncate
  <2> QED
    BY <1>11, <2>1, WritableFiles DEF Truncate, Saves
<1>3. op[c] \in Ops /\ op[c].snap \in Snaps
  BY <1>2 DEF Types, OfOne, Saves
<1>4. /\ e \in Ops /\ e.writing = {o} /\ e.at = op[c].at /\ e.snap = op[c].snap
      /\ e.content = op[c].content /\ e.files = op[c].files /\ e.quiet = op[c].quiet
  <2>1. {o} \in SUBSET Objects
    OBVIOUS
  <2> QED
    BY <1>1, <1>3, <2>1, SetWriting
<1>5. \A w \in Objects : objects'[e.snap][w] = IF w = o THEN x ELSE objects[e.snap][w]
  BY <1>2, <1>3, <1>4 DEF Types
<1>6. e.quiet => /\ \A f \in Images \ e.files : objects'[e.snap][f] = e.content
                 /\ \A w \in e.writing : objects'[e.snap][w] = "torn"
  <2>1. ASSUME e.quiet, NEW f \in Images, f \notin e.files
        PROVE  objects'[e.snap][f] = e.content
    <3>1. op[c].quiet /\ f \notin op[c].files /\ f \in Objects /\ f # o
      BY <1>2, <1>4, <2>1 DEF Objects
    <3>2. objects[e.snap][f] = e.content
      BY <1>2, <1>4, <2>1, <3>1 DEF StoredSoFar
    <3> QED
      BY <1>5, <3>1, <3>2
  <2>2. ASSUME e.quiet PROVE objects'[e.snap][o] = "torn"
    <3>1. \A d \in Writers(op[c].snap, o) : d = c
      BY <1>2, <1>4, <2>2 DEF Writers, At, SaversInv, SaversAgree, Saves
    <3> QED
      BY <1>5, <1>11, <3>1
  <2> QED
    BY <1>4, <2>1, <2>2
<1>7. e.snap \notin overwritten \cup mixed => ~Readable(e.snap)'
  BY <1>2, <1>3, <1>4, <1>5, <1>11 DEF MetaAgrees, Readable, Objects
<1>8. e.at = "save" /\ x \in States
  BY <1>2, <1>4, <1>11 DEF Saves, States
<1>9. e.writing \subseteq e.files /\ (Meta \in e.writing => e.files = {Meta})
  BY <1>2, <1>4
<1>12. GoesOn(c, e, o, x)
  BY <1>2, <1>4, <1>8, <1>9 DEF GoesOn
<1>13. KeepsOrder(e)
  BY <1>6, <1>7 DEF KeepsOrder
<1>10. StoreInv' /\ Others(c) /\ op'[c] = e
  BY <1>2, <1>4, <1>8, <1>12, <1>13, SaveGoesOn
<1> QED
  BY <1>8, <1>9, <1>10

LEMMA SetFilesWriting ==
  ASSUME NEW e \in Ops, NEW x \in SUBSET Objects, NEW e1, e1 = [e EXCEPT !.files = x],
         NEW n, n = [e1 EXCEPT !.writing = {}]
  PROVE  /\ n \in Ops /\ n.files = x /\ n.writing = {}
         /\ n.at = e.at /\ n.snap = e.snap /\ n.content = e.content /\ n.quiet = e.quiet
  BY DEF Ops

(* What a Save leaves in an object: its own content, on S3 or if it is     *)
(* quiet.                                                                  *)
LEMMA LeavesOwn ==
  ASSUME StoreInv, NEW c \in Clients, Saves(c), NEW o \in Objects,
         backend = "s3" \/ o \in op[c].writing, NEW x \in Leaves(c, o)
  PROVE  x \in States /\ (backend = "s3" \/ op[c].quiet => x = op[c].content)
<1> USE DEF StoreInv
<1> DEFINE s == op[c].snap
<1>1. s \in Snaps /\ objects[s][o] \in States /\ op[c].content \in Contents
  BY CallTypes DEF Types, Saves, OfOne
<1>2. x \in States
  <2>1. \A d \in At("save", s) : op[d].content \in Contents
    BY DEF At, Types, Saves
  <2>2. \/ x = objects[s][o]
        \/ x \in {op[d].content : d \in At("save", s)} \cup {"torn"}
        \/ x = op[c].content
    BY DEF Leaves
  <2> QED
    BY <1>1, <2>1, <2>2 DEF States
<1>3. ASSUME backend = "s3" \/ op[c].quiet
      PROVE  Writers(s, o) \ {c} = {} /\ objects[s][o] # "shared"
  <2>1. CASE backend = "s3"
    BY <1>1, <2>1 DEF InOneStep, Writers, At, Saves
  <2>2. CASE backend # "s3" /\ op[c].quiet
    <3>1. \A d \in Clients : Saves(d) /\ op[d].snap = s => d = c
      BY <2>2 DEF SaversInv, SaversAgree
    <3>2. objects[s][o] = "torn"
      BY <2>2 DEF StoredSoFar
    <3> QED
      BY <3>1, <3>2 DEF Writers, At, Saves
  <2> QED
    BY <1>3, <2>1, <2>2
<1>4. ASSUME backend = "s3" \/ op[c].quiet PROVE x = op[c].content
  BY <1>3, <1>4 DEF Leaves
<1> QED
  BY <1>2, <1>4

(* An image is stored, or lost with the directory.                         *)
LEMMA ImageDone ==
  ASSUME StoreInv, NEW c \in Clients, Saves(c), NEW o \in op[c].files, o # Meta,
         op' = [op EXCEPT ![c].files = @ \ {o}, ![c].writing = {}],
         NEW x \in States, backend = "s3" \/ op[c].quiet => x = op[c].content,
         \/ objects' = [objects EXCEPT ![op[c].snap][o] = x]
         \/ objects' = objects /\ ~op[c].quiet,
         UNCHANGED <<backend, dirs, overwritten, deleted, mixed>>
  PROVE  StoreInv' /\ Others(c) /\ op'[c].at = "save" /\ op'[c].writing = {}
<1> USE DEF StoreInv
<1>1. /\ op[c] \in Ops /\ op[c].snap \in Snaps /\ op[c].content \in Contents
      /\ op[c].files \in SUBSET Objects
  BY DEF Types, OfOne, Saves, Ops
<1>2. PICK e1 : e1 = [op[c] EXCEPT !.files = op[c].files \ {o}]
  OBVIOUS
<1>3. PICK e : e = [e1 EXCEPT !.writing = {}]
  OBVIOUS
<1>4. op' = [op EXCEPT ![c] = e]
  BY <1>2, <1>3, Zenon DEF Types
<1>5. PICK F \in SUBSET Objects : F = op[c].files \ {o}
  BY <1>1
<1>20. /\ e \in Ops /\ e.at = op[c].at /\ e.snap = op[c].snap /\ e.content = op[c].content
       /\ e.files = F /\ e.quiet = op[c].quiet /\ e.writing = {}
  <2>1. op[c] \in Ops /\ e1 = [op[c] EXCEPT !.files = F]
    BY <1>1, <1>2, <1>5
  <2>2. e \in Ops
    BY <1>3, <2>1, SetFilesWriting
  <2>6. e.files = F
    BY <1>3, <2>1, SetFilesWriting
  <2>7. e.writing = {}
    BY <1>3, <2>1, SetFilesWriting
  <2>3. e.at = op[c].at /\ e.snap = op[c].snap
    BY <1>3, <2>1, SetFilesWriting
  <2>4. e.content = op[c].content
    BY <1>3, <2>1, SetFilesWriting
  <2>5. e.quiet = op[c].quiet
    BY <1>3, <2>1, SetFilesWriting
  <2> QED
    BY <2>2, <2>3, <2>4, <2>5, <2>6, <2>7
<1>6. /\ e \in Ops /\ e.at = op[c].at /\ e.snap = op[c].snap /\ e.content = op[c].content
      /\ e.files = op[c].files \ {o} /\ e.quiet = op[c].quiet /\ e.writing = {}
  BY <1>5, <1>20
<1>7. \/ objects' = objects /\ ~e.quiet
      \/ \A w \in Objects :
           objects'[e.snap][w] = IF w = o THEN x ELSE objects[e.snap][w]
  BY <1>1, <1>6 DEF Types
<1>8. objects'[e.snap][Meta] = objects[e.snap][Meta]
  BY <1>7 DEF Objects
<1>9. e.quiet => \A f \in Images \ e.files : objects'[e.snap][f] = e.content
  <2>1. ASSUME e.quiet, NEW f \in Images, f \notin e.files
        PROVE  objects'[e.snap][f] = e.content
    <3>1. op[c].quiet
      BY <1>6, <2>1
    <3>2. \A w \in Objects :
            objects'[e.snap][w] = IF w = o THEN x ELSE objects[e.snap][w]
      BY <1>7, <2>1
    <3>3. f \in Objects /\ (f = o \/ f \notin op[c].files)
      BY <1>6, <2>1 DEF Objects
    <3>4. f \notin op[c].files => objects[e.snap][f] = e.content
      BY <1>6, <2>1, <3>1 DEF StoredSoFar
    <3>5. x = e.content
      BY <1>6, <3>1
    <3> QED
      BY <3>2, <3>3, <3>4, <3>5
  <2> QED
    BY <2>1
<1>10. e.snap \notin overwritten \cup mixed =>
         \/ ~Readable(e.snap)'
         \/ backend = "s3" /\ objects'[e.snap][Meta] = e.content
  BY <1>6, <1>8 DEF MetaAgrees, Readable
<1>11. ASSUME e.snap \notin overwritten \cup deleted \cup mixed, Readable(e.snap)' PROVE Complete(e.snap)'
  <2>1. Complete(e.snap)
    BY <1>1, <1>6, <1>8, <1>11 DEF AnnouncedComplete, Readable
  <2>2. objects'[e.snap][Meta] = e.content /\ backend = "s3"
    BY <1>10, <1>11
  <2>3. x = e.content
    BY <1>6, <2>2
  <2> QED
    BY <1>7, <1>8, <1>11, <2>1, <2>2, <2>3 DEF Complete, Objects
<1>12. e.at = "save" /\ o \in Objects
  BY <1>1, <1>6 DEF Saves, States
<1>13. KeepsOrder(e)
  BY <1>6, <1>9, <1>10, <1>11 DEF KeepsOrder
<1>14. GoesOn(c, e, o, x)
  BY <1>4, <1>6, <1>12 DEF GoesOn
<1>15. StoreInv' /\ Others(c) /\ op'[c] = e
  BY <1>6, <1>12, <1>13, <1>14, SaveGoesOn
<1> QED
  BY <1>6, <1>12, <1>15

(* meta.json is stored.                                                    *)
LEMMA AnnounceStep ==
  ASSUME StoreInv, NEW c \in Clients, Saves(c), op[c].files = {Meta}, Stored(c, Meta),
         backend = "s3" \/ Meta \in op[c].writing
  PROVE  /\ StoreInv' /\ Others(c) /\ op'[c].at = "idle" /\ op'[c].writing = {}
         /\ \A d \in Clients \ {c} : d \in Pruning => ~op'[d].quiet
<1> USE DEF StoreInv
<1> DEFINE s == op[c].snap
<1>1. op[c] \in Ops /\ s \in Snaps /\ op[c].content \in Contents
  BY DEF Types, OfOne, Saves
<1>18. PICK x \in Leaves(c, Meta) : objects' = [objects EXCEPT ![s][Meta] = x]
  BY DEF Stored
<1>19. x \in States /\ (backend = "s3" \/ op[c].quiet => x = op[c].content)
  BY LeavesOwn DEF Objects
<1>2. /\ overwritten' = overwritten \ {s}
      /\ deleted' = IF op[c].quiet THEN deleted \ {s} ELSE deleted
      /\ mixed' = IF op[c].quiet THEN mixed \ {s} ELSE mixed
      /\ op' = Disturb(Pruning, [op EXCEPT ![c] = Idle])
      /\ UNCHANGED <<backend, dirs>>
  BY DEF Stored
<1>3. op \in [Clients -> Ops] /\ c \notin Pruning
  BY DEF Types, Pruning, Saves
<1>4. /\ op' \in [Clients -> Ops] /\ op'[c] = Idle /\ Others(c)
      /\ \A d \in Clients \ {c} : /\ d \notin Pruning => op'[d] = op[d]
                                  /\ d \in Pruning => ~op'[d].quiet
  BY <1>2, <1>3, IdleOp, ReplacedAndDisturbed
<1>5. \A d \in Clients \ {c} : /\ op'[d].at = op[d].at /\ op'[d].snap = op[d].snap
                               /\ op'[d].content = op[d].content
  BY <1>4 DEF Others
<1>6. op'[c].at = "idle" /\ op'[c].writing = {}
  BY <1>4, IdleOp
<1>7. \A d \in Clients : Saves(d)' => d # c /\ Saves(d) /\ op'[d] = op[d] /\ op[d].snap \in Snaps
  BY <1>4, <1>5, <1>6 DEF Saves, Pruning, Types, OfOne
<1>8. \A d \in Clients : Deletes(d)' => Deletes(d) /\ op'[d].snap = op[d].snap
  BY <1>4, <1>5, <1>6 DEF Deletes
<1>9. /\ objects' \in [Snaps -> [Objects -> States]]
      /\ \A t \in Snaps \ {s} : objects'[t] = objects[t]
      /\ objects'[s][Meta] = x
      /\ \A i \in Images : objects'[s][i] = objects[s][i]
  BY <1>1, <1>18, <1>19, StoreAssumption DEF Types, Objects
<1>10. Types'
  <2>1. \A d \in Clients : op'[d].at \in OfOne =>
          d # c /\ op'[d].at = op[d].at /\ op'[d].snap = op[d].snap
                /\ op'[d].content = op[d].content
    BY <1>4, <1>5, <1>6 DEF OfOne
  <2> QED
    BY <1>2, <1>4, <1>9, <2>1 DEF Types, OfOne, Saves
<1>20. \A d \in Clients : Saves(d) /\ d # c /\ op[d].snap = s =>
         /\ op[c].quiet <=> op[d].quiet
         /\ op[c].quiet \/ s \notin mixed => backend = "s3" /\ op[d].content = op[c].content
  BY DEF SaversInv, SaversAgree
<1>11. DeleterDisturbs'
  <2>1. ASSUME NEW d \in Clients, Deletes(d)' PROVE op'[d].snap \in deleted'
    <3>1. op[d].snap = s => ~op[c].quiet
      BY <1>8, <2>1 DEF SaversInv, DeleterDisturbs
    <3> QED
      BY <1>2, <1>8, <2>1, <3>1 DEF SaversInv, DeleterDisturbs
  <2>2. ASSUME NEW d \in Clients, Deletes(d)', NEW b \in Clients, Saves(b)',
               op'[b].snap = op'[d].snap
        PROVE  ~op'[b].quiet
    BY <1>7, <1>8, <2>2 DEF SaversInv, DeleterDisturbs
  <2> QED
    BY <2>1, <2>2 DEF DeleterDisturbs
<1>12. MetaLast' /\ DisturbedExcused'
  <2>1. ASSUME NEW d \in Clients, Saves(d)', ~op'[d].quiet
        PROVE  op'[d].snap \in deleted' \cup mixed'
    <3>1. op[d].snap \in deleted \cup mixed
      BY <1>7, <2>1 DEF SaversInv, DisturbedExcused
    <3>2. op[d].snap = s => ~op[c].quiet
      BY <1>7, <1>20, <2>1
    <3> QED
      BY <1>2, <1>7, <2>1, <3>1, <3>2
  <2>2. MetaLast'
    BY <1>7 DEF SaversInv, MetaLast
  <2> QED
    BY <2>1, <2>2 DEF DisturbedExcused
<1>21. SaversAgree'
  <2>1. ASSUME NEW a \in Clients, NEW b \in Clients, a # b, Saves(a)', Saves(b)',
               op'[a].snap = op'[b].snap
        PROVE  /\ op'[a].quiet => op'[b].quiet
               /\ op'[a].quiet \/ op'[a].snap \notin mixed' =>
                    backend' = "s3" /\ op'[a].content = op'[b].content
    <3>1. /\ op[a].quiet => op[b].quiet
          /\ op[a].quiet \/ op[a].snap \notin mixed =>
               backend = "s3" /\ op[a].content = op[b].content
      BY <1>7, <2>1 DEF SaversInv, SaversAgree
    <3>2. ASSUME op[a].snap = s, op[c].quiet
          PROVE  backend = "s3" /\ op[a].content = op[b].content
      BY <1>7, <1>20, <2>1, <3>2
    <3>3. op[a].snap \in mixed \ mixed' => op[a].snap = s /\ op[c].quiet
      BY <1>2
    <3> QED
      BY <1>2, <1>7, <2>1, <3>1, <3>2, <3>3
  <2> QED
    BY <2>1 DEF SaversAgree
<1>14. StoredSoFar'
  <2>1. ASSUME NEW d \in Clients, Saves(d)', op'[d].quiet
        PROVE  /\ \A f \in Images \ op'[d].files : objects'[op'[d].snap][f] = op'[d].content
               /\ \A w \in op'[d].writing : objects'[op'[d].snap][w] = "torn"
    <3>1. CASE op[d].snap = s
      <4>1. op[d].writing = {}
        BY <1>7, <1>20, <2>1, <3>1 DEF InOneStep
      <4> QED
        BY <1>7, <1>9, <2>1, <3>1, <4>1 DEF StoredSoFar
    <3>2. CASE op[d].snap # s
      BY <1>7, <1>9, <2>1, <3>2 DEF StoredSoFar
    <3> QED
      BY <3>1, <3>2
  <2> QED
    BY <2>1 DEF StoredSoFar
<1>15. MetaAgrees'
  <2>1. ASSUME NEW d \in Clients, Saves(d)', op'[d].snap \notin overwritten' \cup mixed'
        PROVE  \/ ~Readable(op[d].snap)'
               \/ backend' = "s3" /\ objects'[op'[d].snap][Meta] = op'[d].content
    <3>1. CASE op[d].snap = s
      <4>1. op[c].quiet \/ s \notin mixed
        BY <1>2, <1>7, <2>1, <3>1
      <4> QED
        BY <1>2, <1>7, <1>9, <1>19, <1>20, <2>1, <3>1, <4>1
    <3>2. CASE op[d].snap # s
      <4>1. /\ Saves(d) /\ op'[d] = op[d] /\ op[d].snap \notin overwritten \cup mixed
            /\ objects'[op[d].snap] = objects[op[d].snap]
        BY <1>2, <1>7, <1>9, <2>1, <3>2
      <4> QED
        BY <1>2, <4>1 DEF MetaAgrees, Readable
    <3> QED
      BY <3>1, <3>2
  <2>2. \A d \in Clients : Saves(d)' => op'[d].snap = op[d].snap
    BY <1>7
  <2> QED
    BY <2>1, <2>2 DEF MetaAgrees, Readable
<1>16. ASSUME NEW t \in Snaps, t \notin overwritten' \cup deleted' \cup mixed', Readable(t)'
       PROVE  Complete(t)'
  <2>1. CASE t = s
    <3>1. op[c].quiet
      BY <1>2, <1>16, <2>1 DEF SaversInv, DisturbedExcused
    <3>2. \A i \in Images : objects[s][i] = op[c].content
      BY <3>1, StoreAssumption DEF StoredSoFar
    <3> QED
      BY <1>9, <1>16, <1>19, <2>1, <3>1, <3>2 DEF Complete
  <2>2. CASE t # s
    <3>1. t \notin overwritten \cup deleted \cup mixed /\ objects'[t] = objects[t]
      BY <1>2, <1>9, <1>16, <2>2
    <3> QED
      BY <1>16, <3>1 DEF AnnouncedComplete, Complete, Readable
  <2> QED
    BY <2>1, <2>2
<1>17. AnnouncedComplete'
  BY <1>16 DEF AnnouncedComplete
<1>22. InOneStep'
  <2>1. ASSUME backend = "s3", NEW u \in Snaps, NEW o \in Objects PROVE objects'[u][o] # "shared"
    <3>1. objects'[u][o] \in {objects[u][o], x}
      BY <1>9, <2>1 DEF Objects
    <3>2. x # "shared"
      BY <1>1, <1>19, <2>1, StoreAssumption
    <3> QED
      BY <2>1, <3>1, <3>2 DEF InOneStep
  <2> QED
    BY <1>2, <1>7, <2>1 DEF InOneStep
<1> QED
  BY <1>4, <1>6, <1>10, <1>11, <1>12, <1>14, <1>15, <1>17, <1>21, <1>22 DEF SaversInv

LEMMA StoredStep ==
  ASSUME StoreInv, NEW c \in Clients, Saves(c), NEW o \in op[c].files,
         o = Meta => op[c].files = {Meta}, Stored(c, o),
         backend = "s3" \/ o \in op[c].writing
  PROVE  /\ StoreInv' /\ Others(c) /\ op'[c].at \in {"idle", "save"} /\ op'[c].writing = {}
         /\ o = Meta => \A d \in Clients \ {c} : d \in Pruning => ~op'[d].quiet
<1>1. CASE o = Meta
  BY <1>1, AnnounceStep
<1>2. CASE o # Meta
  <2>1. PICK x \in Leaves(c, o) : objects' = [objects EXCEPT ![op[c].snap][o] = x]
    BY Zenon DEF Stored
  <2>2. /\ op' = [op EXCEPT ![c].files = @ \ {o}, ![c].writing = {}]
        /\ UNCHANGED <<backend, dirs, overwritten, deleted, mixed>>
    BY <1>2, Zenon DEF Stored
  <2>3. o \in Objects
    BY CallTypes
  <2>4. x \in States /\ (backend = "s3" \/ op[c].quiet => x = op[c].content)
    BY <2>1, <2>3, LeavesOwn
  <2>5. /\ StoreInv' /\ Others(c) /\ op'[c].at = "save" /\ op'[c].writing = {}
    BY <1>2, <2>1, <2>2, <2>4, ImageDone
  <2> QED
    BY <1>2, <2>5
<1> QED
  BY <1>1, <1>2

(* The object that a Save stores, or whose bytes are lost.                 *)
LEMMA BeingWritten ==
  ASSUME StoreInv, NEW c \in Clients, Saves(c), NEW o \in op[c].writing
  PROVE  o \in op[c].files /\ o \in Objects /\ (o = Meta => op[c].files = {Meta})
<1>1. op[c].files \in SUBSET Objects
  BY CallTypes
<1> QED
  BY <1>1 DEF StoreInv, SaversInv, MetaLast

LEMMA PutObjectStep ==
  ASSUME StoreInv, NEW c \in Clients, NEW o \in Objects, PutObject(c, o)
  PROVE  /\ StoreInv' /\ Others(c) /\ op'[c].at \in {"idle", "save"} /\ op'[c].writing = {}
         /\ o = Meta => \A d \in Clients \ {c} : d \in Pruning => ~op'[d].quiet
  BY WritableFiles, StoredStep DEF PutObject, Saves

LEMMA WriteEndsStep ==
  ASSUME StoreInv, NEW c \in Clients, WriteEnds(c)
  PROVE  /\ StoreInv' /\ Others(c) /\ op'[c].at \in {"idle", "save"} /\ op'[c].writing = {}
         /\ \E o \in op[c].writing :
              /\ op[c].at = "save" /\ objects[op[c].snap][o] # "absent" /\ Stored(c, o)
              /\ o = Meta => \A d \in Clients \ {c} : d \in Pruning => ~op'[d].quiet
<1>1. PICK o \in op[c].writing :
        op[c].at = "save" /\ objects[op[c].snap][o] # "absent" /\ Stored(c, o)
  BY DEF WriteEnds
<1>2. Saves(c) /\ o \in op[c].files /\ (o = Meta => op[c].files = {Meta})
  BY <1>1, BeingWritten DEF Saves
<1> QED
  BY <1>1, <1>2, StoredStep

LEMMA WriteIsLostStep ==
  ASSUME StoreInv, NEW c \in Clients, WriteIsLost(c)
  PROVE  StoreInv' /\ Others(c) /\ op'[c].at \in {"idle", "save"} /\ op'[c].writing = {}
<1>1. PICK o \in op[c].writing :
        /\ Saves(c) /\ objects[op[c].snap][o] = "absent"
        /\ op' = IF o = Meta THEN [op EXCEPT ![c] = Idle]
                   ELSE [op EXCEPT ![c].files = @ \ {o}, ![c].writing = {}]
        /\ UNCHANGED <<backend, objects, dirs, overwritten, deleted, mixed>>
  BY Zenon DEF WriteIsLost, Saves
<1>2. o \in op[c].files /\ ~op[c].quiet
  BY <1>1, BeingWritten DEF StoreInv, StoredSoFar
<1>5. op[c].content \in States
  BY <1>1 DEF StoreInv, Types, States
<1>3. CASE o = Meta
  <2>1. op' = [op EXCEPT ![c] = Idle] /\ dirs' \subseteq Snaps
    BY <1>1, <1>3 DEF StoreInv, Types
  <2>2. StoreInv' /\ Others(c) /\ op'[c] = Idle
    BY <1>1, <2>1, IdleOp, Bystander
  <2> QED
    BY <2>2, IdleOp
<1>4. CASE o # Meta
  <2>1. op' = [op EXCEPT ![c].files = @ \ {o}, ![c].writing = {}]
    BY <1>1, <1>4
  <2> QED
    BY <1>1, <1>2, <1>4, <1>5, <2>1, ImageDone
<1> QED
  BY <1>3, <1>4


(*--------------------------------- Delete ----------------------------------*)
LEMMA NextDeleteStep ==
  ASSUME StoreInv, NEW c \in Clients, NextDelete(c)
  PROVE  /\ StoreInv' /\ Others(c)
         /\ op'[c].at = "delete" /\ op'[c].writing = op[c].writing
         /\ op'[c].quiet = op[c].quiet /\ op'[c].snaps = op[c].snaps
         /\ \E s \in op[c].snaps :
              /\ s \in Snaps /\ deleted' = deleted \cup {s}
              /\ op'[c].snap = s /\ op'[c].files = Present(s)
              /\ \A d \in Clients \ {c} :
                   op[d].at \in {"check", "load"} /\ op[d].snap = s => ~op'[d].quiet
<1> USE DEF StoreInv
<1>1. op[c] \in Ops /\ op[c].snaps \in SUBSET Snaps /\ op[c].snaps # {}
  BY DEF Types, Ops, NextDelete
<1>2. PICK s \in Snaps : s = Smallest(op[c].snaps)
  BY <1>1, SmallestIn
<1>3. PICK e1 : e1 = [op[c] EXCEPT !.at = "delete"]
  OBVIOUS
<1>4. PICK e2 : e2 = [e1 EXCEPT !.snap = s]
  OBVIOUS
<1>5. PICK F \in SUBSET Objects : F = Present(s)
  BY DEF Present
<1>6. PICK e : e = [e2 EXCEPT !.files = F]
  OBVIOUS
<1>7. /\ e \in Ops /\ e.at = "delete" /\ e.snap = s /\ e.files = F
      /\ e.writing = op[c].writing /\ e.quiet = op[c].quiet /\ e.snaps = op[c].snaps
  <2>1. /\ e1 \in Ops /\ e1.at = "delete"
        /\ e1.writing = op[c].writing /\ e1.quiet = op[c].quiet /\ e1.snaps = op[c].snaps
    BY <1>1, <1>3, SetAt DEF Ats
  <2>2. /\ e2 \in Ops /\ e2.at = e1.at /\ e2.snap = s
        /\ e2.writing = e1.writing /\ e2.quiet = e1.quiet /\ e2.snaps = e1.snaps
    BY <1>4, <2>1, SetSnap
  <2>3. /\ e \in Ops /\ e.at = e2.at /\ e.snap = e2.snap /\ e.files = F
        /\ e.writing = e2.writing /\ e.quiet = e2.quiet /\ e.snaps = e2.snaps
    BY <1>6, <2>2, SetFiles
  <2> QED
    BY <2>1, <2>2, <2>3
<1>8. PICK who : who = At("save", s) \cup At("check", s) \cup At("load", s)
  OBVIOUS
<1>9. op \in [Clients -> Ops]
  BY DEF Types
<1>11. op' = Disturb(who, [op EXCEPT ![c] = e])
  BY <1>2, <1>3, <1>4, <1>5, <1>6, <1>8, <1>9, Zenon DEF NextDelete
<1>12. deleted' = deleted \cup {s} /\ UNCHANGED <<backend, objects, dirs, overwritten, mixed>>
       /\ op[c].at = "prune"
  BY <1>2 DEF NextDelete
<1>10. c \notin who
  BY <1>8, <1>12 DEF At
<1>13. /\ op' \in [Clients -> Ops] /\ op'[c] = e /\ Others(c)
       /\ \A d \in Clients \ {c} : /\ d \notin who => op'[d] = op[d]
                                   /\ d \in who => ~op'[d].quiet
  BY <1>7, <1>9, <1>10, <1>11, ReplacedAndDisturbed
<1>14. op'[c].at = "delete" /\ op'[c].snap = s
  BY <1>7, <1>13
<1>24. \A d \in Clients \ {c} :
         op[d].at \in {"check", "load"} /\ op[d].snap = s => ~op'[d].quiet
  BY <1>8, <1>13 DEF At
<1>15. ASSUME NEW d \in Clients, op'[d].at = "save"
       PROVE  /\ d # c /\ op[d].at = "save" /\ op'[d].snap = op[d].snap
              /\ op'[d].content = op[d].content /\ op'[d].files = op[d].files
              /\ op'[d].writing = op[d].writing
              /\ op'[d].quiet => op[d].quiet
              /\ op[d].snap = s => ~op'[d].quiet
              /\ op[d].snap # s /\ op[d].quiet => op'[d].quiet
  <2>1. /\ d # c /\ op[d].at = "save" /\ op'[d].snap = op[d].snap
        /\ op'[d].content = op[d].content /\ op'[d].files = op[d].files
        /\ op'[d].writing = op[d].writing /\ (op'[d].quiet => op'[d] = op[d])
    BY <1>13, <1>14, <1>15 DEF Others
  <2>2. d \in who <=> op[d].snap = s
    BY <1>8, <2>1 DEF At
  <2> QED
    BY <1>13, <2>1, <2>2
<1>16. \A d \in Clients : d # c => op'[d].at = op[d].at /\ op'[d].snap = op[d].snap
  BY <1>13 DEF Others
<1>17. Types'
  BY <1>12, <1>13, <1>14, <1>15, <1>16 DEF Types, OfOne, Saves
<1>18. SaversAgree' /\ MetaLast'
  BY <1>12, <1>15 DEF SaversInv, SaversAgree, MetaLast, Saves
<1>19. DisturbedExcused'
  BY <1>12, <1>15 DEF SaversInv, DisturbedExcused, Saves
<1>20. DeleterDisturbs'
  <2>1. ASSUME NEW d \in Clients, op'[d].at = "delete"
        PROVE  /\ op'[d].snap \in deleted'
               /\ \A b \in Clients : op'[b].at = "save" /\ op'[b].snap = op'[d].snap => ~op'[b].quiet
    <3>1. CASE d = c
      BY <1>12, <1>14, <1>15, <3>1
    <3>2. CASE d # c
      BY <1>12, <1>15, <1>16, <2>1, <3>2 DEF SaversInv, DeleterDisturbs, Saves, Deletes
    <3> QED
      BY <3>1, <3>2
  <2> QED
    BY <2>1 DEF DeleterDisturbs, Saves, Deletes
<1>21. StoredSoFar' /\ InOneStep'
  BY <1>12, <1>15 DEF StoredSoFar, InOneStep, Saves
<1>22. MetaAgrees'
  BY <1>12, <1>15 DEF MetaAgrees, Saves, Readable
<1>23. AnnouncedComplete'
  BY <1>12 DEF AnnouncedComplete, Readable, Complete
<1> QED
  BY <1>1, <1>2, <1>5, <1>7, <1>12, <1>13, <1>17, <1>18, <1>19, <1>20, <1>21, <1>22, <1>23,
     <1>24, SmallestIn DEF SaversInv

LEMMA DeleteObjectStep ==
  ASSUME StoreInv, NEW c \in Clients, NEW o \in Objects, DeleteObject(c, o)
  PROVE  /\ StoreInv' /\ Others(c)
         /\ op'[c].at = "delete" /\ op'[c].snap = op[c].snap /\ op'[c].writing = op[c].writing
         /\ op'[c].quiet = op[c].quiet /\ op'[c].snaps = op[c].snaps
         /\ op'[c].files = op[c].files \ {o}
<1> USE DEF StoreInv
<1>1. op[c] \in Ops /\ op[c].snap \in Snaps /\ op[c].at = "delete" /\ op[c].files \in SUBSET Objects
  BY DEF Types, Ops, DeleteObject, OfOne
<1>2. PICK F \in SUBSET Objects : F = op[c].files \ {o}
  BY <1>1
<1>3. PICK e : e = [op[c] EXCEPT !.files = F]
  OBVIOUS
<1>4. /\ e \in Ops /\ e.at = "delete" /\ e.snap = op[c].snap /\ e.writing = op[c].writing
      /\ e.quiet = op[c].quiet /\ e.snaps = op[c].snaps /\ e.files = F
  <2>1. /\ e \in Ops /\ e.at = op[c].at /\ e.snap = op[c].snap /\ e.writing = op[c].writing
        /\ e.quiet = op[c].quiet /\ e.snaps = op[c].snaps /\ e.files = F
    <3>1. op[c] \in Ops
      BY <1>1
    <3>2. e \in Ops /\ e.files = F
      BY <1>3, <3>1, SetFiles
    <3>3. e.at = op[c].at /\ e.snap = op[c].snap
      BY <1>3, <3>1, SetFiles
    <3>4. e.writing = op[c].writing /\ e.snaps = op[c].snaps
      BY <1>3, <3>1, SetFiles
    <3>5. e.quiet = op[c].quiet
      BY <1>3, <3>1, SetFiles
    <3> QED
      BY <3>2, <3>3, <3>4, <3>5
  <2> QED
    BY <1>1, <2>1
<1>5. op' = [op EXCEPT ![c] = e]
  <2>1. op \in [Clients -> Ops]
    BY DEF Types
  <2> QED
    BY <1>2, <1>3, <2>1, Zenon DEF DeleteObject
<1>6. op' \in [Clients -> Ops] /\ op'[c] = e /\ Others(c) /\ \A d \in Clients : d # c => op'[d] = op[d]
  BY <1>4, <1>5, Replaced DEF Types
<1>7. UNCHANGED <<backend, dirs, overwritten, deleted, mixed>> /\ op[c].snap \in deleted
  BY <1>1 DEF DeleteObject, SaversInv, DeleterDisturbs, Deletes
<1>8. objects' = [objects EXCEPT ![op[c].snap][o] = "absent"]
  BY DEF DeleteObject
<1>9. /\ objects' \in [Snaps -> [Objects -> States]]
      /\ \A t \in Snaps : t # op[c].snap => objects'[t] = objects[t]
      /\ objects'[op[c].snap][Meta] \in {"absent", objects[op[c].snap][Meta]}
      /\ \A s \in Snaps, p \in Objects : objects'[s][p] \in {"absent", objects[s][p]}
  BY <1>1, <1>8 DEF Types, States, Objects
<1>10. /\ \A d \in Clients : Saves(d)' => Saves(d) /\ op'[d] = op[d] /\ op[d].snap \in Snaps
       /\ \A d \in Clients : Deletes(d)' => Deletes(d) /\ op'[d].snap = op[d].snap
  BY <1>1, <1>4, <1>6 DEF Saves, Deletes, Types, OfOne
<1>11. \A d \in Clients : Saves(d) /\ op[d].snap = op[c].snap => ~op[d].quiet
  BY <1>1 DEF SaversInv, DeleterDisturbs, Deletes
<1>12. Types'
  BY <1>1, <1>4, <1>6, <1>7, <1>9, <1>10 DEF Types, OfOne
<1>13. SaversInv'
  BY <1>7, <1>10 DEF SaversInv, SaversAgree, MetaLast, DeleterDisturbs, DisturbedExcused
<1>14. StoredSoFar' /\ InOneStep'
  <2>1. StoredSoFar'
    BY <1>9, <1>10, <1>11 DEF StoredSoFar
  <2>2. InOneStep'
    BY <1>7, <1>9, <1>10 DEF InOneStep
  <2> QED
    BY <2>1, <2>2
<1>15. MetaAgrees'
  <2>1. ASSUME NEW d \in Clients, Saves(d), op[d].snap \in Snaps, op[d].snap \notin overwritten \cup mixed
        PROVE  \/ objects'[op[d].snap][Meta] \in {"absent", "torn", "shared"}
               \/ backend = "s3" /\ objects'[op[d].snap][Meta] = op[d].content
    BY <1>9, <2>1 DEF MetaAgrees, Readable
  <2> QED
    BY <1>7, <1>10, <2>1 DEF MetaAgrees, Readable
<1>16. AnnouncedComplete'
  BY <1>7, <1>9 DEF AnnouncedComplete, Readable, Complete
<1> QED
  BY <1>2, <1>4, <1>6, <1>12, <1>13, <1>14, <1>15, <1>16

(*------------------------------ every step ---------------------------------*)
Steps(c) ==
  \/ \E s \in Snaps : StartLoad(c, s) \/ \E v \in Contents : StartSave(c, s, v)
  \/ \E o \in Objects : Truncate(c, o) \/ PutObject(c, o) \/ DeleteObject(c, o)
  \/ WriteEnds(c) \/ WriteIsLost(c)
  \/ ListImages(c) \/ (\E f \in Images : ReadImage(c, f)) \/ EndLoad(c)
  \/ StartPrune(c) \/ ReadMeta(c) \/ SkipMeta(c) \/ Listed(c)
  \/ NextDelete(c) \/ EndDelete(c) \/ EndPrune(c)
  \/ CallFails(c)

LEMMA SomeStep == Next => \E c \in Clients : Steps(c)
  BY Zenon DEF Next, Steps

LEMMA StoreStart ==
  ASSUME Init
  PROVE  StoreInv
<1>1. op = [c \in Clients |-> Idle] /\ \A c \in Clients : op[c].at = "idle"
  BY IdleOp DEF Init
<1>2. objects \in [Snaps -> [Objects -> States]]
  BY DEF Init, NoObject, States
<1>3. Types
  BY <1>1, <1>2, IdleOp DEF Init, Types, OfOne, Saves
<1>4. SaversInv /\ StoredSoFar /\ MetaAgrees
  BY <1>1 DEF SaversInv, SaversAgree, MetaLast, DeleterDisturbs, DisturbedExcused, StoredSoFar,
              MetaAgrees, Saves, Deletes
<1>6. InOneStep
  BY <1>1 DEF Init, NoObject, InOneStep, Saves
<1>5. AnnouncedComplete
  BY DEF Init, AnnouncedComplete, Readable, NoObject, Objects
<1> QED
  BY <1>3, <1>4, <1>5, <1>6 DEF StoreInv

LEMMA StoreStep ==
  ASSUME StoreInv, NEW c \in Clients, Steps(c)
  PROVE  StoreInv' /\ Others(c)
<1>1. CASE \E s \in Snaps : StartLoad(c, s) \/ \E v \in Contents : StartSave(c, s, v)
  BY <1>1, StartLoadStep, StartSaveStep
<1>2. CASE \E o \in Objects : Truncate(c, o) \/ PutObject(c, o) \/ DeleteObject(c, o)
  BY <1>2, TruncateStep, PutObjectStep, DeleteObjectStep
<1>3. CASE WriteEnds(c) \/ WriteIsLost(c)
  BY <1>3, WriteEndsStep, WriteIsLostStep
<1>4. CASE ListImages(c) \/ (\E f \in Images : ReadImage(c, f)) \/ EndLoad(c)
  BY <1>4, ListImagesStep, ReadImageStep, EndLoadStep
<1>5. CASE StartPrune(c) \/ ReadMeta(c) \/ SkipMeta(c) \/ Listed(c)
  BY <1>5, StartPruneStep, ReadMetaStep, SkipMetaStep, ListedStep
<1>6. CASE NextDelete(c) \/ EndDelete(c) \/ EndPrune(c) \/ CallFails(c)
  BY <1>6, NextDeleteStep, EndDeleteStep, EndPruneStep, CallFailsStep
<1> QED
  BY <1>1, <1>2, <1>3, <1>4, <1>5, <1>6 DEF Steps

LEMMA StoreInvariant == Spec => []StoreInv
<1>1. Init => StoreInv
  BY StoreStart
<1>2. ASSUME StoreInv, [Next]_vars PROVE StoreInv'
  <2>1. CASE Next
    BY <1>2, <2>1, SomeStep, StoreStep
  <2>2. CASE UNCHANGED vars
    <3>1. Types' /\ SaversInv' /\ StoredSoFar' /\ InOneStep'
      BY <1>2, <2>2 DEF vars, StoreInv, Types, OfOne, Saves, Deletes, SaversInv, SaversAgree,
                        MetaLast, DeleterDisturbs, DisturbedExcused, StoredSoFar, InOneStep
    <3>2. MetaAgrees' /\ AnnouncedComplete'
      BY <1>2, <2>2 DEF vars, StoreInv, MetaAgrees, AnnouncedComplete, Readable, Complete, Saves
    <3> QED
      BY <3>1, <3>2 DEF StoreInv
  <2> QED
    BY <1>2, <2>1, <2>2
<1> QED
  BY <1>1, <1>2, PTL DEF Spec

(* Save, Prune and Delete: a snapshot whose meta.json can be read has all  *)
(* images of one dump, whatever Saves were cut short and whichever calls   *)
(* overlap, unless a Delete of it began or Saves of it collided and no     *)
(* undisturbed Save followed, or a Save over it is not complete.  For any  *)
(* number of clients.                                                      *)
THEOREM AnnouncedIsComplete == Spec => []AnnouncedComplete
<1>1. StoreInv => AnnouncedComplete
  BY DEF StoreInv
<1> QED
  BY <1>1, StoreInvariant, PTL

(*-------------------------------- Loads ------------------------------------*)
(* What an undisturbed Load has found and fetched.                         *)
LoadOk(c) ==
  /\ op[c].at \in {"check", "load"} /\ op[c].quiet =>
       op[c].snap \notin overwritten \cup deleted \cup mixed /\ Readable(op[c].snap)
  /\ op[c].at = "load" /\ op[c].quiet =>
       \A f \in Images \ op[c].files : op[c].got[f] = objects[op[c].snap][Meta]
  /\ op[c].at = "loaded" /\ op[c].quiet =>
       \E v \in Contents : op[c].got = [f \in Images |-> v]
LoadsInv == \A c \in Clients : LoadOk(c)

(* Where the objects of the store change.                                  *)
LEMMA ObjectChanges ==
  ASSUME StoreInv, NEW c \in Clients, Steps(c), objects' # objects
  PROVE  \E o \in Objects :
           \/ Truncate(c, o)
           \/ op[c].at = "save" /\ op[c].snap \in Snaps /\ Stored(c, o) /\ (backend = "s3" \/ o \in op[c].writing)
           \/ DeleteObject(c, o)
<1>1. \/ \E o \in Objects : Truncate(c, o) \/ PutObject(c, o) \/ DeleteObject(c, o)
      \/ WriteEnds(c)
  BY Zenon DEF Steps, StartLoad, StartSave, WriteIsLost, ListImages, ReadImage, EndLoad,
               StartPrune, ReadMeta, SkipMeta, Listed, NextDelete, EndDelete, EndPrune, CallFails
<1>2. CASE WriteEnds(c)
  <2>1. PICK o \in op[c].writing :
          op[c].at = "save" /\ objects[op[c].snap][o] # "absent" /\ Stored(c, o)
    BY <1>2 DEF WriteEnds
  <2>2. o \in Objects /\ op[c].snap \in Snaps
    BY <2>1, BeingWritten, CallTypes DEF Saves, OfOne
  <2> QED
    BY <2>1, <2>2
<1>3. ASSUME NEW o \in Objects, PutObject(c, o)
      PROVE  op[c].at = "save" /\ op[c].snap \in Snaps /\ Stored(c, o) /\ (backend = "s3" \/ o \in op[c].writing)
  BY <1>3, CallTypes DEF PutObject, OfOne
<1> QED
  BY <1>1, <1>2, <1>3

(* A meta.json that can be read stays as it is until a Delete, a Save over *)
(* it or Saves that collide.                                               *)
LEMMA MetaKept ==
  ASSUME StoreInv, NEW c \in Clients, Steps(c),
         NEW s \in Snaps, s \notin overwritten \cup deleted \cup mixed, Readable(s)
  PROVE  objects'[s][Meta] = objects[s][Meta]
<1> DEFINE t == op[c].snap
<1>0. \A u \in Snaps : objects[u] \in [Objects -> States]
  BY CallTypes
<1>1. objects \in [Snaps -> [Objects -> States]] /\ Meta \in Objects
  BY DEF StoreInv, Types, Objects
<1>2. ASSUME NEW o \in Objects, Truncate(c, o) PROVE objects'[s][Meta] = objects[s][Meta]
  <2>1. Saves(c) /\ backend = "pvc" /\ \E x : objects' = [objects EXCEPT ![t][o] = x]
    BY <1>2 DEF Truncate, Saves
  <2>2. t # s
    BY <2>1 DEF StoreInv, MetaAgrees
  <2> QED
    BY <1>1, <2>1, <2>2
<1>3. ASSUME NEW o \in Objects, op[c].at = "save", t \in Snaps, Stored(c, o),
             backend = "s3" \/ o \in op[c].writing
      PROVE  objects'[s][Meta] = objects[s][Meta]
  <2>1. PICK x \in Leaves(c, o) : objects' = [objects EXCEPT ![t][o] = x]
    BY <1>3 DEF Stored
  <2>2. t = s => backend = "s3" /\ objects[s][Meta] = op[c].content
    BY <1>3 DEF StoreInv, MetaAgrees, Saves
  <2>3. backend = "s3" => x = op[c].content
    BY <1>3, LeavesOwn DEF Saves
  <2> QED
    BY <1>1, <1>3, <2>1, <2>2, <2>3
<1>4. ASSUME NEW o \in Objects, DeleteObject(c, o) PROVE objects'[s][Meta] = objects[s][Meta]
  <2>1. Deletes(c) /\ objects' = [objects EXCEPT ![t][o] = "absent"]
    BY <1>4 DEF DeleteObject, Deletes
  <2>2. t # s
    BY <2>1 DEF StoreInv, SaversInv, DeleterDisturbs
  <2> QED
    BY <1>1, <2>1, <2>2
<1>5. CASE objects' = objects
  BY <1>5
<1>6. CASE objects' # objects
  BY <1>2, <1>3, <1>4, <1>6, ObjectChanges
<1> QED
  BY <1>5, <1>6

(* A Load whose snapshot is overwritten or deleted is disturbed.           *)
LEMMA LoadNoticed ==
  ASSUME StoreInv, NEW c \in Clients, Steps(c), NEW d \in Clients \ {c},
         op[d].at \in {"check", "load"}, op'[d].quiet, op[d].snap \notin overwritten \cup deleted \cup mixed
  PROVE  op[d].snap \notin overwritten' \cup deleted' \cup mixed'
<1>1. CASE overwritten' \subseteq overwritten /\ deleted' \subseteq deleted /\ mixed' \subseteq mixed
  BY <1>1
<1>2. CASE NextDelete(c)
  <2>1. overwritten' = overwritten /\ mixed' = mixed
    BY <1>2 DEF NextDelete
  <2> QED
    BY <1>2, <2>1, NextDeleteStep
<1>3. CASE \E s \in Snaps, v \in Contents : StartSave(c, s, v)
  <2>1. PICK s \in Snaps, v \in Contents : StartSave(c, s, v)
    BY <1>3
  <2>2. /\ deleted' = deleted
        /\ overwritten' = IF Overwrites(s, v) THEN overwritten \cup {s} ELSE overwritten
        /\ mixed' = IF Collides(s, v) THEN mixed \cup {s} ELSE mixed
    BY <2>1 DEF StartSave
  <2>3. Overwrites(s, v) \/ Collides(s, v) => op[d].snap # s
    BY <2>1, StartSaveStep
  <2> QED
    BY <2>2, <2>3
<1>4. CASE \/ \E s \in Snaps : StartLoad(c, s)
           \/ \E o \in Objects : Truncate(c, o) \/ PutObject(c, o) \/ DeleteObject(c, o)
           \/ WriteEnds(c)
  <2>1. ASSUME NEW o, Stored(c, o)
        PROVE  /\ overwritten' \subseteq overwritten /\ deleted' \subseteq deleted
               /\ mixed' \subseteq mixed
    BY <2>1 DEF Stored
  <2>2. overwritten' \subseteq overwritten /\ deleted' \subseteq deleted /\ mixed' \subseteq mixed
    BY <1>4, <2>1 DEF StartLoad, Truncate, PutObject, DeleteObject, WriteEnds
  <2> QED
    BY <1>1, <2>2
<1>5. CASE \/ WriteIsLost(c)
           \/ ListImages(c) \/ (\E f \in Images : ReadImage(c, f)) \/ EndLoad(c)
           \/ StartPrune(c) \/ ReadMeta(c) \/ SkipMeta(c) \/ Listed(c)
           \/ EndDelete(c) \/ EndPrune(c) \/ CallFails(c)
  <2>1. overwritten' = overwritten /\ deleted' = deleted /\ mixed' = mixed
    BY <1>5, Zenon DEF WriteIsLost, ListImages, ReadImage, EndLoad, StartPrune, ReadMeta,
                       SkipMeta, Listed, EndDelete, EndPrune, CallFails
  <2> QED
    BY <1>1, <2>1
<1> QED
  BY <1>2, <1>3, <1>4, <1>5 DEF Steps

(* So a step leaves the Loads of the others in order.                      *)
LEMMA OtherLoads ==
  ASSUME StoreInv, LoadsInv, NEW c \in Clients, Steps(c), NEW d \in Clients \ {c}
  PROVE  LoadOk(d)'
<1>1. /\ op'[d].at = op[d].at
      /\ op'[d].quiet => op'[d] = op[d]
  BY StoreStep DEF Others
<1>2. CASE ~op'[d].quiet
  BY <1>2 DEF LoadOk
<1>3. CASE op'[d].quiet
  <2>1. op'[d] = op[d] /\ LoadOk(d)
    BY <1>1, <1>3 DEF LoadsInv
  <2>2. CASE op[d].at \in {"check", "load"}
    <3>1. op[d].snap \in Snaps /\ op[d].snap \notin overwritten \cup deleted \cup mixed /\ Readable(op[d].snap)
      BY <1>3, <2>1, <2>2, CallTypes DEF LoadOk, OfOne
    <3>2. objects'[op[d].snap][Meta] = objects[op[d].snap][Meta]
      BY <3>1, MetaKept
    <3>3. op[d].snap \notin overwritten' \cup deleted' \cup mixed'
      BY <1>3, <2>2, <3>1, LoadNoticed
    <3>4. Readable(op[d].snap)'
      BY <2>1, <3>1, <3>2 DEF Readable
    <3> QED
      BY <1>3, <2>1, <2>2, <3>2, <3>3, <3>4 DEF LoadOk
  <2>3. CASE op[d].at \notin {"check", "load"}
    BY <2>1, <2>3 DEF LoadOk
  <2> QED
    BY <2>2, <2>3
<1> QED
  BY <1>2, <1>3

LEMMA OwnLoad ==
  ASSUME StoreInv, LoadsInv, NEW c \in Clients, Steps(c)
  PROVE  LoadOk(c)'
<1>1. CASE op'[c].at \notin {"check", "load", "loaded"}
  BY <1>1 DEF LoadOk
<1>2. ASSUME NEW s \in Snaps, StartLoad(c, s) PROVE LoadOk(c)'
  <2>1. /\ op'[c].at = "check" /\ op'[c].snap = s
        /\ op'[c].quiet => s \notin overwritten \cup deleted \cup mixed /\ Readable(s)
    BY <1>2, StartLoadStep
  <2>2. UNCHANGED <<objects, overwritten, deleted, mixed>>
    BY <1>2 DEF StartLoad
  <2> QED
    BY <2>1, <2>2 DEF LoadOk, Readable
<1>3. CASE ListImages(c)
  <2>1. /\ op'[c].at = "load" /\ op'[c].snap = op[c].snap /\ op'[c].quiet = op[c].quiet
        /\ op'[c].files = Present(op[c].snap) \ {Meta}
    BY <1>3, ListImagesStep
  <2>2. op[c].at = "check" /\ UNCHANGED <<objects, overwritten, deleted, mixed>>
    BY <1>3 DEF ListImages
  <2>3. ASSUME op'[c].quiet
        PROVE  /\ op[c].snap \notin overwritten \cup deleted \cup mixed /\ Readable(op[c].snap)
               /\ Images \subseteq op'[c].files
    <3>1. op[c].snap \in Snaps /\ op[c].snap \notin overwritten \cup deleted \cup mixed /\ Readable(op[c].snap)
      BY <2>1, <2>2, <2>3, CallTypes DEF LoadsInv, LoadOk, OfOne
    <3>2. Complete(op[c].snap)
      BY <3>1 DEF StoreInv, AnnouncedComplete
    <3>3. \A f \in Images : objects[op[c].snap][f] # "absent" /\ f # Meta /\ f \in Objects
      BY <3>2, StoreAssumption DEF Complete, Readable, Objects
    <3> QED
      BY <2>1, <3>1, <3>3 DEF Present
  <2> QED
    BY <2>1, <2>2, <2>3 DEF LoadOk, Readable
<1>4. ASSUME NEW f \in Images, ReadImage(c, f) PROVE LoadOk(c)'
  <2>1. /\ op'[c].at = "load" /\ op'[c].snap = op[c].snap /\ op'[c].quiet = op[c].quiet
        /\ op'[c].files = op[c].files \ {f}
        /\ op'[c].got = [op[c].got EXCEPT ![f] = objects[op[c].snap][f]]
    BY <1>4, ReadImageStep
  <2>2. /\ op[c].at = "load" /\ UNCHANGED <<objects, overwritten, deleted, mixed>>
        /\ op[c].got \in [Images -> States]
    BY <1>4, CallTypes DEF ReadImage
  <2>3. ASSUME op'[c].quiet
        PROVE  /\ op[c].snap \notin overwritten \cup deleted \cup mixed /\ Readable(op[c].snap)
               /\ \A g \in Images \ op'[c].files : op'[c].got[g] = objects[op[c].snap][Meta]
    <3>1. op[c].snap \in Snaps /\ op[c].snap \notin overwritten \cup deleted \cup mixed /\ Readable(op[c].snap)
      BY <2>1, <2>2, <2>3, CallTypes DEF LoadsInv, LoadOk, OfOne
    <3>2. Complete(op[c].snap)
      BY <3>1 DEF StoreInv, AnnouncedComplete
    <3>3. objects[op[c].snap][f] = objects[op[c].snap][Meta]
      BY <3>2 DEF Complete
    <3>4. \A g \in Images \ op[c].files : op[c].got[g] = objects[op[c].snap][Meta]
      BY <2>1, <2>2, <2>3 DEF LoadsInv, LoadOk
    <3> QED
      BY <2>1, <2>2, <3>1, <3>3, <3>4
  <2> QED
    BY <2>1, <2>2, <2>3 DEF LoadOk, Readable
<1>5. CASE EndLoad(c)
  <2>1. op'[c].at = "loaded" /\ op'[c].got = op[c].got /\ op'[c].quiet = op[c].quiet
    BY <1>5, EndLoadStep
  <2>2. op[c].at = "load" /\ op[c].files = {} /\ op[c].got \in [Images -> States]
    BY <1>5, CallTypes DEF EndLoad
  <2>3. ASSUME op'[c].quiet PROVE \E v \in Contents : op'[c].got = [f \in Images |-> v]
    <3>1. /\ op[c].snap \in Snaps /\ Readable(op[c].snap)
          /\ \A f \in Images : op[c].got[f] = objects[op[c].snap][Meta]
      BY <2>1, <2>2, <2>3, CallTypes DEF LoadsInv, LoadOk, OfOne
    <3>2. objects[op[c].snap][Meta] \in Contents
      BY <3>1, CallTypes DEF Readable, States, Objects
    <3>3. op[c].got = [f \in Images |-> objects[op[c].snap][Meta]]
      BY <2>2, <3>1
    <3> QED
      BY <2>1, <3>2, <3>3
  <2> QED
    BY <2>1, <2>3 DEF LoadOk
<1>6. CASE \/ \E s \in Snaps, v \in Contents : StartSave(c, s, v)
           \/ \E o \in Objects : Truncate(c, o) \/ PutObject(c, o) \/ DeleteObject(c, o)
           \/ WriteEnds(c) \/ WriteIsLost(c)
  <2>1. op'[c].at \in {"save", "idle", "delete"}
    BY <1>6, StartSaveStep, TruncateStep, PutObjectStep, DeleteObjectStep, WriteEndsStep,
       WriteIsLostStep
  <2> QED
    BY <1>1, <2>1
<1>7. CASE \/ StartPrune(c) \/ ReadMeta(c) \/ SkipMeta(c) \/ Listed(c)
           \/ NextDelete(c) \/ EndDelete(c) \/ EndPrune(c) \/ CallFails(c)
  <2>1. op'[c].at \in {"list", "prune", "delete", "pruned", "idle"}
    BY <1>7, StartPruneStep, ReadMetaStep, SkipMetaStep, ListedStep, NextDeleteStep,
       EndDeleteStep, EndPruneStep, CallFailsStep
  <2> QED
    BY <1>1, <2>1
<1> QED
  BY <1>2, <1>3, <1>4, <1>5, <1>6, <1>7 DEF Steps

(* Load: an undisturbed Load that returns no error has all images of one   *)
(* dump, also while a Save of the same content runs.  For any number of    *)
(* clients.                                                                *)
THEOREM LoadIsComplete == Spec => []LoadComplete
<1>1. Init => LoadsInv
  BY IdleOp DEF Init, LoadsInv, LoadOk
<1>2. ASSUME StoreInv, LoadsInv, [Next]_vars PROVE LoadsInv'
  <2>1. CASE Next
    <3>1. PICK c \in Clients : Steps(c)
      BY <2>1, SomeStep
    <3>2. LoadOk(c)' /\ \A d \in Clients \ {c} : LoadOk(d)'
      BY <1>2, <3>1, OwnLoad, OtherLoads
    <3> QED
      BY <3>2 DEF LoadsInv
  <2>2. CASE UNCHANGED vars
    BY <1>2, <2>2 DEF vars, LoadsInv, LoadOk, Readable
  <2> QED
    BY <1>2, <2>1, <2>2
<1>3. LoadsInv => LoadComplete
  BY DEF LoadsInv, LoadOk, LoadComplete
<1> QED
  BY <1>1, <1>2, <1>3, StoreInvariant, PTL DEF Spec

(*------------------------------- types -------------------------------------*)
(* The directories of the PVC, and what a call is writing.                 *)
Tidy ==
  /\ backend = "s3" =>
       dirs = {} /\ \A s \in Snaps, o \in Objects : objects[s][o] \notin {"torn", "shared"}
  /\ backend = "pvc" => \A s \in Snaps \ dirs : objects[s] = NoObject
  /\ announced \cup overwritten \cup deleted \cup mixed \subseteq Snaps
WritesOk(c) == op[c].writing \subseteq op[c].files /\ (~Saves(c) => op[c].writing = {})
Writes == \A c \in Clients : WritesOk(c)

LEMMA WritesStep ==
  ASSUME StoreInv, Writes, NEW c \in Clients, Steps(c)
  PROVE  Writes'
<1>1. CASE op'[c].writing = {}
  <2>1. WritesOk(c)'
    BY <1>1 DEF WritesOk
  <2>2. ASSUME NEW d \in Clients \ {c} PROVE WritesOk(d)'
    BY StoreStep DEF Others, Writes, WritesOk, Saves
  <2> QED
    BY <2>1, <2>2 DEF Writes
<1>2. CASE op'[c].writing = op[c].writing /\ op[c].at # "save"
  BY <1>1, <1>2 DEF Writes, WritesOk, Saves
<1>3. CASE op'[c].writing \subseteq op'[c].files /\ op'[c].at = "save"
  <2>1. WritesOk(c)'
    BY <1>3 DEF WritesOk, Saves
  <2>2. ASSUME NEW d \in Clients \ {c} PROVE WritesOk(d)'
    BY StoreStep DEF Others, Writes, WritesOk, Saves
  <2> QED
    BY <2>1, <2>2 DEF Writes
<1>4. CASE \E s \in Snaps : StartLoad(c, s) \/ \E v \in Contents : StartSave(c, s, v)
  BY <1>1, <1>4, StartLoadStep, StartSaveStep
<1>5. CASE \E o \in Objects : Truncate(c, o)
  BY <1>3, <1>5, TruncateStep
<1>6. CASE \/ \E o \in Objects : PutObject(c, o)
           \/ WriteEnds(c) \/ WriteIsLost(c) \/ StartPrune(c) \/ EndDelete(c) \/ CallFails(c)
  BY <1>1, <1>6, PutObjectStep, WriteEndsStep, WriteIsLostStep, StartPruneStep, EndDeleteStep,
     CallFailsStep
<1>7. CASE \/ ListImages(c) \/ (\E f \in Images : ReadImage(c, f)) \/ EndLoad(c)
           \/ \E o \in Objects : DeleteObject(c, o)
  <2>1. op[c].at # "save"
    BY <1>7 DEF ListImages, ReadImage, EndLoad, DeleteObject
  <2>2. op'[c].writing = op[c].writing
    BY <1>7, ListImagesStep, ReadImageStep, EndLoadStep, DeleteObjectStep
  <2> QED
    BY <1>2, <2>1, <2>2
<1>8. CASE ReadMeta(c) \/ SkipMeta(c) \/ Listed(c) \/ NextDelete(c) \/ EndPrune(c)
  <2>1. op[c].at # "save"
    BY <1>8 DEF ReadMeta, SkipMeta, Listed, NextDelete, EndPrune
  <2>2. op'[c].writing = op[c].writing
    BY <1>8, ReadMetaStep, SkipMetaStep, ListedStep, NextDeleteStep, EndPruneStep
  <2> QED
    BY <1>2, <2>1, <2>2
<1> QED
  BY <1>4, <1>5, <1>6, <1>7, <1>8 DEF Steps

LEMMA TidyStep ==
  ASSUME StoreInv, Tidy, NEW c \in Clients, Steps(c)
  PROVE  Tidy'
<1> DEFINE t == op[c].snap
<1>1. /\ objects \in [Snaps -> [Objects -> States]] /\ dirs \subseteq Snaps
      /\ \A d \in Clients : op[d].at = "save" => op[d].snap \in Snaps /\ op[d].content \in Contents
      /\ backend \in {"pvc", "s3"}
  BY DEF StoreInv, Types, Saves, OfOne
<1>2. ASSUME UNCHANGED <<backend, objects, dirs, announced, overwritten, mixed>>,
             deleted' \subseteq Snaps
      PROVE  Tidy'
  BY <1>2 DEF Tidy
<1>3. ASSUME NEW s \in Snaps, NEW v \in Contents, StartSave(c, s, v) PROVE Tidy'
  BY <1>3 DEF Tidy, StartSave
<1>4. ASSUME NEW o \in Objects, Truncate(c, o) PROVE Tidy'
  <2>1. /\ backend = "pvc" /\ t \in dirs /\ \E x : objects' = [objects EXCEPT ![t][o] = x]
        /\ UNCHANGED <<backend, dirs, announced, overwritten, deleted, mixed>>
    BY <1>4 DEF Truncate
  <2>2. \A s \in Snaps \ dirs : objects'[s] = objects[s]
    BY <1>1, <2>1
  <2> QED
    BY <2>1, <2>2 DEF Tidy
<1>5. ASSUME NEW o \in Objects, op[c].at = "save", Stored(c, o),
             backend = "s3" \/ (o \in op[c].writing /\ objects[t][o] # "absent")
      PROVE  Tidy'
  <2>1. /\ UNCHANGED <<backend, dirs>>
        /\ announced' \cup overwritten' \cup deleted' \cup mixed'
             \subseteq announced \cup overwritten \cup deleted \cup mixed \cup {t}
    BY <1>5 DEF Stored
  <2>5. PICK x \in Leaves(c, o) : objects' = [objects EXCEPT ![t][o] = x]
    BY <1>5 DEF Stored
  <2>2. t \in Snaps /\ op[c].content \notin {"torn", "shared"}
    BY <1>1, <1>5, StoreAssumption
  <2>3. CASE backend = "s3"
    <3>2. x \notin {"torn", "shared"}
      BY <1>5, <2>2, <2>3, LeavesOwn DEF Saves
    <3>1. \A s \in Snaps, p \in Objects : objects'[s][p] \notin {"torn", "shared"}
      BY <1>1, <2>2, <2>3, <2>5, <3>2 DEF Tidy
    <3> QED
      BY <2>1, <2>2, <2>3, <3>1 DEF Tidy
  <2>4. CASE backend = "pvc"
    <3>1. t \in dirs
      BY <1>5, <2>2, <2>4 DEF Tidy, NoObject
    <3>2. \A s \in Snaps \ dirs : objects'[s] = objects[s]
      BY <1>1, <2>5, <3>1
    <3> QED
      BY <2>1, <2>2, <2>4, <3>2 DEF Tidy
  <2> QED
    BY <1>1, <2>3, <2>4
<1>6. ASSUME NEW o \in Objects, PutObject(c, o) PROVE Tidy'
  BY <1>5, <1>6 DEF PutObject
<1>7. CASE WriteEnds(c)
  <2>1. PICK o \in op[c].writing :
          op[c].at = "save" /\ objects[t][o] # "absent" /\ Stored(c, o)
    BY <1>7 DEF WriteEnds
  <2>2. o \in Objects
    BY <2>1, BeingWritten DEF Saves
  <2> QED
    BY <1>5, <2>1, <2>2
<1>8. ASSUME NEW o \in Objects, DeleteObject(c, o) PROVE Tidy'
  <2>1. /\ objects' = [objects EXCEPT ![t][o] = "absent"] /\ t \in Snaps
        /\ UNCHANGED <<backend, dirs, announced, overwritten, deleted, mixed>>
    BY <1>8, CallTypes DEF DeleteObject, OfOne
  <2>2. ASSUME NEW s \in Snaps, objects[s] = NoObject PROVE objects'[s] = NoObject
    <3>1. CASE s = t
      <4>1. objects'[s] = [objects[s] EXCEPT ![o] = "absent"]
        BY <1>1, <2>1, <3>1
      <4> QED
        BY <2>2, <4>1 DEF NoObject
    <3>2. CASE s # t
      BY <1>1, <2>1, <2>2, <3>2
    <3> QED
      BY <3>1, <3>2
  <2>3. \A s \in Snaps, p \in Objects : objects'[s][p] \in {"absent", objects[s][p]}
    BY <1>1, <2>1
  <2>4. backend' = "s3" =>
          dirs' = {} /\ \A s \in Snaps, p \in Objects : objects'[s][p] \notin {"torn", "shared"}
    BY <2>1, <2>3 DEF Tidy
  <2>5. backend' = "pvc" => \A s \in Snaps \ dirs' : objects'[s] = NoObject
    BY <2>1, <2>2 DEF Tidy
  <2> QED
    BY <2>1, <2>4, <2>5 DEF Tidy
<1>9. CASE EndDelete(c)
  <2>1. /\ dirs' = dirs \ {t} /\ Left(c) = {} /\ t \in Snaps
        /\ UNCHANGED <<backend, objects, announced, overwritten, deleted, mixed>>
    BY <1>9, CallTypes DEF EndDelete, OfOne
  <2>2. backend = "pvc" => objects[t] = NoObject
    <3>1. backend = "pvc" => \A o \in Objects : objects[t][o] = "absent"
      BY <2>1 DEF Left, Present
    <3>2. objects[t] \in [Objects -> States]
      BY <1>1, <2>1
    <3> QED
      BY <3>1, <3>2 DEF NoObject
  <2> QED
    BY <2>1, <2>2 DEF Tidy
<1>10. CASE NextDelete(c)
  <2>1. /\ UNCHANGED <<backend, objects, dirs, announced, overwritten, mixed>>
        /\ deleted \subseteq Snaps
    BY <1>10 DEF NextDelete, Tidy
  <2>2. deleted' \subseteq Snaps
    BY <1>10, <2>1, NextDeleteStep
  <2> QED
    BY <1>2, <2>1, <2>2
<1>11. CASE \/ \E s \in Snaps : StartLoad(c, s)
            \/ WriteIsLost(c)
            \/ ListImages(c) \/ (\E f \in Images : ReadImage(c, f)) \/ EndLoad(c)
            \/ StartPrune(c) \/ ReadMeta(c) \/ SkipMeta(c) \/ Listed(c)
            \/ EndPrune(c) \/ CallFails(c)
  <2>1. UNCHANGED <<backend, objects, dirs, announced, overwritten, deleted, mixed>>
    BY <1>11, Zenon DEF StartLoad, WriteIsLost, ListImages, ReadImage, EndLoad, StartPrune,
                        ReadMeta, SkipMeta, Listed, EndPrune, CallFails
  <2> QED
    BY <1>2, <2>1 DEF Tidy
<1> QED
  BY <1>3, <1>4, <1>6, <1>7, <1>8, <1>9, <1>10, <1>11 DEF Steps

LEMMA TidyInvariant == Spec => [](Tidy /\ Writes)
<1>1. Init => Tidy /\ Writes
  BY IdleOp DEF Init, Tidy, Writes, WritesOk, Saves, NoObject
<1>2. ASSUME StoreInv, Tidy /\ Writes, [Next]_vars PROVE (Tidy /\ Writes)'
  <2>1. CASE Next
    BY <1>2, <2>1, SomeStep, TidyStep, WritesStep
  <2>2. CASE UNCHANGED vars
    BY <1>2, <2>2 DEF vars, Tidy, Writes, WritesOk, Saves
  <2> QED
    BY <1>2, <2>1, <2>2
<1> QED
  BY <1>1, <1>2, StoreInvariant, PTL DEF Spec

(* Type correctness, and the shape of each backend: no directory and no    *)
(* torn object on S3, nothing outside a directory on the PVC.              *)
THEOREM StoreTypeCorrect == Spec => []TypeOK
<1>1. ASSUME StoreInv, Tidy /\ Writes PROVE TypeOK
  <2>1. ASSUME NEW c \in Clients
        PROVE  /\ op[c].at \in Ats /\ op[c].snap \in Snaps \cup {0}
               /\ op[c].files \subseteq Objects /\ op[c].writing \subseteq op[c].files
               /\ op[c].snaps \cup op[c].metas \subseteq Snaps
    <3>1. op[c] \in Ops /\ WritesOk(c)
      BY <1>1, CallTypes DEF Writes
    <3> QED
      BY <3>1 DEF Ops, WritesOk
  <2>2. objects \in [Snaps -> [Objects -> Contents \cup {"absent", "torn", "shared"}]]
    BY <1>1 DEF StoreInv, Types, States
  <2> QED
    BY <1>1, <2>1, <2>2 DEF TypeOK, Tidy, Ats, StoreInv, Types
<1> QED
  BY <1>1, StoreInvariant, TidyInvariant, PTL

(*-------------------------------- Prune ------------------------------------*)
(* Keep snapshots above s have been announced.                             *)
Superseded(s) == ~(Cardinality({t \in announced : t > s}) < Keep)

AnnouncedInv ==
  /\ \A s \in Snaps : Readable(s) => s \in announced
  /\ \A s \in announced \ (overwritten \cup deleted \cup mixed) : Readable(s)
  /\ \A s \in deleted : Superseded(s)
(* What a Prune has listed was announced, and what it deletes superseded.  *)
ListOk(c) ==
  /\ op[c].at = "list" => op[c].metas \subseteq announced
  /\ op[c].at \in {"prune", "delete"} => \A s \in op[c].snaps : Superseded(s)
PruneInv == AnnouncedInv /\ \A c \in Clients : ListOk(c)

LEMMA CountGrows ==
  ASSUME NEW S \in SUBSET Snaps, NEW T \in SUBSET Snaps, S \subseteq T, NEW s,
         ~(Cardinality({t \in S : t > s}) < Keep)
  PROVE  ~(Cardinality({t \in T : t > s}) < Keep)
<1>1. /\ {t \in S : t > s} \subseteq {t \in T : t > s}
      /\ {t \in T : t > s} \subseteq Snaps
  OBVIOUS
<1>2. IsFiniteSet({t \in T : t > s}) /\ IsFiniteSet({t \in S : t > s})
  BY <1>1, FS_Subset, StoreAssumption
<1>3. Cardinality({t \in S : t > s}) <= Cardinality({t \in T : t > s})
  BY <1>1, <1>2, FS_Subset
<1>4. /\ Cardinality({t \in S : t > s}) \in Nat /\ Cardinality({t \in T : t > s}) \in Nat
      /\ Keep \in Nat
  BY <1>2, FS_CardinalityType, StoreAssumption
<1> QED
  BY <1>3, <1>4

(* A set has at most k elements that fewer than k of its elements exceed:  *)
(* all but its least are among those that exceed the least.                *)
LEMMA NewestCount ==
  ASSUME NEW S \in SUBSET Snaps
  PROVE  Newest(S, Keep) \in SUBSET Snaps /\ Cardinality(Newest(S, Keep)) <= Keep
<1> DEFINE N == Newest(S, Keep)
<1>1. IsFiniteSet(S) /\ S \subseteq Nat /\ N \subseteq S /\ IsFiniteSet(N) /\ Keep \in Nat
  BY StoreAssumption, FS_Subset DEF Newest
<1>2. CASE N = {}
  BY <1>1, <1>2, FS_EmptySet
<1>3. CASE N # {}
  <2>1. PICK m \in N : \A n \in N : m <= n
    <3>1. N \subseteq Nat
      BY <1>1
    <3> HIDE DEF N
    <3> QED
      BY <1>3, <3>1, LeastNatural
  <2> DEFINE A == {t \in S : t > m}
  <2>2. Cardinality(A) < Keep
    BY <2>1 DEF Newest
  <2>3. N \ {m} \subseteq A
    <3>1. \A n \in N : n \in Nat /\ n \in S
      BY <1>1
    <3>2. \A n \in N \ {m} : n > m
      BY <2>1, <3>1
    <3> QED
      BY <3>1, <3>2
  <2>4. IsFiniteSet(A)
    BY <1>1, FS_Subset
  <2>5. Cardinality(N \ {m}) <= Cardinality(A) /\ IsFiniteSet(N \ {m})
    <3> HIDE DEF A, N
    <3> QED
      BY <2>3, <2>4, FS_Subset
  <2>6. Cardinality(N \ {m}) = Cardinality(N) - 1
    <3> HIDE DEF N
    <3> QED
      BY <1>1, <2>1, FS_RemoveElement
  <2>7. Cardinality(N) \in Nat /\ Cardinality(A) \in Nat /\ Cardinality(N \ {m}) \in Nat
    <3> HIDE DEF A, N
    <3> QED
      BY <1>1, <2>4, <2>5, FS_CardinalityType
  <2> HIDE DEF A, N
  <2>8. Cardinality(N) <= Keep
    BY <1>1, <2>2, <2>5, <2>6, <2>7
  <2> QED
    BY <1>1, <2>8 DEF N
<1> QED
  BY <1>1, <1>2, <1>3

(* What a step does to the history: a Save announces, or nothing becomes   *)
(* readable.                                                               *)
LEMMA HistoryStep ==
  ASSUME StoreInv, Tidy, NEW c \in Clients, Steps(c)
  PROVE  \/ \E s \in Snaps :
              /\ announced' = announced \cup {s} /\ overwritten' = overwritten \ {s}
              /\ deleted' \subseteq deleted /\ deleted \ {s} \subseteq deleted'
              /\ mixed' \subseteq mixed /\ mixed \ {s} \subseteq mixed'
              /\ Readable(s)' \/ s \in deleted' \cup mixed'
              /\ \A t \in Snaps \ {s} : Readable(t)' => Readable(t)
              /\ \A d \in Clients \ {c} : d \in Pruning => ~op'[d].quiet
              /\ op'[c].at \in {"idle", "save"}
         \/ /\ announced' = announced
            /\ overwritten \subseteq overwritten' /\ deleted \subseteq deleted' /\ mixed \subseteq mixed'
            /\ \A t \in Snaps : Readable(t)' => Readable(t)
            /\ \A t \in deleted' \ deleted :
                 NextDelete(c) /\ op[c].at = "prune" /\ t \in op[c].snaps
<1> DEFINE t == op[c].snap
<1>1. /\ objects \in [Snaps -> [Objects -> States]] /\ Meta \in Objects
      /\ \A d \in Clients : op[d].at = "save" => op[d].snap \in Snaps /\ op[d].content \in Contents
  BY DEF StoreInv, Types, Saves, OfOne, Objects
<1> DEFINE Quietly == /\ announced' = announced
                      /\ overwritten \subseteq overwritten' /\ deleted \subseteq deleted' /\ mixed \subseteq mixed'
                      /\ \A u \in Snaps : Readable(u)' => Readable(u)
                      /\ \A u \in deleted' \ deleted :
                           NextDelete(c) /\ op[c].at = "prune" /\ u \in op[c].snaps
           Announces == \E s \in Snaps :
              /\ announced' = announced \cup {s} /\ overwritten' = overwritten \ {s}
              /\ deleted' \subseteq deleted /\ deleted \ {s} \subseteq deleted'
              /\ mixed' \subseteq mixed /\ mixed \ {s} \subseteq mixed'
              /\ Readable(s)' \/ s \in deleted' \cup mixed'
              /\ \A u \in Snaps \ {s} : Readable(u)' => Readable(u)
              /\ \A d \in Clients \ {c} : d \in Pruning => ~op'[d].quiet
              /\ op'[c].at \in {"idle", "save"}
<1> SUFFICES Quietly \/ Announces
  OBVIOUS
<1>2. ASSUME NEW o \in Objects, op[c].at = "save", Stored(c, o),
             backend = "s3" \/ o \in op[c].writing,
             o = Meta => \A d \in Clients \ {c} : d \in Pruning => ~op'[d].quiet,
             op'[c].at \in {"idle", "save"}
      PROVE  Quietly \/ Announces
  <2>1. PICK x \in Leaves(c, o) : objects' = [objects EXCEPT ![t][o] = x] /\ t \in Snaps
    BY <1>1, <1>2 DEF Stored
  <2>2. CASE o = Meta
    <3>0. PICK s \in Snaps : s = t
      BY <2>1
    <3>1. /\ announced' = announced \cup {s} /\ overwritten' = overwritten \ {s}
          /\ deleted' \subseteq deleted /\ deleted \ {s} \subseteq deleted'
          /\ mixed' \subseteq mixed /\ mixed \ {s} \subseteq mixed'
      BY <1>2, <2>2, <3>0 DEF Stored
    <3>2. ASSUME op[c].quiet PROVE Readable(s)'
      <4>1. x = op[c].content
        BY <1>2, <2>1, <3>2, LeavesOwn DEF Saves
      <4>2. objects'[s][Meta] = op[c].content
        BY <1>1, <2>1, <2>2, <3>0, <4>1
      <4> QED
        BY <1>1, <1>2, <4>2, StoreAssumption DEF Readable
    <3>6. ASSUME ~op[c].quiet PROVE s \in deleted' \cup mixed'
      <4>1. s \in deleted \cup mixed
        BY <1>2, <3>0, <3>6 DEF StoreInv, SaversInv, DisturbedExcused, Saves
      <4> QED
        BY <1>2, <2>2, <3>6, <4>1 DEF Stored
    <3>3. Readable(s)' \/ s \in deleted' \cup mixed'
      BY <3>2, <3>6
    <3>4. \A u \in Snaps \ {s} : Readable(u)' => Readable(u)
      BY <1>1, <2>1, <3>0 DEF Readable
    <3>5. Announces
      BY <1>2, <2>2, <3>1, <3>3, <3>4
    <3> QED
      BY <3>5
  <2>3. CASE o # Meta
    <3>1. UNCHANGED <<announced, overwritten, deleted, mixed>>
      BY <1>2, <2>3 DEF Stored
    <3>2. \A u \in Snaps : objects'[u][Meta] = objects[u][Meta]
      BY <1>1, <2>1, <2>3
    <3> QED
      BY <3>1, <3>2 DEF Readable
  <2> QED
    BY <2>2, <2>3
<1>3. ASSUME NEW o \in Objects, PutObject(c, o) PROVE Quietly \/ Announces
  <2>1. op[c].at = "save" /\ Stored(c, o) /\ backend = "s3"
    BY <1>3 DEF PutObject
  <2> QED
    BY <1>2, <1>3, <2>1, PutObjectStep
<1>4. CASE WriteEnds(c)
  <2>1. PICK o \in op[c].writing :
          /\ op[c].at = "save" /\ objects[t][o] # "absent" /\ Stored(c, o)
          /\ o = Meta => \A d \in Clients \ {c} : d \in Pruning => ~op'[d].quiet
    BY <1>4, WriteEndsStep
  <2>2. o \in Objects
    BY <2>1, BeingWritten DEF Saves
  <2>3. op'[c].at \in {"idle", "save"}
    BY <1>4, WriteEndsStep
  <2> QED
    BY <1>2, <2>1, <2>2, <2>3
<1>5. ASSUME NEW o \in Objects, Truncate(c, o) \/ DeleteObject(c, o) PROVE Quietly
  <2>1. /\ \E x \in {"torn", "shared", "absent"} : objects' = [objects EXCEPT ![t][o] = x]
        /\ UNCHANGED <<announced, overwritten, deleted, mixed>>
    BY <1>5 DEF Truncate, DeleteObject
  <2>2. \A u \in Snaps : objects'[u][Meta] \in {objects[u][Meta], "torn", "shared", "absent"}
    BY <1>1, <2>1
  <2> QED
    BY <2>1, <2>2 DEF Readable
<1>6. CASE NextDelete(c)
  <2>1. UNCHANGED <<objects, announced, overwritten, mixed>> /\ op[c].at = "prune"
    BY <1>6 DEF NextDelete
  <2>2. PICK s \in op[c].snaps : deleted' = deleted \cup {s}
    BY <1>6, NextDeleteStep
  <2>3. Quietly
    BY <1>6, <2>1, <2>2 DEF Readable
  <2> QED
    BY <2>3
<1>7. CASE \E s \in Snaps, v \in Contents : StartSave(c, s, v)
  <2>1. UNCHANGED <<objects, announced, deleted>> /\ overwritten \subseteq overwritten'
        /\ mixed \subseteq mixed'
    BY <1>7 DEF StartSave
  <2> QED
    BY <2>1 DEF Readable
<1>10. ASSUME NEW s \in Snaps, StartLoad(c, s) PROVE Quietly
  BY <1>10 DEF StartLoad, Readable
<1>8. CASE \/ WriteIsLost(c)
           \/ ListImages(c) \/ (\E f \in Images : ReadImage(c, f)) \/ EndLoad(c)
           \/ StartPrune(c) \/ ReadMeta(c) \/ SkipMeta(c) \/ Listed(c)
           \/ EndDelete(c) \/ EndPrune(c) \/ CallFails(c)
  <2>1. UNCHANGED <<objects, announced, overwritten, deleted, mixed>>
    BY <1>8, Zenon DEF WriteIsLost, ListImages, ReadImage, EndLoad, StartPrune, ReadMeta,
                       SkipMeta, Listed, EndDelete, EndPrune, CallFails
  <2>2. Quietly
    BY <2>1 DEF Readable
  <2> QED
    BY <2>2
<1> HIDE DEF Quietly, Announces
<1> QED
  <2>1. CASE \E o \in Objects : Truncate(c, o) \/ PutObject(c, o) \/ DeleteObject(c, o)
    BY <1>3, <1>5, <2>1
  <2>2. CASE \E s \in Snaps : StartLoad(c, s) \/ \E v \in Contents : StartSave(c, s, v)
    BY <1>7, <1>10, <2>2
  <2>3. CASE ~(\E o \in Objects : Truncate(c, o) \/ PutObject(c, o) \/ DeleteObject(c, o))
             /\ ~(\E s \in Snaps : StartLoad(c, s) \/ \E v \in Contents : StartSave(c, s, v))
             /\ ~WriteEnds(c) /\ ~NextDelete(c)
    BY <1>8, <2>3, Zenon DEF Steps
  <2> QED
    BY <1>4, <1>6, <2>1, <2>2, <2>3

LEMMA AnnouncedStep ==
  ASSUME StoreInv, Tidy, PruneInv, NEW c \in Clients, Steps(c)
  PROVE  /\ AnnouncedInv' /\ announced \subseteq announced'
         /\ \A s \in Snaps : Superseded(s) => Superseded(s)'
<1>1. Tidy' /\ AnnouncedInv /\ announced \in SUBSET Snaps
  BY TidyStep DEF PruneInv, Tidy
<1>2. announced' \in SUBSET Snaps
  BY <1>1 DEF Tidy
<1>3. ASSUME announced \subseteq announced', NEW s \in Snaps, Superseded(s) PROVE Superseded(s)'
  BY <1>1, <1>2, <1>3, CountGrows DEF Superseded
<1>4. \A s \in deleted' : s \in Snaps
  BY <1>1 DEF Tidy
<1>5. ASSUME NEW s \in Snaps,
             announced' = announced \cup {s}, overwritten' = overwritten \ {s},
             deleted' \subseteq deleted, deleted \ {s} \subseteq deleted',
             mixed \ {s} \subseteq mixed', Readable(s)' \/ s \in deleted' \cup mixed',
             \A t \in Snaps \ {s} : Readable(t)' => Readable(t)
      PROVE  AnnouncedInv' /\ announced \subseteq announced'
  <2>1. \A t \in Snaps : Readable(t)' => t \in announced'
    BY <1>1, <1>5 DEF AnnouncedInv
  <2>2. ASSUME NEW t \in announced' \ (overwritten' \cup deleted' \cup mixed') PROVE Readable(t)'
    <3>1. CASE t = s
      BY <1>5, <2>2, <3>1
    <3>2. CASE t # s
      <4>1. t \in announced \ (overwritten \cup deleted \cup mixed) /\ t \in Snaps
        BY <1>1, <1>5, <2>2, <3>2
      <4>2. Readable(t) /\ objects'[t][Meta] = objects[t][Meta]
        BY <1>1, <4>1, MetaKept DEF AnnouncedInv
      <4> QED
        BY <4>2 DEF Readable
    <3> QED
      BY <3>1, <3>2
  <2>3. \A t \in deleted' : Superseded(t)'
    BY <1>1, <1>3, <1>4, <1>5 DEF AnnouncedInv
  <2> QED
    BY <1>5, <2>1, <2>2, <2>3 DEF AnnouncedInv
<1>6. ASSUME announced' = announced, overwritten \subseteq overwritten', deleted \subseteq deleted',
             mixed \subseteq mixed',
             \A t \in Snaps : Readable(t)' => Readable(t),
             \A t \in deleted' \ deleted :
               NextDelete(c) /\ op[c].at = "prune" /\ t \in op[c].snaps
      PROVE  AnnouncedInv' /\ announced \subseteq announced'
  <2>1. \A t \in Snaps : Readable(t)' => t \in announced'
    BY <1>1, <1>6 DEF AnnouncedInv
  <2>2. ASSUME NEW t \in announced' \ (overwritten' \cup deleted' \cup mixed') PROVE Readable(t)'
    <3>1. t \in announced \ (overwritten \cup deleted \cup mixed) /\ t \in Snaps
      BY <1>1, <1>6, <2>2
    <3>2. Readable(t) /\ objects'[t][Meta] = objects[t][Meta]
      BY <1>1, <3>1, MetaKept DEF AnnouncedInv
    <3> QED
      BY <3>2 DEF Readable
  <2>3. \A t \in deleted' : Superseded(t)
    BY <1>1, <1>6 DEF AnnouncedInv, PruneInv, ListOk
  <2>4. \A t \in deleted' : Superseded(t)'
    BY <1>3, <1>4, <1>6, <2>3
  <2> QED
    BY <1>6, <2>1, <2>2, <2>4 DEF AnnouncedInv
<1>7. AnnouncedInv' /\ announced \subseteq announced'
  BY <1>5, <1>6, HistoryStep
<1> QED
  BY <1>3, <1>7

LEMMA ListStep ==
  ASSUME StoreInv, Tidy, PruneInv, NEW c \in Clients, Steps(c)
  PROVE  \A d \in Clients : ListOk(d)'
<1>1. /\ announced \subseteq announced' /\ announced \in SUBSET Snaps
      /\ \A s \in Snaps : Superseded(s) => Superseded(s)'
  BY AnnouncedStep DEF Tidy
<1>2. \A d \in Clients : ListOk(d) /\ op[d].snaps \in SUBSET Snaps /\ op[d].metas \in SUBSET Snaps
  BY CallTypes DEF PruneInv
<1>3. ASSUME NEW d \in Clients \ {c} PROVE ListOk(d)'
  <2>1. op'[d].at = op[d].at /\ op'[d].snaps = op[d].snaps /\ op'[d].metas = op[d].metas
    BY StoreStep DEF Others
  <2> QED
    BY <1>1, <1>2, <2>1 DEF ListOk
<1>4. ASSUME op'[c].at \notin {"list", "prune", "delete"} PROVE ListOk(c)'
  BY <1>4 DEF ListOk
<1>5. ASSUME StartPrune(c) PROVE ListOk(c)'
  <2>1. op'[c].at = "list" /\ op'[c].metas = {}
    BY <1>5, StartPruneStep
  <2> QED
    BY <2>1 DEF ListOk
<1>6. ASSUME ReadMeta(c) PROVE ListOk(c)'
  <2>1. PICK s \in Snaps :
          op'[c].metas = IF Readable(s) THEN op[c].metas \cup {s} ELSE op[c].metas
    BY <1>6, ReadMetaStep
  <2>2. op'[c].at = "list" /\ op[c].at = "list"
    BY <1>6, ReadMetaStep DEF ReadMeta
  <2>3. op[c].metas \subseteq announced /\ (Readable(s) => s \in announced)
    BY <1>2, <2>2 DEF ListOk, PruneInv, AnnouncedInv
  <2> QED
    BY <1>1, <2>1, <2>2, <2>3 DEF ListOk
<1>7. ASSUME SkipMeta(c) PROVE ListOk(c)'
  <2>1. op'[c].at = "list" /\ op[c].at = "list" /\ op'[c].metas = op[c].metas
    BY <1>7, SkipMetaStep DEF SkipMeta
  <2> QED
    BY <1>1, <1>2, <2>1 DEF ListOk
<1>8. ASSUME Listed(c) PROVE ListOk(c)'
  <2>1. op'[c].at = "prune" /\ op[c].at = "list" /\ op'[c].snaps = Doomed(op[c].metas)
    BY <1>8, ListedStep DEF Listed
  <2>2. op[c].metas \in SUBSET Snaps /\ op[c].metas \subseteq announced
    BY <1>2, <2>1 DEF ListOk
  <2>3. ASSUME NEW s \in Doomed(op[c].metas) PROVE s \in Snaps /\ Superseded(s)
    <3>1. s \in Snaps /\ ~(Cardinality({t \in op[c].metas : t > s}) < Keep)
      BY <2>2 DEF Doomed, Newest
    <3> QED
      BY <1>1, <2>2, <3>1, CountGrows DEF Superseded
  <2> QED
    BY <1>1, <2>1, <2>3 DEF ListOk
<1>9. ASSUME NextDelete(c) \/ EndDelete(c) \/ \E o \in Objects : DeleteObject(c, o) PROVE ListOk(c)'
  <2>1. op'[c].snaps \subseteq op[c].snaps /\ op'[c].at \in {"prune", "delete"}
    BY <1>9, NextDeleteStep, EndDeleteStep, DeleteObjectStep
  <2>2. op[c].at \in {"prune", "delete"}
    BY <1>9 DEF NextDelete, EndDelete, DeleteObject
  <2> QED
    BY <1>1, <1>2, <2>1, <2>2 DEF ListOk
<1>10. ASSUME \/ \E s \in Snaps : StartLoad(c, s) \/ \E v \in Contents : StartSave(c, s, v)
              \/ \E o \in Objects : Truncate(c, o) \/ PutObject(c, o)
              \/ WriteEnds(c) \/ WriteIsLost(c)
              \/ ListImages(c) \/ (\E f \in Images : ReadImage(c, f)) \/ EndLoad(c)
              \/ EndPrune(c) \/ CallFails(c)
      PROVE  ListOk(c)'
  <2>1. op'[c].at \in {"check", "load", "loaded", "save", "idle", "pruned"}
    BY <1>10, StartLoadStep, StartSaveStep, TruncateStep, PutObjectStep, WriteEndsStep,
       WriteIsLostStep, ListImagesStep, ReadImageStep, EndLoadStep, EndPruneStep, CallFailsStep
  <2> QED
    BY <1>4, <2>1
<1>11. ListOk(c)'
  <2>1. CASE \E o \in Objects : Truncate(c, o) \/ PutObject(c, o) \/ DeleteObject(c, o)
    BY <1>9, <1>10, <2>1
  <2> QED
    BY <1>5, <1>6, <1>7, <1>8, <1>9, <1>10, <2>1 DEF Steps
<1> QED
  BY <1>3, <1>11

LEMMA PruneInvariant == Spec => []PruneInv
<1>1. Init => PruneInv
  BY IdleOp DEF Init, PruneInv, AnnouncedInv, ListOk, Readable, NoObject, Objects
<1>2. ASSUME StoreInv, Tidy /\ Writes, PruneInv, [Next]_vars PROVE PruneInv'
  <2>1. CASE Next
    <3>1. PICK c \in Clients : Steps(c)
      BY <2>1, SomeStep
    <3> QED
      BY <1>2, <3>1, AnnouncedStep, ListStep DEF PruneInv
  <2>2. CASE UNCHANGED vars
    BY <1>2, <2>2 DEF vars, PruneInv, AnnouncedInv, ListOk, Readable, Superseded
  <2> QED
    BY <1>2, <2>1, <2>2
<1> QED
  BY <1>1, <1>2, StoreInvariant, TidyInvariant, PTL DEF Spec

(* Prune: of the snapshots ever announced the newest Keep are complete,    *)
(* except during a Save over them and after Saves of them that collided:   *)
(* Prune deletes only what Keep announced snapshots exceed, whatever its   *)
(* listing missed.  For any number of clients and snapshots.               *)
THEOREM NewestIsKept == Spec => []NewestKept
<1>1. ASSUME StoreInv, Tidy /\ Writes, PruneInv PROVE NewestKept
  <2>1. ASSUME NEW s \in Newest(announced, Keep) \ (overwritten \cup mixed) PROVE Complete(s)
    <3>1. s \in announced /\ ~Superseded(s) /\ s \in Snaps
      BY <1>1 DEF Newest, Superseded, Tidy
    <3>2. s \notin deleted
      BY <1>1, <3>1 DEF PruneInv, AnnouncedInv
    <3>3. Readable(s)
      BY <1>1, <2>1, <3>1, <3>2 DEF PruneInv, AnnouncedInv
    <3> QED
      BY <1>1, <2>1, <3>1, <3>2, <3>3 DEF StoreInv, AnnouncedComplete
  <2> QED
    BY <2>1 DEF NewestKept
<1> QED
  BY <1>1, StoreInvariant, TidyInvariant, PruneInvariant, PTL

(*---------------------- what an undisturbed Prune leaves -------------------*)
Remaining == {s \in Snaps : Readable(s)}
(* All that can be read is to be kept, Keep snapshots at most, or deleted. *)
Bounded(c) ==
  \E N \in SUBSET Snaps : Cardinality(N) <= Keep /\ Remaining \subseteq N \cup op[c].snaps
LimitOk(c) ==
  op[c].quiet =>
    /\ op[c].at = "list" => Remaining \subseteq op[c].metas \cup op[c].snaps
    /\ op[c].at \in {"prune", "delete"} => Bounded(c)
    /\ op[c].at = "delete" /\ backend = "s3" /\ Readable(op[c].snap) => Meta \in op[c].files
    /\ op[c].at = "pruned" => Cardinality(Remaining) <= Keep
LimitInv == \A c \in Clients : LimitOk(c)

LEMMA FewerRemain ==
  ASSUME Remaining' \subseteq Remaining, Cardinality(Remaining) <= Keep
  PROVE  Cardinality(Remaining') <= Keep
<1>1. IsFiniteSet(Remaining)
  BY StoreAssumption, FS_Subset DEF Remaining
<1>2. IsFiniteSet(Remaining') /\ Cardinality(Remaining') <= Cardinality(Remaining)
  <2> DEFINE A == Remaining
             B == Remaining'
  <2>1. B \subseteq A /\ IsFiniteSet(A)
    BY <1>1
  <2> HIDE DEF A, B
  <2>2. IsFiniteSet(B) /\ Cardinality(B) <= Cardinality(A)
    BY <2>1, FS_Subset
  <2> QED
    BY <2>2 DEF A, B
<1>3. Cardinality(Remaining) \in Nat /\ Cardinality(Remaining') \in Nat /\ Keep \in Nat
  BY <1>1, <1>2, FS_CardinalityType, StoreAssumption
<1> QED
  BY <1>2, <1>3

LEMMA OtherPrunes ==
  ASSUME StoreInv, Tidy, LimitInv, NEW c \in Clients, Steps(c), NEW d \in Clients \ {c}
  PROVE  LimitOk(d)'
<1>1. /\ op'[d].at = op[d].at /\ (op'[d].quiet => op'[d] = op[d])
      /\ LimitOk(d)
  BY StoreStep DEF Others, LimitInv
<1>2. CASE ~op'[d].quiet \/ d \notin Pruning
  BY <1>1, <1>2 DEF LimitOk, Pruning
<1>3. CASE op'[d].quiet /\ d \in Pruning
  <2>1. op'[d] = op[d] /\ op[d].quiet
    BY <1>1, <1>3
  <2>2. \A s \in Snaps : Readable(s)' => Readable(s)
    BY <1>3, HistoryStep
  <2>3. Remaining' \subseteq Remaining
    BY <2>2 DEF Remaining
  <2>4. backend' = backend
    <3>1. backend' = backend
      BY Zenon DEF Steps, StartLoad, StartSave, Truncate, PutObject, DeleteObject, WriteEnds,
                   Stored, WriteIsLost, ListImages, ReadImage, EndLoad, StartPrune, ReadMeta,
                   SkipMeta, Listed, NextDelete, EndDelete, EndPrune, CallFails
    <3> QED
      BY <3>1
  <2>5. op[d].at = "list" => Remaining' \subseteq op'[d].metas \cup op'[d].snaps
    BY <1>1, <2>1, <2>3 DEF LimitOk
  <2>6. op[d].at \in {"prune", "delete"} => Bounded(d)'
    BY <1>1, <2>1, <2>3 DEF LimitOk, Bounded
  <2>7. op[d].at = "delete" /\ backend = "s3" /\ Readable(op[d].snap)' => Meta \in op[d].files
    <3>1. op[d].at = "delete" => op[d].snap \in Snaps
      BY CallTypes DEF OfOne
    <3>2. op[d].at = "delete" /\ Readable(op[d].snap)' => Readable(op[d].snap)
      <4>1. PICK s : s = op[d].snap
        OBVIOUS
      <4>2. Readable(s)' <=> Readable(op[d].snap)'
        BY <2>1, <4>1 DEF Readable
      <4> QED
        BY <2>2, <3>1, <4>1, <4>2
    <3> QED
      BY <1>1, <2>1, <3>2 DEF LimitOk
  <2>8. op[d].at = "pruned" => Cardinality(Remaining') <= Keep
    BY <1>1, <2>1, <2>3, FewerRemain DEF LimitOk
  <2> QED
    BY <1>1, <2>1, <2>4, <2>5, <2>6, <2>7, <2>8 DEF LimitOk
<1> QED
  BY <1>2, <1>3


LEMMA OwnListing ==
  ASSUME StoreInv, Tidy, LimitInv, NEW c \in Clients,
         StartPrune(c) \/ ReadMeta(c) \/ SkipMeta(c) \/ Listed(c)
  PROVE  LimitOk(c)'
<1>1. objects' = objects /\ backend' = backend /\ LimitOk(c)
  BY DEF StartPrune, ReadMeta, SkipMeta, Listed, LimitInv
<1>2. Remaining' = Remaining
  BY <1>1 DEF Remaining, Readable
<1>3. ASSUME StartPrune(c) PROVE LimitOk(c)'
  <2>1. /\ op'[c].at = "list"
        /\ op'[c].snaps = IF backend = "pvc" THEN dirs ELSE {s \in Snaps : Present(s) # {}}
    BY <1>3, StartPruneStep
  <2>2. ASSUME NEW s \in Remaining PROVE s \in op'[c].snaps
    <3>1. s \in Snaps /\ Meta \in Present(s)
      BY <2>2 DEF Remaining, Readable, Present, Objects
    <3>2. backend = "pvc" => s \in dirs
      BY <2>2, <3>1 DEF Tidy, NoObject, Present, Objects
    <3> QED
      BY <2>1, <3>1, <3>2
  <2> QED
    BY <1>2, <2>1, <2>2 DEF LimitOk
<1>4. ASSUME ReadMeta(c) PROVE LimitOk(c)'
  <2>1. op[c].at = "list" /\ op'[c].at = "list" /\ op'[c].quiet = op[c].quiet
    BY <1>4, ReadMetaStep DEF ReadMeta
  <2>2. PICK s \in Snaps :
          /\ op'[c].snaps = op[c].snaps \ {s}
          /\ op'[c].metas = IF Readable(s) THEN op[c].metas \cup {s} ELSE op[c].metas
    BY <1>4, ReadMetaStep
  <2>3. op[c].quiet => Remaining \subseteq op[c].metas \cup op[c].snaps
    BY <1>1, <2>1 DEF LimitOk
  <2>4. s \in Remaining => Readable(s)
    BY DEF Remaining
  <2> QED
    BY <1>2, <2>1, <2>2, <2>3, <2>4 DEF LimitOk
<1>5. ASSUME SkipMeta(c) PROVE LimitOk(c)'
  BY <1>5, SkipMetaStep DEF LimitOk
<1>6. ASSUME Listed(c) PROVE LimitOk(c)'
  <2>1. /\ op[c].at = "list" /\ op[c].snaps = {} /\ op'[c].at = "prune"
        /\ op'[c].quiet = op[c].quiet /\ op'[c].snaps = Doomed(op[c].metas)
    BY <1>6, ListedStep DEF Listed
  <2>2. op[c].metas \in SUBSET Snaps
    BY CallTypes
  <2>3. PICK N \in SUBSET Snaps : N = Newest(op[c].metas, Keep) /\ Cardinality(N) <= Keep
    BY <2>2, NewestCount
  <2>4. op[c].quiet => Remaining \subseteq op[c].metas
    BY <1>1, <2>1 DEF LimitOk
  <2>5. op'[c].quiet => Remaining' \subseteq N \cup op'[c].snaps
    BY <1>2, <2>1, <2>3, <2>4 DEF Doomed
  <2>6. op'[c].quiet => Bounded(c)'
    BY <2>3, <2>5 DEF Bounded
  <2> QED
    BY <2>1, <2>6 DEF LimitOk
<1> QED
  BY <1>3, <1>4, <1>5, <1>6

LEMMA OwnDeletes ==
  ASSUME StoreInv, Tidy, LimitInv, NEW c \in Clients,
         NextDelete(c) \/ EndDelete(c) \/ EndPrune(c)
  PROVE  LimitOk(c)'
<1>1. objects' = objects /\ backend' = backend /\ LimitOk(c) /\ backend \in {"pvc", "s3"}
  BY DEF NextDelete, EndDelete, EndPrune, LimitInv, StoreInv, Types
<1>2. Remaining' = Remaining
  BY <1>1 DEF Remaining, Readable
<1>3. ASSUME NextDelete(c) PROVE LimitOk(c)'
  <2>1. /\ op[c].at = "prune" /\ op'[c].at = "delete"
        /\ op'[c].quiet = op[c].quiet /\ op'[c].snaps = op[c].snaps
    BY <1>3, NextDeleteStep DEF NextDelete
  <2>2. PICK s \in Snaps : op'[c].snap = s /\ op'[c].files = Present(s)
    BY <1>3, NextDeleteStep
  <2>3. op'[c].quiet => Bounded(c)'
    BY <1>1, <1>2, <2>1 DEF LimitOk, Bounded
  <2>4. Readable(op[c].snap)' => Readable(s)
    BY <1>1, <2>2 DEF Readable
  <2>5. Readable(s) => Meta \in Present(s)
    BY DEF Readable, Present, Objects
  <2> QED
    BY <2>1, <2>2, <2>3, <2>4, <2>5 DEF LimitOk
<1>4. ASSUME EndDelete(c) PROVE LimitOk(c)'
  <2>1. /\ op[c].at = "delete" /\ Left(c) = {} /\ op'[c].at = "prune"
        /\ op'[c].quiet = op[c].quiet /\ op'[c].snaps = op[c].snaps \ {op[c].snap}
    BY <1>4, EndDeleteStep DEF EndDelete
  <2>2. ASSUME op[c].quiet PROVE op[c].snap \notin Remaining
    <3>1. CASE backend = "pvc"
      BY <2>1, <3>1 DEF Left, Present, Remaining, Readable, Objects
    <3>2. CASE backend = "s3"
      BY <1>1, <2>1, <2>2, <3>2 DEF Left, Remaining, LimitOk
    <3> QED
      BY <1>1, <3>1, <3>2
  <2>3. op[c].quiet => Bounded(c)
    BY <1>1, <2>1 DEF LimitOk
  <2>4. op'[c].quiet => Bounded(c)'
    BY <1>2, <2>1, <2>2, <2>3 DEF Bounded
  <2> QED
    BY <2>1, <2>4 DEF LimitOk
<1>5. ASSUME EndPrune(c) PROVE LimitOk(c)'
  <2>1. /\ op[c].at = "prune" /\ op[c].snaps = {} /\ op'[c].at = "pruned"
        /\ op'[c].quiet = op[c].quiet
    BY <1>5, EndPruneStep DEF EndPrune
  <2>2. ASSUME op[c].quiet PROVE Cardinality(Remaining) <= Keep
    <3>1. PICK N \in SUBSET Snaps : Cardinality(N) <= Keep /\ Remaining \subseteq N
      BY <1>1, <2>1, <2>2 DEF LimitOk, Bounded
    <3>2. IsFiniteSet(N)
      BY FS_Subset, StoreAssumption
    <3>3. IsFiniteSet(Remaining) /\ Cardinality(Remaining) <= Cardinality(N)
      BY <3>1, <3>2, FS_Subset
    <3>4. Cardinality(Remaining) \in Nat /\ Cardinality(N) \in Nat /\ Keep \in Nat
      BY <3>2, <3>3, FS_CardinalityType, StoreAssumption
    <3> QED
      BY <3>1, <3>3, <3>4
  <2> QED
    BY <1>2, <2>1, <2>2 DEF LimitOk
<1> QED
  BY <1>3, <1>4, <1>5

LEMMA OwnDeleteObject ==
  ASSUME StoreInv, Tidy, LimitInv, NEW c \in Clients, NEW o \in Objects, DeleteObject(c, o)
  PROVE  LimitOk(c)'
<1>1. /\ op[c].at = "delete" /\ op'[c].at = "delete" /\ op'[c].snap = op[c].snap
      /\ op'[c].quiet = op[c].quiet /\ op'[c].snaps = op[c].snaps
      /\ op'[c].files = op[c].files \ {o}
  BY DeleteObjectStep DEF DeleteObject
<1>2. /\ backend' = backend /\ LimitOk(c)
      /\ objects' = [objects EXCEPT ![op[c].snap][o] = "absent"]
  BY DEF DeleteObject, LimitInv
<1>3. /\ op[c].snap \in Snaps /\ Meta \in Objects
      /\ objects \in [Snaps -> [Objects -> States]]
  BY <1>1, CallTypes DEF OfOne, Objects, StoreInv, Types
<1>4. \A s \in Snaps : Readable(s)' => Readable(s)
  BY <1>2, <1>3 DEF Readable
<1>5. Remaining' \subseteq Remaining
  BY <1>4 DEF Remaining
<1>6. op'[c].quiet => Bounded(c)'
  BY <1>1, <1>2, <1>5 DEF LimitOk, Bounded
<1>7. PICK s \in Snaps : s = op[c].snap
  BY <1>3
<1>8. o = Meta => ~Readable(s)'
  BY <1>2, <1>3, <1>7 DEF Readable
<1>9. Readable(op[c].snap)' => Readable(s)' /\ Readable(op[c].snap)
  BY <1>1, <1>4, <1>7 DEF Readable
<1> QED
  BY <1>1, <1>2, <1>6, <1>8, <1>9 DEF LimitOk

LEMMA OwnPrune ==
  ASSUME StoreInv, Tidy, LimitInv, NEW c \in Clients, Steps(c)
  PROVE  LimitOk(c)'
<1>1. ASSUME op'[c].at \notin {"list", "prune", "delete", "pruned"} PROVE LimitOk(c)'
  BY <1>1 DEF LimitOk
<1>2. ASSUME \/ \E s \in Snaps : StartLoad(c, s) \/ \E v \in Contents : StartSave(c, s, v)
             \/ \E o \in Objects : Truncate(c, o) \/ PutObject(c, o)
             \/ WriteEnds(c) \/ WriteIsLost(c)
             \/ ListImages(c) \/ (\E f \in Images : ReadImage(c, f)) \/ EndLoad(c)
             \/ CallFails(c)
      PROVE  LimitOk(c)'
  <2>1. op'[c].at \in {"check", "load", "loaded", "save", "idle"}
    BY <1>2, StartLoadStep, StartSaveStep, TruncateStep, PutObjectStep, WriteEndsStep,
       WriteIsLostStep, ListImagesStep, ReadImageStep, EndLoadStep, CallFailsStep
  <2> QED
    BY <1>1, <2>1
<1>3. CASE \E o \in Objects : Truncate(c, o) \/ PutObject(c, o) \/ DeleteObject(c, o)
  BY <1>2, <1>3, OwnDeleteObject
<1> QED
  BY <1>2, <1>3, OwnListing, OwnDeletes DEF Steps

(* Prune: one that returns no error and skipped no snapshot leaves at most *)
(* Keep of them, unless a Save announced one meanwhile; other Prunes may   *)
(* run beside it.  For any number of clients and snapshots, on either      *)
(* backend.                                                                *)
THEOREM PruneLeavesAtMostKeep == Spec => []PruneReachesLimit
<1>1. Init => LimitInv
  BY IdleOp DEF Init, LimitInv, LimitOk
<1>2. ASSUME StoreInv, Tidy /\ Writes, LimitInv, [Next]_vars PROVE LimitInv'
  <2>1. CASE Next
    <3>1. PICK c \in Clients : Steps(c)
      BY <2>1, SomeStep
    <3>2. LimitOk(c)' /\ \A d \in Clients \ {c} : LimitOk(d)'
      BY <1>2, <3>1, OwnPrune, OtherPrunes
    <3> QED
      BY <3>2 DEF LimitInv
  <2>2. CASE UNCHANGED vars
    BY <1>2, <2>2 DEF vars, LimitInv, LimitOk, Bounded, Remaining, Readable
  <2> QED
    BY <1>2, <2>1, <2>2
<1>3. LimitInv => PruneReachesLimit
  BY DEF LimitInv, LimitOk, PruneReachesLimit, Remaining
<1> QED
  BY <1>1, <1>2, <1>3, StoreInvariant, TidyInvariant, PTL DEF Spec

================================================================================
