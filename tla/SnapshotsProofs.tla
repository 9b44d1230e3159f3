-------------------------- MODULE SnapshotsProofs --------------------------
(***************************************************************************)
(* Proofs about Snapshots, for any processes, files, labels and bounds:    *)
(* a take that returned is whole, a restore that reports success has put   *)
(* back what the snapshot holds, and undo stays where it was asked to be.  *)
(***************************************************************************)
EXTENDS Snapshots, FiniteSetTheorems, TLAPS

USE SnapAssumption DEF Things, Contents

Taking(p) == work[p].pc \in {"take", "copy", "publish"}
Restores(p) == work[p].pc \in {"restore", "write"}

\* Types, and that the takes are numbered from 1.
TypeInv ==
  /\ TypeOK /\ IsFiniteSet(begun)
  /\ \A p \in Procs : Taking(p) => work[p].at # 0

-----------------------------------------------------------------------------
(* Type correctness.                                                       *)

LEMMA IdleType == Idle \in Locals /\ Nothing \in [Files -> Things] /\ Nothing = Idle.hash
<1>1. <<0, CHOOSE l \in Labels : TRUE>> \in Names
  <2>1. (CHOOSE l \in Labels : TRUE) \in Labels OBVIOUS
  <2> QED BY <2>1 DEF Names
<1>2. Nothing \in [Files -> Things] BY DEF Nothing
<1> QED BY <1>1, <1>2 DEF Idle, Locals

\* What a take begins with.
LEMMA TakeLocals ==
  ASSUME NEW n \in Names, NEW at \in 0..MaxTakes, NEW records \in SUBSET Files
  PROVE  [Idle EXCEPT !.pc = "take", !.name = n, !.at = at, !.files = records, !.todo = records]
           \in Locals
BY IdleType DEF Locals

\* What a process knows of the others can be any set of files.
LEMMA OthersType ==
  ASSUME NEW l \in Locals, NEW fs \in SUBSET Files
  PROVE  LET m == [l EXCEPT !.others = fs] IN
         /\ m \in Locals
         /\ m.pc = l.pc /\ m.name = l.name /\ m.at = l.at /\ m.files = l.files /\ m.todo = l.todo
         /\ m.held = l.held /\ m.hash = l.hash /\ m.scope = l.scope /\ m.byId = l.byId
         /\ m.others = fs
BY DEF Locals

\* Noticed changes nothing but that.
LEMMA NoticedType ==
  ASSUME NEW w \in [Procs -> Locals], NEW others, NEW f \in Files
  PROVE  /\ Noticed(w, others, f) \in [Procs -> Locals]
         /\ \A q \in Procs :
              /\ Noticed(w, others, f)[q].pc = w[q].pc
              /\ Noticed(w, others, f)[q].name = w[q].name
              /\ Noticed(w, others, f)[q].at = w[q].at
              /\ Noticed(w, others, f)[q].files = w[q].files
              /\ Noticed(w, others, f)[q].todo = w[q].todo
              /\ Noticed(w, others, f)[q].held = w[q].held
              /\ Noticed(w, others, f)[q].hash = w[q].hash
              /\ Noticed(w, others, f)[q].scope = w[q].scope
              /\ Noticed(w, others, f)[q].byId = w[q].byId
<1> DEFINE fs(q) == w[q].others \cup ({f} \cap w[q].files)
           v == Noticed(w, others, f)
<1>1. ASSUME NEW q \in Procs
      PROVE  /\ v[q] \in Locals
             /\ v[q].pc = w[q].pc /\ v[q].name = w[q].name /\ v[q].at = w[q].at
             /\ v[q].files = w[q].files /\ v[q].todo = w[q].todo /\ v[q].held = w[q].held
             /\ v[q].hash = w[q].hash /\ v[q].scope = w[q].scope /\ v[q].byId = w[q].byId
  <2>1. w[q] \in Locals /\ fs(q) \in SUBSET Files BY DEF Locals
  <2>2. CASE q \in others /\ w[q].pc \in {"restore", "write"}
    <3>1. v[q] = [w[q] EXCEPT !.others = fs(q)] BY <2>2 DEF Noticed
    <3> HIDE DEF fs, v
    <3> QED BY <2>1, <2>2, <3>1, OthersType
  <2>3. CASE ~(q \in others /\ w[q].pc \in {"restore", "write"})
    <3>1. v[q] = w[q] BY <2>3 DEF Noticed
    <3> HIDE DEF fs, v
    <3> QED BY <2>1, <2>3, <3>1
  <2> QED BY <2>2, <2>3
<1>2. v = [q \in Procs |-> v[q]] BY DEF Noticed
<1> HIDE DEF v
<1>3. v \in [Procs -> Locals] BY <1>1, <1>2
<1> USE DEF v
<1> QED BY <1>1, <1>3

\* A name is made of its parts.
LEMMA NameTypes ==
  /\ \A s \in 0..MaxClock, l \in Labels : SnapName(s, l) \in Names
  /\ \A s, t, l, m : SnapName(s, l) = SnapName(t, m) => s = t /\ l = m
BY DEF SnapName, Names

\* The next take has a number of its own.
LEMMA NextTake ==
  ASSUME TypeInv, Cardinality(begun) < MaxTakes
  PROVE  Cardinality(begun) + 1 \in 1..MaxTakes
BY FS_CardinalityType DEF TypeInv

\* The types are kept by a step of a take.
LEMMA TakeTypeStep ==
  ASSUME TypeInv, NEW p \in Procs,
         \/ TakeCmd(p) \/ TakeManifest(p) \/ TakePublish(p)
         \/ \E f \in Files : TakeOpen(p, f) \/ TakeCopy(p, f)
  PROVE  TypeInv'
<1> USE DEF TypeInv
<1>1. work[p] \in Locals /\ work \in [Procs -> Locals] BY DEF TypeOK
<1>2. ASSUME NEW ids \in Selections, NEW second \in 0..MaxClock, NEW label \in Labels,
             SnapTake(p, ids, second, label) PROVE TypeInv'
  <2> DEFINE n == SnapName(second, label)
             at == Cardinality(begun) + 1
             records == IF ids = {} THEN Files ELSE ids
             new == [Idle EXCEPT !.pc = "take", !.name = n, !.at = at, !.files = records, !.todo = records]
             t == [at |-> at, second |-> second, label |-> label]
  <2>1. at \in 1..MaxTakes /\ n \in Names /\ records \subseteq Files
    BY <1>2, NextTake, NameTypes DEF SnapTake
  <2>2. work' = [work EXCEPT ![p] = new] /\ begun' = begun \cup {t} /\ dirs' = dirs \cup {n}
        /\ UNCHANGED <<disk, copies, manifests, finished, dropped, ops>>
    BY <1>2 DEF SnapTake
  <2>3. t \in Takes BY <2>1 DEF Takes
  <2> HIDE DEF n, at, records
  <2>4. new \in Locals /\ new.at # 0
    <3>1. at \in 0..MaxTakes BY <2>1
    <3>2. new \in Locals BY <2>1, <3>1, TakeLocals
    <3>3. new.at = at BY DEF Idle
    <3> QED BY <2>1, <3>2, <3>3
  <2>5. IsFiniteSet(begun') BY <2>2, FS_AddElement
  <2> HIDE DEF new, t
  <2>6. work' \in [Procs -> Locals] BY <1>1, <2>2, <2>4
  <2>7. begun' \subseteq Takes /\ finished' \subseteq begun' /\ dirs' \subseteq Names
    BY <2>1, <2>2, <2>3 DEF TypeOK
  <2>8. TypeOK' BY <2>2, <2>6, <2>7 DEF TypeOK
  <2> QED BY <1>1, <2>2, <2>4, <2>5, <2>8 DEF Taking
<1>3. ASSUME NEW f \in Files, TakeOpen(p, f) PROVE TypeInv'
  <2>1. work'[p] \in Locals /\ work' = [work EXCEPT ![p] = work'[p]]
        /\ work'[p].at = work[p].at /\ Taking(p)
    <3>1. CASE work' = [work EXCEPT ![p].todo = @ \ {f}]
      BY <1>1, <1>3, <3>1 DEF TakeOpen, Locals, At, Taking
    <3>2. CASE work' = [work EXCEPT ![p].pc = "copy", ![p].held = disk[f]]
      BY <1>1, <1>3, <3>2 DEF TakeOpen, Locals, At, Taking, TypeOK
    <3> QED BY <1>3, <3>1, <3>2 DEF TakeOpen
  <2>2. dirs' \subseteq Names /\ copies' \in [Names -> [Files -> Things]]
    <3>1. work[p].name \in Names BY <1>1 DEF Locals
    <3>2. CASE UNCHANGED <<dirs, copies>> BY <3>2 DEF TypeOK
    <3>3. CASE dirs' = dirs \cup {work[p].name} /\ copies' = [copies EXCEPT ![work[p].name][f] = Torn]
      BY <3>1, <3>3 DEF TypeOK
    <3> QED BY <1>3, <3>2, <3>3 DEF TakeOpen
  <2>3. UNCHANGED <<disk, manifests, begun, finished, dropped>> /\ ops' \in 0..MaxOps
    BY <1>3 DEF TakeOpen, TypeOK
  <2> QED BY <1>1, <2>1, <2>2, <2>3 DEF TypeOK, Taking
<1>4. ASSUME NEW f \in Files, TakeCopy(p, f) PROVE TypeInv'
  <2>1. PICK c \in {work[p].held, disk[f]} \ {Absent} :
          LET kept == copies[work[p].name][f] # Absent
              hash == [work[p].hash EXCEPT ![f] = IF kept THEN c ELSE Absent]
          IN
          /\ copies' = IF kept THEN [copies EXCEPT ![work[p].name][f] = c] ELSE copies
          /\ work' = [work EXCEPT ![p] = [work[p] EXCEPT
                         !.pc = "take", !.todo = work[p].todo \ {f}, !.held = Absent, !.hash = hash]]
    BY <1>4 DEF TakeCopy
  <2>2. c \in Things BY <1>1 DEF Locals, TypeOK
  <2>3. work'[p] \in Locals /\ work' = [work EXCEPT ![p] = work'[p]] /\ work'[p].at = work[p].at
    BY <1>1, <2>1, <2>2 DEF Locals
  <2>4. copies' \in [Names -> [Files -> Things]] BY <2>1, <2>2 DEF TypeOK
  <2>5. UNCHANGED <<disk, dirs, manifests, begun, finished, dropped, ops>> /\ Taking(p)
    BY <1>4 DEF TakeCopy, At, Taking
  <2> QED BY <1>1, <2>3, <2>4, <2>5 DEF TypeOK, Taking
<1>5. CASE TakeManifest(p)
  <2>1. work'[p] \in Locals /\ work' = [work EXCEPT ![p] = work'[p]]
        /\ (work'[p] = Idle \/ work'[p].at = work[p].at) /\ Taking(p)
    <3>1. CASE work' = [work EXCEPT ![p].pc = "publish"]
      BY <1>1, <1>5, <3>1 DEF TakeManifest, Locals, At, Taking
    <3>2. CASE work' = [work EXCEPT ![p] = Idle]
      BY <1>1, <1>5, <3>2, IdleType DEF TakeManifest, At, Taking
    <3> QED BY <1>5, <3>1, <3>2 DEF TakeManifest
  <2>2. manifests' \in [Names -> Manifests \cup {NoManifest}]
    BY <1>1, <1>5 DEF TakeManifest, Locals, TypeOK
  <2>3. UNCHANGED <<disk, dirs, copies, begun, finished, dropped, ops>> BY <1>5 DEF TakeManifest
  <2> QED BY <1>1, <2>1, <2>2, <2>3 DEF TypeOK, Taking, Idle
<1>6. CASE TakePublish(p)
  <2>1. work[p].at \in 1..MaxTakes BY <1>1, <1>6 DEF TakePublish, At, Taking, Locals
  <2>2. [at |-> work[p].at, files |-> work[p].files, hash |-> work[p].hash] \in Manifests
    BY <1>1, <2>1 DEF Manifests, Locals
  <2>3. manifests' \in [Names -> Manifests \cup {NoManifest}] BY <1>6, <2>2 DEF TakePublish, TypeOK
  <2>4. work' = [work EXCEPT ![p] = Idle] /\ finished' \subseteq begun
    BY <1>6 DEF TakePublish, TypeOK
  <2>5. UNCHANGED <<disk, dirs, copies, begun, dropped, ops>> BY <1>6 DEF TakePublish
  <2> QED BY <1>1, <2>3, <2>4, <2>5, IdleType DEF TypeOK, Taking, Idle
<1> QED BY <1>2, <1>3, <1>4, <1>5, <1>6 DEF TakeCmd

\* The types are kept when only the disk, the work of processes that take
\* nothing, and the number of operations change.
LEMMA OtherTypeStep ==
  ASSUME TypeInv, disk' \in [Files -> Things], work' \in [Procs -> Locals], ops' \in 0..MaxOps,
         dropped' \subseteq Names, UNCHANGED <<snaps, begun, finished>>,
         \A p \in Procs : Taking(p)' => Taking(p) /\ work'[p].at = work[p].at
  PROVE  TypeInv'
BY DEF TypeInv, TypeOK, snaps

\* Steps of users, failures, and those of a restore or drop.
LEMMA UserTypeStep ==
  ASSUME TypeInv, NEW f \in Files, Edit(f) \/ Delete(f)
  PROVE  TypeInv'
<1>1. PICK c \in Things : Write(f, c)
  <2>1. ops < MaxOps => ops + 1 \in Contents BY DEF TypeInv, TypeOK
  <2>2. CASE Edit(f)
    <3>1. ops < MaxOps BY <2>2 DEF Edit, Write
    <3> QED BY <2>1, <2>2, <3>1 DEF Edit
  <2>3. CASE Delete(f) BY <2>3 DEF Delete
  <2> QED BY <2>2, <2>3
<1>2. work \in [Procs -> Locals] /\ disk \in [Files -> Things] /\ ops \in 0..MaxOps /\ dropped \subseteq Names
  BY DEF TypeInv, TypeOK
<1>3. work' = Noticed(work, Procs, f) /\ disk' = [disk EXCEPT ![f] = c]
      /\ UNCHANGED <<snaps, begun, finished, dropped>>
  BY <1>1 DEF Write
<1>4. work' \in [Procs -> Locals] /\ \A p \in Procs : work'[p].pc = work[p].pc /\ work'[p].at = work[p].at
  <2> DEFINE v == Noticed(work, Procs, f)
  <2>1. v \in [Procs -> Locals] /\ \A p \in Procs : v[p].pc = work[p].pc /\ v[p].at = work[p].at
    BY <1>2, NoticedType
  <2>2. work' = v BY <1>3
  <2> HIDE DEF v
  <2> QED BY <2>1, <2>2
<1>5. ops' \in 0..MaxOps BY <1>1, <1>2 DEF Write
<1>6. disk' \in [Files -> Things] BY <1>2, <1>3
<1>7. dropped' \subseteq Names /\ UNCHANGED <<snaps, begun, finished>> BY <1>2, <1>3
<1>8. \A p \in Procs : Taking(p)' => Taking(p) /\ work'[p].at = work[p].at BY <1>4 DEF Taking
<1> QED BY <1>4, <1>5, <1>6, <1>7, <1>8, OtherTypeStep

\* A process that does not take goes on with the locals l.
LEMMA WorkTypeStep ==
  ASSUME TypeInv, NEW p \in Procs, NEW l \in Locals, work' = [work EXCEPT ![p] = l],
         l.pc \in {"take", "copy", "publish"} => FALSE,
         disk' \in [Files -> Things], ops' \in 0..MaxOps, dropped' \subseteq Names,
         UNCHANGED <<snaps, begun, finished>>
  PROVE  TypeInv'
<1>1. work \in [Procs -> Locals] BY DEF TypeInv, TypeOK
<1>2. work' \in [Procs -> Locals] BY <1>1
<1>3. \A q \in Procs : Taking(q)' => Taking(q) /\ work'[q].at = work[q].at BY <1>1 DEF Taking
<1> QED BY <1>2, <1>3, OtherTypeStep

LEMMA RestoreTypeStep ==
  ASSUME TypeInv, NEW p \in Procs,
         \/ RestoreCmd(p) \/ UndoCmd(p) \/ DropCmd(p) \/ UndoRestores(p) \/ RestoreEnds(p) \/ Fails(p)
         \/ \E f \in Files : RestoreOpen(p, f) \/ RestoreWrite(p, f)
  PROVE  TypeInv'
<1> USE DEF TypeInv
<1>1. work[p] \in Locals /\ work \in [Procs -> Locals] /\ disk \in [Files -> Things]
      /\ ops \in 0..MaxOps /\ dropped \subseteq Names
  BY DEF TypeOK
<1>2. ASSUME NEW n \in SnapList
      PROVE  manifests[n] \in Manifests /\ n \in Names /\ manifests[n].at \in 0..MaxTakes
             /\ manifests[n].files \subseteq Files /\ manifests[n].hash \in [Files -> Things]
  BY DEF SnapList, TypeOK, Manifests
<1>3. CASE RestoreCmd(p)
  <2>1. PICK n \in Names, ids \in Selections : SnapRestore(p, n, ids) BY <1>3 DEF RestoreCmd
  <2> DEFINE want == IF ids = {} THEN manifests[n].files ELSE manifests[n].files \cap ids
             l == [Idle EXCEPT !.pc = "restore", !.name = n, !.at = manifests[n].at, !.files = want,
                     !.todo = want, !.hash = manifests[n].hash, !.scope = Files]
  <2>2. n \in SnapList BY <2>1 DEF SnapRestore, SnapResolveID
  <2>3. want \subseteq Files BY <1>2, <2>2
  <2> HIDE DEF want
  <2>4. l \in Locals BY <1>2, <2>2, <2>3, IdleType DEF Locals
  <2>5. l.pc = "restore" BY DEF Idle
  <2>6. work' = [work EXCEPT ![p] = l] /\ UNCHANGED <<disk, snaps, begun, finished, dropped, ops>>
    BY <2>1 DEF SnapRestore, want
  <2> HIDE DEF l
  <2> QED BY <1>1, <2>4, <2>5, <2>6, WorkTypeStep
<1>4. CASE UndoCmd(p)
  <2>1. PICK scope \in Scopes \cup {Files}, ids \in Selections : SnapUndo(p, scope, ids) BY <1>4 DEF UndoCmd
  <2>2. PICK n \in SnapList :
          work' = [work EXCEPT ![p] = [Idle EXCEPT !.pc = "undo", !.name = n,
                     !.files = IF ids = {} THEN manifests[n].files \cap scope ELSE ids,
                     !.scope = scope, !.byId = ids # {}]]
    BY <2>1 DEF SnapUndo
  <2> DEFINE given == IF ids = {} THEN manifests[n].files \cap scope ELSE ids
             byId == ids # {}
             l == [Idle EXCEPT !.pc = "undo", !.name = n, !.files = given, !.scope = scope, !.byId = byId]
  <2>3. given \subseteq Files /\ scope \subseteq Files /\ byId \in BOOLEAN BY <1>2
  <2>4. work' = [work EXCEPT ![p] = l] BY <2>2
  <2>5. UNCHANGED <<disk, snaps, begun, finished, dropped, ops>> BY <2>1 DEF SnapUndo
  <2> HIDE DEF given, byId
  <2>6. l \in Locals BY <1>2, <2>3, IdleType DEF Locals
  <2>7. l.pc = "undo" BY DEF Idle
  <2> HIDE DEF l
  <2> QED BY <1>1, <2>4, <2>5, <2>6, <2>7, WorkTypeStep
<1>5. CASE UndoRestores(p)
  <2> DEFINE n == work[p].name
             want == IF work[p].files = {} THEN manifests[n].files ELSE manifests[n].files \cap work[p].files
             l == [work[p] EXCEPT !.pc = "restore", !.at = manifests[n].at, !.files = want,
                     !.todo = want, !.hash = manifests[n].hash]
  <2>1. UNCHANGED <<disk, snaps, begun, finished, dropped, ops>> BY <1>5 DEF UndoRestores
  <2>2. CASE n \in SnapList
    <3>1. want \subseteq Files BY <1>2, <2>2
    <3>2. work' = [work EXCEPT ![p] = l] BY <1>1, <1>5, <2>2 DEF UndoRestores, SnapResolveID
    <3> HIDE DEF want
    <3>3. l \in Locals BY <1>1, <1>2, <2>2, <3>1 DEF Locals
    <3>4. l.pc = "restore" BY <1>1 DEF Locals
    <3> HIDE DEF l
    <3> QED BY <1>1, <2>1, <3>2, <3>3, <3>4, WorkTypeStep
  <2>3. CASE n \notin SnapList
    <3>1. work' = [work EXCEPT ![p] = Idle] BY <1>1, <1>5, <2>3 DEF UndoRestores, SnapResolveID
    <3>2. Idle.pc = "idle" BY DEF Idle
    <3> QED BY <1>1, <2>1, <3>1, <3>2, IdleType, WorkTypeStep
  <2> QED BY <2>2, <2>3
<1>6. CASE DropCmd(p)
  <2>1. PICK n \in Names : SnapDrop(p, n) BY <1>6 DEF DropCmd
  <2> DEFINE l == [Idle EXCEPT !.pc = "drop", !.name = n]
  <2>2. l \in Locals BY IdleType DEF Locals
  <2>3. l.pc = "drop" BY DEF Idle
  <2>4. work' = [work EXCEPT ![p] = l] /\ dropped' \subseteq Names
        /\ UNCHANGED <<disk, snaps, begun, finished, ops>>
    BY <1>1, <2>1 DEF SnapDrop
  <2> HIDE DEF l
  <2> QED BY <1>1, <2>2, <2>3, <2>4, WorkTypeStep
<1>7. CASE RestoreEnds(p) \/ Fails(p)
  <2>1. work' = [work EXCEPT ![p] = Idle] /\ UNCHANGED <<disk, snaps, begun, finished, dropped>>
    BY <1>7 DEF RestoreEnds, Fails
  <2>2. ops' \in 0..MaxOps BY <1>1, <1>7 DEF RestoreEnds, Fails
  <2>3. Idle.pc = "idle" BY DEF Idle
  <2> QED BY <1>1, <2>1, <2>2, <2>3, IdleType, WorkTypeStep
<1>8. ASSUME NEW f \in Files, RestoreOpen(p, f) PROVE TypeInv'
  <2> DEFINE copy == copies[work[p].name][f]
             l == [work[p] EXCEPT !.pc = "write", !.held = copy]
  <2>1. work[p].name \in Names /\ copy \in Things BY <1>1 DEF Locals, TypeOK
  <2>2. work[p].pc = "restore" /\ UNCHANGED <<snaps, begun, finished, dropped, ops>>
    BY <1>8 DEF RestoreOpen, At
  <2>3. CASE work' = [work EXCEPT ![p].todo = @ \ {f}] /\ UNCHANGED disk
    <3>1. [work[p] EXCEPT !.todo = @ \ {f}] \in Locals BY <1>1 DEF Locals
    <3>2. [work[p] EXCEPT !.todo = @ \ {f}].pc = "restore" BY <1>1, <2>2 DEF Locals
    <3>3. work' = [work EXCEPT ![p] = [work[p] EXCEPT !.todo = @ \ {f}]] BY <1>1, <2>3
    <3> QED BY <1>1, <2>2, <2>3, <3>1, <3>2, <3>3, WorkTypeStep
  <2>4. CASE work' = Noticed([work EXCEPT ![p].pc = "write", ![p].held = copy], Procs \ {p}, f)
             /\ disk' = [disk EXCEPT ![f] = Torn]
    <3>1. l \in Locals /\ l.pc = "write" BY <1>1, <2>1 DEF Locals
    <3>2. [work EXCEPT ![p].pc = "write", ![p].held = copy] = [work EXCEPT ![p] = l] BY <1>1
    <3> HIDE DEF l, copy
    <3> DEFINE w == [work EXCEPT ![p] = l]
    <3>3. w \in [Procs -> Locals] /\ \A q \in Procs : w[q] = IF q = p THEN l ELSE work[q]
      BY <1>1, <3>1
    <3>4. work' = Noticed(w, Procs \ {p}, f) BY <2>4, <3>2
    <3> HIDE DEF w
    <3>5. work' \in [Procs -> Locals]
          /\ \A q \in Procs : work'[q].pc = w[q].pc /\ work'[q].at = w[q].at
      <4> DEFINE v == Noticed(w, Procs \ {p}, f)
      <4>1. v \in [Procs -> Locals] /\ \A q \in Procs : v[q].pc = w[q].pc /\ v[q].at = w[q].at
        BY <3>3, NoticedType
      <4>2. work' = v BY <3>4
      <4> HIDE DEF v
      <4> QED BY <4>1, <4>2
    <3>6. \A q \in Procs : Taking(q)' => Taking(q) /\ work'[q].at = work[q].at
      BY <3>1, <3>3, <3>5 DEF Taking
    <3>7. disk' \in [Files -> Things] BY <1>1, <2>4
    <3> QED BY <1>1, <2>2, <3>5, <3>6, <3>7, OtherTypeStep
  <2> QED BY <1>8, <2>3, <2>4 DEF RestoreOpen
<1>9. ASSUME NEW f \in Files, RestoreWrite(p, f) PROVE TypeInv'
  <2> DEFINE n == work[p].name
             w == [work EXCEPT ![p].pc = "restore", ![p].todo = @ \ {f}, ![p].held = Absent]
             l == [work[p] EXCEPT !.pc = "restore", !.todo = @ \ {f}, !.held = Absent]
  <2>1. l \in Locals /\ l.pc = "restore" BY <1>1 DEF Locals
  <2>2. w = [work EXCEPT ![p] = l] BY <1>1
  <2> HIDE DEF l
  <2>3. w \in [Procs -> Locals] /\ \A q \in Procs : w[q] = IF q = p THEN l ELSE work[q] BY <1>1, <2>1, <2>2
  <2>4. \/ work' = w /\ UNCHANGED disk
        \/ /\ work' = Noticed(w, Procs \ {p}, f)
           /\ \E c \in {work[p].held, copies[n][f]} : disk' = [disk EXCEPT ![f] = c]
    BY <1>9 DEF RestoreWrite
  <2>5. work[p].held \in Things /\ copies[n][f] \in Things BY <1>1 DEF Locals, TypeOK
  <2>6. disk' \in [Files -> Things] BY <1>1, <2>4, <2>5
  <2>7. UNCHANGED <<snaps, begun, finished, dropped, ops>> BY <1>9 DEF RestoreWrite
  <2> HIDE DEF w
  <2>8. work' \in [Procs -> Locals] /\ \A q \in Procs : work'[q].pc = w[q].pc /\ work'[q].at = w[q].at
    <3> DEFINE v == Noticed(w, Procs \ {p}, f)
    <3>1. v \in [Procs -> Locals] /\ \A q \in Procs : v[q].pc = w[q].pc /\ v[q].at = w[q].at
      BY <2>3, NoticedType
    <3>2. work' = v \/ work' = w BY <2>4
    <3> HIDE DEF v
    <3> QED BY <2>3, <3>1, <3>2
  <2>9. \A q \in Procs : Taking(q)' => Taking(q) /\ work'[q].at = work[q].at
    BY <2>1, <2>3, <2>8 DEF Taking
  <2> QED BY <1>1, <2>6, <2>7, <2>8, <2>9, OtherTypeStep
<1> QED BY <1>3, <1>4, <1>5, <1>6, <1>7, <1>8, <1>9

LEMMA DropTypeStep ==
  ASSUME TypeInv, NEW p \in Procs, DropEntry(p)
  PROVE  TypeInv'
<1> USE DEF TypeInv
<1>1. work[p].name \in Names /\ work \in [Procs -> Locals] /\ Idle.pc = "idle" BY DEF TypeOK, Locals, Idle
<1>2. dirs' \subseteq Names BY DEF DropEntry, TypeOK
<1>3. copies' \in [Names -> [Files -> Things]]
  <2>1. ASSUME NEW f \in Files PROVE [copies EXCEPT ![work[p].name][f] = Absent] \in [Names -> [Files -> Things]]
    BY <1>1 DEF TypeOK
  <2>2. CASE UNCHANGED copies BY <2>2 DEF TypeOK
  <2>3. CASE ~UNCHANGED copies
    <3>1. \E f \in Files : copies' = [copies EXCEPT ![work[p].name][f] = Absent]
      BY <2>3 DEF DropEntry
    <3> QED BY <2>1, <3>1
  <2> QED BY <2>2, <2>3
<1>4. manifests' \in [Names -> Manifests \cup {NoManifest}]
  <2>1. manifests' = manifests \/ manifests' = [manifests EXCEPT ![work[p].name] = NoManifest]
    BY DEF DropEntry
  <2> QED BY <2>1, <1>1 DEF TypeOK
<1>5. work' = work \/ work' = [work EXCEPT ![p] = Idle] BY DEF DropEntry
<1>6. work' \in [Procs -> Locals] BY <1>1, <1>5, IdleType
<1>7. UNCHANGED <<disk, begun, finished, dropped, ops>> BY DEF DropEntry
<1>8. \A q \in Procs : Taking(q)' => Taking(q) /\ work'[q].at = work[q].at BY <1>1, <1>5 DEF Taking
<1> QED BY <1>2, <1>3, <1>4, <1>6, <1>7, <1>8 DEF TypeOK

LEMMA TypeStep == ASSUME TypeInv, [Next]_vars PROVE TypeInv'
<1>1. CASE UNCHANGED vars BY <1>1 DEF vars, TypeInv, TypeOK, Taking
<1> QED BY <1>1, TakeTypeStep, UserTypeStep, RestoreTypeStep, DropTypeStep DEF Next, Step, FileStep

LEMMA TypeInit == Init => TypeInv
<1> SUFFICES ASSUME Init PROVE TypeInv OBVIOUS
<1>1. TypeOK
  <2>1. [p \in Procs |-> Idle] \in [Procs -> Locals] BY IdleType
  <2>2. [n \in Names |-> Nothing] \in [Names -> [Files -> Things]] BY IdleType
  <2>3. [f \in Files |-> 0] \in [Files -> Things] OBVIOUS
  <2> QED BY <2>1, <2>2, <2>3 DEF Init, TypeOK
<1>2. IsFiniteSet(begun) BY FS_EmptySet DEF Init
<1>3. \A p \in Procs : ~Taking(p) BY DEF Init, Taking, Idle
<1> QED BY <1>1, <1>2, <1>3 DEF TypeInv

\* All variables always are of their types.
THEOREM TypeCorrect == Spec => []TypeOK
<1>1. TypeInv => TypeOK BY DEF TypeInv
<1> QED BY <1>1, TypeInit, TypeStep, PTL DEF Spec

-----------------------------------------------------------------------------
(* Undo stays where it was asked to be.                                    *)

SameButOthers(l, m) ==
  /\ m.pc = l.pc /\ m.name = l.name /\ m.at = l.at /\ m.files = l.files /\ m.todo = l.todo
  /\ m.held = l.held /\ m.hash = l.hash /\ m.scope = l.scope /\ m.byId = l.byId

\* A step of a restore: of the other processes at most what they know changes.
LEMMA RestoreShape ==
  ASSUME TypeInv, NEW p \in Procs, NEW f \in Files, RestoreOpen(p, f) \/ RestoreWrite(p, f)
  PROVE  /\ work'[p].pc \in {"restore", "write"} /\ work[p].pc \in {"restore", "write"}
         /\ work'[p].name = work[p].name /\ work'[p].at = work[p].at
         /\ work'[p].files = work[p].files /\ work'[p].hash = work[p].hash
         /\ work'[p].scope = work[p].scope /\ work'[p].byId = work[p].byId
         /\ work'[p].todo \subseteq work[p].todo
         /\ \A q \in Procs \ {p} : SameButOthers(work[q], work'[q])
<1>1. work \in [Procs -> Locals] BY DEF TypeInv, TypeOK
<1>2. PICK w \in [Procs -> Locals] :
        /\ work' = w \/ work' = Noticed(w, Procs \ {p}, f)
        /\ w[p].pc \in {"restore", "write"} /\ w[p].todo \subseteq work[p].todo
        /\ w[p].name = work[p].name /\ w[p].at = work[p].at
        /\ w[p].files = work[p].files /\ w[p].hash = work[p].hash
        /\ w[p].scope = work[p].scope /\ w[p].byId = work[p].byId
        /\ \A q \in Procs \ {p} : w[q] = work[q]
  <2> DEFINE copy == copies[work[p].name][f]
             l1 == [work[p] EXCEPT !.todo = @ \ {f}]
             l2 == [work[p] EXCEPT !.pc = "write", !.held = copy]
             l3 == [work[p] EXCEPT !.pc = "restore", !.todo = @ \ {f}, !.held = Absent]
             Goes(l) == /\ l.pc \in {"restore", "write"} /\ l.todo \subseteq work[p].todo
                        /\ l.name = work[p].name /\ l.at = work[p].at
                        /\ l.files = work[p].files /\ l.hash = work[p].hash
                        /\ l.scope = work[p].scope /\ l.byId = work[p].byId
  <2>1. PICK l \in {l1, l2, l3} :
          LET w == [work EXCEPT ![p] = l] IN work' = w \/ work' = Noticed(w, Procs \ {p}, f)
    BY <1>1 DEF RestoreOpen, RestoreWrite
  <2>2. copy \in Things BY <1>1 DEF Locals, TypeInv, TypeOK
  <2> HIDE DEF copy
  <2>3. work[p] \in Locals /\ work[p].pc \in {"restore", "write"}
    BY <1>1 DEF RestoreOpen, RestoreWrite, At
  <2>4. l \in Locals /\ Goes(l)
    <3>1. CASE l = l1 BY <2>3, <3>1 DEF Locals
    <3>2. CASE l = l2 BY <2>2, <2>3, <3>2 DEF Locals
    <3>3. CASE l = l3 BY <2>3, <3>3 DEF Locals
    <3> QED BY <2>1, <3>1, <3>2, <3>3
  <2> HIDE DEF l1, l2, l3
  <2> DEFINE w == [work EXCEPT ![p] = l]
  <2>5. w \in [Procs -> Locals] /\ w[p] = l /\ \A q \in Procs \ {p} : w[q] = work[q]
    BY <1>1, <2>4
  <2>6. work' = w \/ work' = Noticed(w, Procs \ {p}, f) BY <2>1
  <2> HIDE DEF w
  <2> QED BY <2>4, <2>5, <2>6
<1> DEFINE v == Noticed(w, Procs \ {p}, f)
<1>3. \A q \in Procs : SameButOthers(w[q], v[q]) BY NoticedType DEF SameButOthers
<1>4. work' = w \/ work' = v BY <1>2
<1> HIDE DEF v
<1>5. \A q \in Procs : SameButOthers(w[q], work'[q]) BY <1>3, <1>4 DEF SameButOthers
<1>6. work[p].pc \in {"restore", "write"} BY DEF RestoreOpen, RestoreWrite, At
<1> QED BY <1>2, <1>5, <1>6 DEF SameButOthers

\* Undo always has files to hand to the restore, for which none would mean
\* all; without --id the restore only ever has files in scope before it.
InScope(l) ==
  /\ l.pc = "undo" => l.files # {} /\ (~l.byId => l.files \subseteq l.scope)
  /\ l.pc \in {"restore", "write"} => (~l.byId => l.todo \subseteq l.scope)

ScopeInv == \A p \in Procs : InScope(work[p])

\* One process goes on; of the others, at most what they know changes.
LEMMA ScopeKept ==
  ASSUME ScopeInv, NEW p \in Procs, InScope(work'[p]),
         \A q \in Procs \ {p} : /\ work'[q].pc = work[q].pc /\ work'[q].files = work[q].files
                                /\ work'[q].todo = work[q].todo /\ work'[q].scope = work[q].scope
                                /\ work'[q].byId = work[q].byId
  PROVE  ScopeInv'
BY DEF ScopeInv, InScope

\* The same, where nobody else is told.
LEMMA ScopeKeptAlone ==
  ASSUME TypeInv, ScopeInv, NEW p \in Procs, NEW l, InScope(l), work' = [work EXCEPT ![p] = l]
  PROVE  ScopeInv'
BY ScopeKept DEF TypeInv, TypeOK

LEMMA IdleInScope == InScope(Idle)
BY DEF InScope, Idle

LEMMA ScopeStep == ASSUME TypeInv, ScopeInv, Next PROVE ScopeInv'
<1>1. work \in [Procs -> Locals] BY DEF TypeInv, TypeOK
<1>2. ASSUME NEW f \in Files, Edit(f) \/ Delete(f) PROVE ScopeInv'
  <2> DEFINE v == Noticed(work, Procs, f)
  <2>1. work' = v BY <1>2 DEF Edit, Delete, Write
  <2>2. \A q \in Procs : /\ v[q].pc = work[q].pc /\ v[q].files = work[q].files
                         /\ v[q].todo = work[q].todo /\ v[q].scope = work[q].scope
                         /\ v[q].byId = work[q].byId
    BY <1>1, NoticedType
  <2> HIDE DEF v
  <2> QED BY <2>1, <2>2 DEF ScopeInv, InScope
<1>3. ASSUME NEW p \in Procs, TakeCmd(p) PROVE ScopeInv'
  <2>1. PICK ids \in Selections, second \in 0..MaxClock, label \in Labels : SnapTake(p, ids, second, label)
    BY <1>3 DEF TakeCmd
  <2> DEFINE records == IF ids = {} THEN Files ELSE ids
             l == [Idle EXCEPT !.pc = "take", !.name = SnapName(second, label),
                               !.at = Cardinality(begun) + 1, !.files = records, !.todo = records]
  <2>2. work' = [work EXCEPT ![p] = l] BY <2>1 DEF SnapTake
  <2>3. l.pc = "take" BY DEF Idle
  <2> HIDE DEF l
  <2>4. InScope(l) BY <2>3 DEF InScope
  <2> QED BY <2>2, <2>4, ScopeKeptAlone
<1>4. ASSUME NEW p \in Procs, NEW f \in Files, TakeOpen(p, f) \/ TakeCopy(p, f) PROVE ScopeInv'
  <2>1. PICK l : work' = [work EXCEPT ![p] = l] /\ l.pc \in {"take", "copy"}
    <3> DEFINE l1 == [work[p] EXCEPT !.todo = @ \ {f}]
               l2 == [work[p] EXCEPT !.pc = "copy", !.held = disk[f]]
    <3>1. CASE TakeOpen(p, f)
      <4>1. l1.pc = "take" /\ l2.pc = "copy" BY <1>1, <3>1 DEF TakeOpen, At, Locals
      <4>2. work' = [work EXCEPT ![p] = l1] \/ work' = [work EXCEPT ![p] = l2]
        BY <1>1, <3>1 DEF TakeOpen
      <4> HIDE DEF l1, l2
      <4> QED BY <4>1, <4>2
    <3>2. CASE TakeCopy(p, f)
      <4>1. PICK hash :
              work' = [work EXCEPT ![p] = [work[p] EXCEPT
                         !.pc = "take", !.todo = work[p].todo \ {f}, !.held = Absent, !.hash = hash]]
        BY <3>2 DEF TakeCopy
      <4> DEFINE l4 == [work[p] EXCEPT !.pc = "take", !.todo = work[p].todo \ {f}, !.held = Absent,
                                       !.hash = hash]
      <4>2. work' = [work EXCEPT ![p] = l4] BY <4>1
      <4>3. l4.pc = "take" BY <1>1 DEF Locals
      <4> HIDE DEF l4
      <4> QED BY <4>2, <4>3
    <3> QED BY <1>4, <3>1, <3>2
  <2> QED BY <2>1, ScopeKeptAlone DEF InScope
<1>5. ASSUME NEW p \in Procs, TakeManifest(p) \/ TakePublish(p) \/ RestoreEnds(p) \/ Fails(p) \/ DropEntry(p)
      PROVE  ScopeInv'
  <2>1. \/ work' = [work EXCEPT ![p] = Idle]
        \/ work' = [work EXCEPT ![p].pc = "publish"]
        \/ work' = work
    BY <1>5 DEF TakeManifest, TakePublish, RestoreEnds, Fails, DropEntry
  <2>2. CASE work' = [work EXCEPT ![p] = Idle] BY <2>2, IdleInScope, ScopeKeptAlone
  <2>3. CASE work' = [work EXCEPT ![p].pc = "publish"]
    <3>1. work' = [work EXCEPT ![p] = work'[p]] /\ work'[p].pc = "publish"
      BY <1>1, <2>3 DEF Locals
    <3> QED BY <3>1, ScopeKeptAlone DEF InScope
  <2>4. CASE work' = work BY <2>4 DEF ScopeInv
  <2> QED BY <2>1, <2>2, <2>3, <2>4
<1>6. ASSUME NEW p \in Procs, RestoreCmd(p) PROVE ScopeInv'
  <2>1. PICK n \in Names, ids \in Selections : SnapRestore(p, n, ids) BY <1>6 DEF RestoreCmd
  <2> DEFINE want == IF ids = {} THEN manifests[n].files ELSE manifests[n].files \cap ids
             l == [Idle EXCEPT !.pc = "restore", !.name = n, !.at = manifests[n].at, !.files = want,
                     !.todo = want, !.hash = manifests[n].hash, !.scope = Files]
  <2>2. work' = [work EXCEPT ![p] = l] BY <2>1 DEF SnapRestore
  <2>3. want \subseteq Files
    BY <2>1 DEF SnapRestore, SnapResolveID, SnapList, TypeInv, TypeOK, Manifests
  <2> HIDE DEF want
  <2>4. InScope(l) BY <2>3 DEF InScope, Idle
  <2> HIDE DEF l
  <2> QED BY <2>2, <2>4, ScopeKeptAlone
<1>7. ASSUME NEW p \in Procs, UndoCmd(p) PROVE ScopeInv'
  <2>1. PICK scope \in Scopes \cup {Files}, ids \in Selections : SnapUndo(p, scope, ids) BY <1>7 DEF UndoCmd
  <2>2. PICK n \in SnapList :
          /\ IsNewest(n, scope)
          /\ work' = [work EXCEPT ![p] = [Idle EXCEPT !.pc = "undo", !.name = n,
                     !.files = IF ids = {} THEN manifests[n].files \cap scope ELSE ids,
                     !.scope = scope, !.byId = ids # {}]]
    BY <2>1 DEF SnapUndo
  <2> DEFINE given == IF ids = {} THEN manifests[n].files \cap scope ELSE ids
             byId == ids # {}
             l == [Idle EXCEPT !.pc = "undo", !.name = n, !.files = given, !.scope = scope, !.byId = byId]
  <2>3. given # {} /\ (~byId => given \subseteq scope) BY <2>2 DEF IsNewest
  <2>4. work' = [work EXCEPT ![p] = l] BY <2>2
  <2> HIDE DEF given, byId
  <2>5. InScope(l) BY <2>3 DEF InScope, Idle
  <2> HIDE DEF l
  <2> QED BY <2>4, <2>5, ScopeKeptAlone
<1>8. ASSUME NEW p \in Procs, DropCmd(p) PROVE ScopeInv'
  <2>1. PICK n \in Names : SnapDrop(p, n) BY <1>8 DEF DropCmd
  <2> DEFINE l == [Idle EXCEPT !.pc = "drop", !.name = n]
  <2>2. work' = [work EXCEPT ![p] = l] BY <2>1 DEF SnapDrop
  <2>3. InScope(l) BY DEF InScope, Idle
  <2> HIDE DEF l
  <2> QED BY <2>2, <2>3, ScopeKeptAlone
<1>9. ASSUME NEW p \in Procs, UndoRestores(p) PROVE ScopeInv'
  <2> DEFINE n == work[p].name
             want == IF work[p].files = {} THEN manifests[n].files ELSE manifests[n].files \cap work[p].files
             l == [work[p] EXCEPT !.pc = "restore", !.at = manifests[n].at, !.files = want,
                     !.todo = want, !.hash = manifests[n].hash]
  <2>1. work' = [work EXCEPT ![p] = l] \/ work' = [work EXCEPT ![p] = Idle]
    BY <1>1, <1>9 DEF UndoRestores
  <2>2. ~work[p].byId => want \subseteq work[p].scope
    <3>1. work[p].files # {} /\ (~work[p].byId => work[p].files \subseteq work[p].scope)
      BY <1>9 DEF UndoRestores, At, ScopeInv, InScope
    <3> QED BY <3>1
  <2> HIDE DEF want
  <2>3. l.pc = "restore" /\ l.todo = want /\ l.scope = work[p].scope /\ l.byId = work[p].byId
    BY <1>1 DEF Locals
  <2> HIDE DEF l
  <2>4. InScope(l) BY <2>2, <2>3 DEF InScope
  <2> QED BY <2>1, <2>4, IdleInScope, ScopeKeptAlone
<1>10. ASSUME NEW p \in Procs, NEW f \in Files, RestoreOpen(p, f) \/ RestoreWrite(p, f) PROVE ScopeInv'
  <2>1. /\ work'[p].pc \in {"restore", "write"} /\ work'[p].todo \subseteq work[p].todo
        /\ work'[p].scope = work[p].scope /\ work'[p].byId = work[p].byId
        /\ \A q \in Procs \ {p} : SameButOthers(work[q], work'[q])
    BY <1>10, RestoreShape
  <2>2. ~work[p].byId => work[p].todo \subseteq work[p].scope
    BY <1>10 DEF ScopeInv, InScope, RestoreOpen, RestoreWrite, At
  <2>3. InScope(work'[p]) BY <2>1, <2>2 DEF InScope
  <2> QED BY <2>1, <2>3, ScopeKept DEF SameButOthers
<1> QED BY <1>2, <1>3, <1>4, <1>5, <1>6, <1>7, <1>8, <1>9, <1>10 DEF Next, Step, FileStep

\* snap undo without --id (SnapUndo, snap.go:407) writes no file outside the
\* directory it is run in, whatever takes, drops and restores happen between
\* its choice of a snapshot and its last write.
THEOREM UndoStays == Spec => UndoStaysInScope
<1>1. Init => ScopeInv BY IdleInScope DEF Init, ScopeInv
<1>2. ASSUME TypeInv, ScopeInv, [Next]_vars PROVE ScopeInv'
  <2>1. CASE UNCHANGED vars
    <3>1. work' = work BY <2>1 DEF vars
    <3> QED BY <1>2, <3>1 DEF ScopeInv, InScope
  <2>2. CASE Next BY <1>2, <2>2, ScopeStep
  <2> QED BY <1>2, <2>1, <2>2
<1>3. ScopeInv => \A p \in Procs, f \in Files :
                    RestoreOpen(p, f) /\ disk'[f] # disk[f] /\ ~work[p].byId => f \in work[p].scope
  BY DEF ScopeInv, InScope, RestoreOpen, At, IsFirst
<1> QED BY <1>1, <1>2, <1>3, TypeInit, TypeStep, PTL DEF Spec, UndoStaysInScope

-----------------------------------------------------------------------------
(* Takes, their numbers, processes and names.                              *)

\* The take a process works for.
OfTake(p, t) == t.at = work[p].at /\ work[p].name = SnapName(t.second, t.label)

\* Takes have numbers of their own; one that is under way has not returned and
\* has one process; only what somebody drops is removed; what nobody took is
\* not there, and a snap.json is of a take of its name.
TakesInv ==
  /\ \A t \in begun : t.at <= Cardinality(begun)
  /\ \A t, u \in begun : t.at = u.at => t = u
  /\ \A p \in Procs : Taking(p) => \E t \in begun \ finished : OfTake(p, t)
  /\ \A p, q \in Procs : Taking(p) /\ Taking(q) /\ work[p].at = work[q].at => p = q
  /\ \A p \in Procs : At(p, "drop") => work[p].name \in dropped
  /\ \A n \in Names : (\A t \in begun : SnapName(t.second, t.label) # n) =>
                        manifests[n] = NoManifest /\ copies[n] = Nothing
  /\ \A n \in Names : manifests[n] # NoManifest =>
       \E t \in begun : t.at = manifests[n].at /\ SnapName(t.second, t.label) = n

\* A step that leaves the snapshots alone, and those who take them.
Quiet ==
  /\ UNCHANGED <<dirs, copies, manifests, begun, finished>> /\ dropped \subseteq dropped'
  /\ \A q \in Procs :
       /\ Taking(q)' => SameButOthers(work[q], work'[q])
       /\ At(q, "drop")' => work'[q].name \in dropped' \/ SameButOthers(work[q], work'[q])

LEMMA QuietAlone ==
  ASSUME TypeInv, NEW p \in Procs, NEW l, work' = [work EXCEPT ![p] = l],
         UNCHANGED <<snaps, begun, finished>>, dropped \subseteq dropped',
         l.pc \in {"idle", "undo", "restore", "drop"}, l.pc = "drop" => l.name \in dropped'
  PROVE  Quiet
<1>1. work'[p] = l /\ \A q \in Procs \ {p} : work'[q] = work[q] BY DEF TypeInv, TypeOK
<1>2. ASSUME NEW q \in Procs PROVE /\ Taking(q)' => SameButOthers(work[q], work'[q])
                                   /\ At(q, "drop")' => work'[q].name \in dropped' \/ SameButOthers(work[q], work'[q])
  BY <1>1 DEF Taking, At, SameButOthers
<1> QED BY <1>2 DEF Quiet, snaps

LEMMA QuietStep ==
  ASSUME TypeInv,
         \/ \E f \in Files : Edit(f) \/ Delete(f)
         \/ \E p \in Procs : \/ RestoreCmd(p) \/ UndoCmd(p) \/ DropCmd(p) \/ UndoRestores(p)
                             \/ RestoreEnds(p) \/ Fails(p)
                             \/ \E f \in Files : RestoreOpen(p, f) \/ RestoreWrite(p, f)
  PROVE  Quiet
<1>1. work \in [Procs -> Locals] BY DEF TypeInv, TypeOK
<1>2. ASSUME NEW f \in Files, Edit(f) \/ Delete(f) PROVE Quiet
  <2> DEFINE v == Noticed(work, Procs, f)
  <2>1. work' = v /\ UNCHANGED <<snaps, begun, finished, dropped>> BY <1>2 DEF Edit, Delete, Write
  <2>2. \A q \in Procs : SameButOthers(work[q], v[q]) BY <1>1, NoticedType DEF SameButOthers
  <2> HIDE DEF v
  <2> QED BY <2>1, <2>2 DEF Quiet, snaps
<1>3. ASSUME NEW p \in Procs, RestoreCmd(p) PROVE Quiet
  <2>1. PICK n \in Names, ids \in Selections : SnapRestore(p, n, ids) BY <1>3 DEF RestoreCmd
  <2> DEFINE want == IF ids = {} THEN manifests[n].files ELSE manifests[n].files \cap ids
             l == [Idle EXCEPT !.pc = "restore", !.name = n, !.at = manifests[n].at, !.files = want,
                     !.todo = want, !.hash = manifests[n].hash, !.scope = Files]
  <2>2. work' = [work EXCEPT ![p] = l] /\ UNCHANGED <<snaps, begun, finished, dropped>>
    BY <2>1 DEF SnapRestore
  <2>3. l.pc = "restore" BY DEF Idle
  <2> HIDE DEF l
  <2> QED BY <2>2, <2>3, QuietAlone
<1>4. ASSUME NEW p \in Procs, UndoCmd(p) PROVE Quiet
  <2>1. PICK scope \in Scopes \cup {Files}, ids \in Selections : SnapUndo(p, scope, ids) BY <1>4 DEF UndoCmd
  <2>2. PICK n, given :
          work' = [work EXCEPT ![p] = [Idle EXCEPT !.pc = "undo", !.name = n, !.files = given,
                                                   !.scope = scope, !.byId = ids # {}]]
    BY <2>1 DEF SnapUndo
  <2> DEFINE l == [Idle EXCEPT !.pc = "undo", !.name = n, !.files = given, !.scope = scope, !.byId = ids # {}]
  <2>3. work' = [work EXCEPT ![p] = l] /\ UNCHANGED <<snaps, begun, finished, dropped>>
    BY <2>1, <2>2 DEF SnapUndo
  <2>4. l.pc = "undo" BY DEF Idle
  <2> HIDE DEF l
  <2> QED BY <2>3, <2>4, QuietAlone
<1>5. ASSUME NEW p \in Procs, DropCmd(p) PROVE Quiet
  <2>1. PICK n \in Names : SnapDrop(p, n) BY <1>5 DEF DropCmd
  <2> DEFINE l == [Idle EXCEPT !.pc = "drop", !.name = n]
  <2>2. work' = [work EXCEPT ![p] = l] /\ UNCHANGED <<snaps, begun, finished>> /\ dropped' = dropped \cup {n}
    BY <2>1 DEF SnapDrop
  <2>3. l.pc = "drop" /\ l.name = n BY DEF Idle
  <2> HIDE DEF l
  <2> QED BY <2>2, <2>3, QuietAlone
<1>6. ASSUME NEW p \in Procs, UndoRestores(p) PROVE Quiet
  <2> DEFINE n == work[p].name
             want == IF work[p].files = {} THEN manifests[n].files ELSE manifests[n].files \cap work[p].files
             l == [work[p] EXCEPT !.pc = "restore", !.at = manifests[n].at, !.files = want,
                     !.todo = want, !.hash = manifests[n].hash]
  <2>1. work' = [work EXCEPT ![p] = l] \/ work' = [work EXCEPT ![p] = Idle]
    BY <1>1, <1>6 DEF UndoRestores
  <2>2. UNCHANGED <<snaps, begun, finished, dropped>> BY <1>6 DEF UndoRestores
  <2>3. l.pc = "restore" /\ Idle.pc = "idle" BY <1>1 DEF Locals, Idle
  <2> HIDE DEF l
  <2> QED BY <2>1, <2>2, <2>3, QuietAlone
<1>7. ASSUME NEW p \in Procs, RestoreEnds(p) \/ Fails(p) PROVE Quiet
  <2>1. work' = [work EXCEPT ![p] = Idle] /\ UNCHANGED <<snaps, begun, finished, dropped>>
    BY <1>7 DEF RestoreEnds, Fails
  <2>2. Idle.pc = "idle" BY DEF Idle
  <2> QED BY <2>1, <2>2, QuietAlone
<1>8. ASSUME NEW p \in Procs, NEW f \in Files, RestoreOpen(p, f) \/ RestoreWrite(p, f) PROVE Quiet
  <2>1. UNCHANGED <<snaps, begun, finished, dropped>> BY <1>8 DEF RestoreOpen, RestoreWrite
  <2>2. work'[p].pc \in {"restore", "write"} /\ \A q \in Procs \ {p} : SameButOthers(work[q], work'[q])
    BY <1>8, RestoreShape
  <2> QED BY <2>1, <2>2 DEF Quiet, Taking, At, snaps
<1> QED BY <1>2, <1>3, <1>4, <1>5, <1>6, <1>7, <1>8

\* A step at a file of a take: only its own directory changes.
LEMMA CopyShape ==
  ASSUME TypeInv, NEW p \in Procs, NEW f \in Files, TakeOpen(p, f) \/ TakeCopy(p, f)
  PROVE  /\ UNCHANGED <<disk, manifests, begun, finished, dropped>>
         /\ Taking(p) /\ Taking(p)' /\ work'[p].at = work[p].at /\ work'[p].name = work[p].name
         /\ \A q \in Procs \ {p} : work'[q] = work[q]
         /\ \A n \in Names \ {work[p].name} : copies'[n] = copies[n]
         /\ dirs \subseteq dirs'
<1>1. work \in [Procs -> Locals] /\ copies \in [Names -> [Files -> Things]] BY DEF TypeInv, TypeOK
<1>2. CASE TakeOpen(p, f)
  <2> DEFINE l1 == [work[p] EXCEPT !.todo = @ \ {f}]
             l2 == [work[p] EXCEPT !.pc = "copy", !.held = disk[f]]
  <2>1. PICK l \in {l1, l2} : work' = [work EXCEPT ![p] = l] BY <1>1, <1>2 DEF TakeOpen
  <2>2. l.pc \in {"take", "copy"} /\ l.at = work[p].at /\ l.name = work[p].name
    BY <1>1, <1>2, <2>1 DEF TakeOpen, At, Locals
  <2> HIDE DEF l1, l2
  <2>3. work'[p] = l /\ \A q \in Procs \ {p} : work'[q] = work[q] BY <1>1, <2>1
  <2>4. \A n \in Names \ {work[p].name} : copies'[n] = copies[n]
    <3>1. CASE UNCHANGED copies BY <3>1
    <3>2. CASE copies' = [copies EXCEPT ![work[p].name][f] = Torn] BY <1>1, <3>2
    <3> QED BY <1>2, <3>1, <3>2 DEF TakeOpen
  <2> QED BY <1>2, <2>2, <2>3, <2>4 DEF TakeOpen, Taking, At
<1>3. CASE TakeCopy(p, f)
  <2>1. PICK hash : work' = [work EXCEPT ![p] = [work[p] EXCEPT
                      !.pc = "take", !.todo = work[p].todo \ {f}, !.held = Absent, !.hash = hash]]
    BY <1>3 DEF TakeCopy
  <2>2. /\ work'[p].pc = "take" /\ work'[p].at = work[p].at /\ work'[p].name = work[p].name
        /\ \A q \in Procs \ {p} : work'[q] = work[q]
    BY <1>1, <2>1 DEF Locals
  <2>3. \A n \in Names \ {work[p].name} : copies'[n] = copies[n]
    <3>1. PICK c : copies' = [copies EXCEPT ![work[p].name][f] = c] \/ copies' = copies
      BY <1>3 DEF TakeCopy
    <3> QED BY <1>1, <3>1
  <2> QED BY <1>3, <2>2, <2>3 DEF TakeCopy, Taking, At
<1> QED BY <1>2, <1>3

\* A step at its snap.json: only its own changes, and it is of this take.
LEMMA ManifestShape ==
  ASSUME TypeInv, NEW p \in Procs, TakeManifest(p) \/ TakePublish(p)
  PROVE  LET n == work[p].name IN
         /\ UNCHANGED <<disk, dirs, copies, begun, dropped>>
         /\ Taking(p) /\ n \in Names
         /\ manifests' = [manifests EXCEPT ![n] = manifests'[n]]
         /\ manifests'[n] \in {manifests[n], NoManifest} \/ manifests'[n].at = work[p].at
         /\ \A q \in Procs \ {p} : work'[q] = work[q]
         /\ \/ Taking(p)' /\ work'[p].at = work[p].at /\ work'[p].name = n /\ UNCHANGED finished
            \/ /\ work'[p] = Idle
               /\ finished' \in {finished, finished \cup {t \in begun : t.at = work[p].at}}
<1>1. work \in [Procs -> Locals] /\ manifests \in [Names -> Manifests \cup {NoManifest}]
  BY DEF TypeInv, TypeOK
<1>2. work[p].name \in Names BY <1>1 DEF Locals
<1>3. CASE TakeManifest(p)
  <2>1. \/ work' = [work EXCEPT ![p].pc = "publish"]
        \/ work' = [work EXCEPT ![p] = Idle]
    BY <1>3 DEF TakeManifest
  <2>2. manifests' = [manifests EXCEPT ![work[p].name] = NoManifest] \/ UNCHANGED manifests
    BY <1>3 DEF TakeManifest
  <2>3. /\ manifests' = [manifests EXCEPT ![work[p].name] = manifests'[work[p].name]]
        /\ manifests'[work[p].name] \in {manifests[work[p].name], NoManifest}
    BY <1>1, <1>2, <2>2
  <2>4. /\ \A q \in Procs \ {p} : work'[q] = work[q]
        /\ \/ work'[p].pc = "publish" /\ work'[p].at = work[p].at /\ work'[p].name = work[p].name
           \/ work'[p] = Idle
    BY <1>1, <2>1 DEF Locals
  <2> QED BY <1>2, <1>3, <2>3, <2>4 DEF TakeManifest, Taking, At
<1>4. CASE TakePublish(p)
  <2> DEFINE m == [at |-> work[p].at, files |-> work[p].files, hash |-> work[p].hash]
  <2>1. m.at = work[p].at OBVIOUS
  <2>2. manifests' = [manifests EXCEPT ![work[p].name] = m] \/ UNCHANGED manifests
    BY <1>4 DEF TakePublish
  <2> HIDE DEF m
  <2>3. /\ manifests' = [manifests EXCEPT ![work[p].name] = manifests'[work[p].name]]
        /\ manifests'[work[p].name] \in {manifests[work[p].name], m}
    BY <1>1, <1>2, <2>2
  <2>4. work'[p] = Idle /\ \A q \in Procs \ {p} : work'[q] = work[q] BY <1>1, <1>4 DEF TakePublish
  <2> QED BY <1>2, <1>4, <2>1, <2>3, <2>4 DEF TakePublish, Taking, At
<1> QED BY <1>3, <1>4

\* A take begins: it has a number of its own, and its process.
LEMMA BeginShape ==
  ASSUME TypeInv, NEW p \in Procs, TakeCmd(p)
  PROVE  \E t \in Takes :
           LET n == SnapName(t.second, t.label) IN
           /\ t.at = Cardinality(begun) + 1 /\ begun' = begun \cup {t} /\ n \in Names
           /\ work'[p].pc = "take" /\ work'[p].at = t.at /\ work'[p].name = n /\ work'[p].hash = Nothing
           /\ \A q \in Procs \ {p} : work'[q] = work[q]
           /\ dirs' = dirs \cup {n} /\ UNCHANGED <<disk, copies, manifests, finished, dropped>>
<1>1. PICK ids \in Selections, second \in 0..MaxClock, label \in Labels : SnapTake(p, ids, second, label)
  BY DEF TakeCmd
<1> DEFINE n == SnapName(second, label)
           t == [at |-> Cardinality(begun) + 1, second |-> second, label |-> label]
           records == IF ids = {} THEN Files ELSE ids
           l == [Idle EXCEPT !.pc = "take", !.name = n, !.at = t.at, !.files = records, !.todo = records]
<1>2. t.at \in 1..MaxTakes BY <1>1, NextTake DEF SnapTake
<1>3. t \in Takes BY <1>2 DEF Takes
<1>4. n \in Names BY NameTypes
<1>5. work' = [work EXCEPT ![p] = l] BY <1>1 DEF SnapTake
<1>6. l.pc = "take" /\ l.at = t.at /\ l.name = n /\ l.hash = Nothing BY IdleType DEF Idle
<1>7. begun' = begun \cup {t} /\ dirs' = dirs \cup {n}
      /\ UNCHANGED <<disk, copies, manifests, finished, dropped>>
  BY <1>1 DEF SnapTake
<1>8. n = SnapName(t.second, t.label) /\ t.at = Cardinality(begun) + 1 OBVIOUS
<1> HIDE DEF l, n, t
<1>9. work'[p] = l /\ \A q \in Procs \ {p} : work'[q] = work[q] BY <1>5 DEF TypeInv, TypeOK
<1> QED BY <1>3, <1>4, <1>6, <1>7, <1>8, <1>9

\* A drop takes away, from the directory it is of, and nothing else.
LEMMA DropShape ==
  ASSUME TypeInv, NEW p \in Procs, DropEntry(p)
  PROVE  LET d == work[p].name IN
         /\ UNCHANGED <<disk, begun, finished, dropped>> /\ d \in Names /\ At(p, "drop")
         /\ work'[p] \in {work[p], Idle} /\ \A q \in Procs \ {p} : work'[q] = work[q]
         /\ \A n \in Names \ {d} :
              manifests'[n] = manifests[n] /\ copies'[n] = copies[n] /\ (n \in dirs' <=> n \in dirs)
         /\ manifests'[d] \in {manifests[d], NoManifest}
         /\ manifests[d] = NoManifest /\ copies[d] = Nothing =>
              manifests'[d] = NoManifest /\ copies'[d] = Nothing
<1> DEFINE d == work[p].name
<1>1. work \in [Procs -> Locals] /\ manifests \in [Names -> Manifests \cup {NoManifest}]
      /\ copies \in [Names -> [Files -> Things]]
  BY DEF TypeInv, TypeOK
<1>2. d \in Names /\ At(p, "drop") BY <1>1 DEF Locals, DropEntry
<1>3. work' = work \/ work' = [work EXCEPT ![p] = Idle] BY DEF DropEntry
<1>4. work'[p] \in {work[p], Idle} /\ \A q \in Procs \ {p} : work'[q] = work[q] BY <1>1, <1>3
<1>5. CASE /\ manifests' = [manifests EXCEPT ![d] = NoManifest]
           /\ manifests[d] # NoManifest /\ UNCHANGED <<dirs, copies, work>>
  BY <1>1, <1>2, <1>5, <1>4 DEF DropEntry
<1>6. ASSUME NEW f \in Files, copies[d][f] # Absent, copies' = [copies EXCEPT ![d][f] = Absent],
             UNCHANGED <<dirs, manifests, work>>
      PROVE  /\ \A n \in Names \ {d} : copies'[n] = copies[n]
             /\ copies[d] # Nothing
  BY <1>1, <1>2, <1>6 DEF Nothing
<1>7. CASE /\ manifests[d] = NoManifest /\ copies[d] = Nothing
           /\ dirs' = dirs \ {d} /\ UNCHANGED <<copies, manifests>>
  BY <1>1, <1>2, <1>7, <1>4 DEF DropEntry
<1>8. CASE \E f \in Files : /\ copies[d][f] # Absent /\ copies' = [copies EXCEPT ![d][f] = Absent]
                            /\ UNCHANGED <<dirs, manifests, work>>
  BY <1>2, <1>4, <1>6, <1>8 DEF DropEntry
<1>9. UNCHANGED <<disk, begun, finished, dropped>> BY DEF DropEntry
<1> QED BY <1>5, <1>7, <1>8 DEF DropEntry

LEMMA TakesStep == ASSUME TypeInv, TakesInv, Next PROVE TakesInv'
<1> USE DEF TakesInv, OfTake
<1>1. work \in [Procs -> Locals] /\ begun \subseteq Takes /\ finished \subseteq begun
      /\ manifests \in [Names -> Manifests \cup {NoManifest}]
  BY DEF TypeInv, TypeOK
<1>2. \A p \in Procs : work[p].name \in Names BY <1>1 DEF Locals
<1>3. CASE Quiet
  <2>1. \A p \in Procs : Taking(p)' => Taking(p) /\ work'[p].at = work[p].at /\ work'[p].name = work[p].name
    BY <1>3 DEF Quiet, SameButOthers, Taking
  <2>2. \A p \in Procs : Taking(p)' => \E t \in begun \ finished :
                           t.at = work'[p].at /\ work'[p].name = SnapName(t.second, t.label)
    BY <2>1
  <2>3. \A p, q \in Procs : Taking(p)' /\ Taking(q)' /\ work'[p].at = work'[q].at => p = q
    BY <2>1
  <2>4. \A p \in Procs : At(p, "drop")' => work'[p].name \in dropped'
    BY <1>3 DEF Quiet, SameButOthers, At
  <2>5. UNCHANGED <<copies, manifests, begun, finished>> BY <1>3 DEF Quiet
  <2> QED BY <2>2, <2>3, <2>4, <2>5
<1>4. ASSUME NEW p \in Procs, NEW f \in Files, TakeOpen(p, f) \/ TakeCopy(p, f) PROVE TakesInv'
  <2>1. /\ UNCHANGED <<manifests, begun, finished, dropped>>
        /\ Taking(p) /\ Taking(p)' /\ work'[p].at = work[p].at /\ work'[p].name = work[p].name
        /\ \A q \in Procs \ {p} : work'[q] = work[q]
        /\ \A n \in Names \ {work[p].name} : copies'[n] = copies[n]
    BY <1>4, CopyShape
  <2>2. \A q \in Procs : Taking(q)' => \E t \in begun \ finished :
                           t.at = work'[q].at /\ work'[q].name = SnapName(t.second, t.label)
    BY <2>1 DEF Taking
  <2>3. \A q, r \in Procs : Taking(q)' /\ Taking(r)' /\ work'[q].at = work'[r].at => q = r
    BY <2>1 DEF Taking
  <2>4. \A q \in Procs : At(q, "drop")' => work'[q].name \in dropped'
    BY <2>1 DEF Taking, At
  <2>5. \A n \in Names : (\A t \in begun : SnapName(t.second, t.label) # n) =>
                           manifests[n] = NoManifest /\ copies'[n] = Nothing
    BY <2>1
  <2> QED BY <2>1, <2>2, <2>3, <2>4, <2>5
<1>5. ASSUME NEW p \in Procs, TakeManifest(p) \/ TakePublish(p) PROVE TakesInv'
  <2> DEFINE n == work[p].name
  <2>1. /\ UNCHANGED <<copies, begun, dropped>> /\ Taking(p) /\ n \in Names
        /\ manifests' = [manifests EXCEPT ![n] = manifests'[n]]
        /\ manifests'[n] \in {manifests[n], NoManifest} \/ manifests'[n].at = work[p].at
        /\ \A q \in Procs \ {p} : work'[q] = work[q]
        /\ \/ Taking(p)' /\ work'[p].at = work[p].at /\ work'[p].name = n /\ UNCHANGED finished
           \/ /\ work'[p] = Idle
              /\ finished' \in {finished, finished \cup {t \in begun : t.at = work[p].at}}
    BY <1>5, ManifestShape
  <2>2. \A m \in Names \ {n} : manifests'[m] = manifests[m] BY <1>1, <2>1
  <2>3. \A q \in Procs : Taking(q)' => Taking(q) /\ work'[q].at = work[q].at /\ work'[q].name = work[q].name
    BY <2>1 DEF Taking, Idle
  <2>4. PICK u \in begun \ finished : u.at = work[p].at /\ n = SnapName(u.second, u.label)
    BY <2>1
  <2>5. \A q \in Procs : Taking(q)' => \E t \in begun \ finished' :
                           t.at = work'[q].at /\ work'[q].name = SnapName(t.second, t.label)
    <3> TAKE q \in Procs
    <3> HAVE Taking(q)'
    <3>1. PICK t \in begun \ finished : t.at = work[q].at /\ work[q].name = SnapName(t.second, t.label)
      BY <2>3
    <3>2. t \notin finished'
      <4>1. CASE UNCHANGED finished BY <4>1
      <4>2. CASE work'[p] = Idle
        <5>1. q # p BY <4>2 DEF Taking, Idle
        <5>2. t.at # work[p].at BY <2>1, <2>3, <3>1, <5>1
        <5> QED BY <2>1, <3>1, <5>2
      <4> QED BY <2>1, <4>1, <4>2
    <3> QED BY <2>3, <3>1, <3>2
  <2>6. \A q, r \in Procs : Taking(q)' /\ Taking(r)' /\ work'[q].at = work'[r].at => q = r
    BY <2>3
  <2>7. \A q \in Procs : At(q, "drop")' => work'[q].name \in dropped'
    BY <2>1 DEF Taking, At, Idle
  <2>8. \A m \in Names : (\A t \in begun : SnapName(t.second, t.label) # m) =>
                           manifests'[m] = NoManifest /\ copies'[m] = Nothing
    BY <2>1, <2>2, <2>4
  <2>9. \A m \in Names : manifests'[m] # NoManifest =>
          \E t \in begun : t.at = manifests'[m].at /\ SnapName(t.second, t.label) = m
    BY <2>1, <2>2, <2>4
  <2> QED BY <2>1, <2>5, <2>6, <2>7, <2>8, <2>9
<1>6. ASSUME NEW p \in Procs, TakeCmd(p) PROVE TakesInv'
  <2>1. PICK u \in Takes :
          LET n == SnapName(u.second, u.label) IN
          /\ u.at = Cardinality(begun) + 1 /\ begun' = begun \cup {u} /\ n \in Names
          /\ work'[p].pc = "take" /\ work'[p].at = u.at /\ work'[p].name = n /\ work'[p].hash = Nothing
          /\ \A q \in Procs \ {p} : work'[q] = work[q]
          /\ dirs' = dirs \cup {n} /\ UNCHANGED <<disk, copies, manifests, finished, dropped>>
    BY <1>6, BeginShape
  <2>2. Cardinality(begun) \in Nat /\ IsFiniteSet(begun) BY FS_CardinalityType DEF TypeInv
  <2>3. \A t \in begun : t.at \in Nat /\ t.at < u.at BY <1>1, <2>1, <2>2 DEF Takes
  <2>4. u \notin begun BY <2>3
  <2>5. Cardinality(begun') = Cardinality(begun) + 1 BY <2>1, <2>2, <2>4, FS_AddElement
  <2>6. \A t \in begun' : t.at <= Cardinality(begun') BY <2>1, <2>2, <2>3, <2>5
  <2>7. \A t, v \in begun' : t.at = v.at => t = v BY <2>1, <2>3
  <2>8. \A q \in Procs : Taking(q)' => \E t \in begun' \ finished' :
                           t.at = work'[q].at /\ work'[q].name = SnapName(t.second, t.label)
    <3>1. u \in begun' \ finished' BY <1>1, <2>1, <2>4
    <3>2. \A q \in Procs \ {p} : Taking(q)' => Taking(q) BY <2>1 DEF Taking
    <3> QED BY <2>1, <3>1, <3>2
  <2>9. \A q, r \in Procs : Taking(q)' /\ Taking(r)' /\ work'[q].at = work'[r].at => q = r
    <3>1. \A q \in Procs \ {p} : Taking(q)' => Taking(q) /\ work'[q].at < u.at
      BY <2>1, <2>3 DEF Taking
    <3>2. u.at \in Nat /\ work'[p].at = u.at BY <2>1, <2>2
    <3> QED BY <2>1, <3>1, <3>2
  <2>10. \A q \in Procs : At(q, "drop")' => work'[q].name \in dropped'
    BY <2>1 DEF At
  <2>11. \A m \in Names : (\A t \in begun' : SnapName(t.second, t.label) # m) =>
                            manifests'[m] = NoManifest /\ copies'[m] = Nothing
    BY <2>1
  <2>12. \A m \in Names : manifests'[m] # NoManifest =>
           \E t \in begun' : t.at = manifests'[m].at /\ SnapName(t.second, t.label) = m
    BY <2>1
  <2> QED BY <2>6, <2>7, <2>8, <2>9, <2>10, <2>11, <2>12
<1>7. ASSUME NEW p \in Procs, DropEntry(p) PROVE TakesInv'
  <2> DEFINE d == work[p].name
  <2>1. /\ UNCHANGED <<disk, begun, finished, dropped>> /\ d \in Names /\ At(p, "drop")
        /\ work'[p] \in {work[p], Idle} /\ \A q \in Procs \ {p} : work'[q] = work[q]
        /\ \A n \in Names \ {d} : manifests'[n] = manifests[n] /\ copies'[n] = copies[n]
        /\ manifests'[d] \in {manifests[d], NoManifest}
        /\ manifests[d] = NoManifest /\ copies[d] = Nothing =>
             manifests'[d] = NoManifest /\ copies'[d] = Nothing
    BY <1>7, DropShape
  <2>2. \A q \in Procs : Taking(q)' => q # p /\ Taking(q) /\ work'[q] = work[q]
    BY <2>1 DEF Taking, At, Idle
  <2>3. \A q \in Procs : Taking(q)' => \E t \in begun \ finished :
                           t.at = work'[q].at /\ work'[q].name = SnapName(t.second, t.label)
    BY <2>2
  <2>4. \A q, r \in Procs : Taking(q)' /\ Taking(r)' /\ work'[q].at = work'[r].at => q = r
    BY <2>2
  <2>5. \A q \in Procs : At(q, "drop")' => work'[q].name \in dropped'
    BY <2>1 DEF At, Idle
  <2>6. \A m \in Names : (\A t \in begun : SnapName(t.second, t.label) # m) =>
                           manifests'[m] = NoManifest /\ copies'[m] = Nothing
    BY <2>1
  <2>7. \A m \in Names : manifests'[m] # NoManifest =>
          \E t \in begun : t.at = manifests'[m].at /\ SnapName(t.second, t.label) = m
    BY <2>1
  <2> QED BY <2>1, <2>3, <2>4, <2>5, <2>6, <2>7
<1>8. \/ Quiet
      \/ \E p \in Procs : \/ TakeCmd(p) \/ TakeManifest(p) \/ TakePublish(p) \/ DropEntry(p)
                          \/ \E f \in Files : TakeOpen(p, f) \/ TakeCopy(p, f)
  BY QuietStep DEF Next, Step, FileStep
<1> QED BY <1>3, <1>4, <1>5, <1>6, <1>7, <1>8

-----------------------------------------------------------------------------
(* A take that returned is whole.                                          *)

\* Nobody shares or has dropped the directory of t.
Clean(t) == ~SharedName(t) /\ SnapName(t.second, t.label) \notin dropped

\* The directory of n holds what p has copied, and the file it is at.
Copied(p, n) ==
  /\ n \in dirs
  /\ work[p].pc \in {"take", "publish"} => copies[n] = work[p].hash
  /\ work[p].pc = "copy" =>
       \A f \in Files : IsFirst(f, work[p].todo) => copies[n] = [work[p].hash EXCEPT ![f] = Torn]

\* Of such a take the directory holds all that was copied; its snap.json is
\* there once it has returned.
Whole(t) ==
  LET n == SnapName(t.second, t.label) IN
  IF t \in finished
  THEN /\ n \in dirs /\ manifests[n] # NoManifest
       /\ manifests[n].at = t.at /\ copies[n] = manifests[n].hash
  ELSE /\ manifests[n] = NoManifest
       /\ \A p \in Procs : Taking(p) /\ work[p].at = t.at => Copied(p, n)

WholeInv == \A t \in begun : Clean(t) => Whole(t)

LEMMA CleanBefore ==
  ASSUME NEW t, Clean(t)', begun \subseteq begun', dropped \subseteq dropped'
  PROVE  Clean(t)
BY DEF Clean, SharedName

\* The directory of a clean take is no other's.
LEMMA CleanAlone ==
  ASSUME NEW t, NEW u \in begun, Clean(t), u # t
  PROVE  SnapName(u.second, u.label) # SnapName(t.second, t.label)
BY NameTypes DEF Clean, SharedName

\* A take copies into its directory what it records.
LEMMA CopyCopies ==
  ASSUME TypeInv, NEW p \in Procs, NEW f \in Files, TakeOpen(p, f) \/ TakeCopy(p, f),
         NEW n, n = work[p].name, Copied(p, n)
  PROVE  Copied(p, n)'
<1>1. work \in [Procs -> Locals] /\ copies \in [Names -> [Files -> Things]] BY DEF TypeInv, TypeOK
<1>2. n \in Names /\ work[p].hash \in [Files -> Things] /\ work[p].todo \subseteq Files BY <1>1 DEF Locals
<1>3. \A g \in Files : IsFirst(f, work[p].todo) /\ IsFirst(g, work[p].todo) => g = f
  BY DEF IsFirst
<1>4. CASE TakeOpen(p, f)
  <2>1. work[p].pc = "take" /\ IsFirst(f, work[p].todo) BY <1>4 DEF TakeOpen, At
  <2>2. n \in dirs /\ copies[n] = work[p].hash BY <2>1 DEF Copied
  <2>3. CASE work' = [work EXCEPT ![p].todo = @ \ {f}] /\ UNCHANGED <<dirs, copies>>
    <3>1. work'[p].pc = "take" /\ work'[p].hash = work[p].hash BY <1>1, <2>1, <2>3 DEF Locals
    <3> QED BY <2>2, <2>3, <3>1 DEF Copied
  <2>4. CASE /\ work' = [work EXCEPT ![p].pc = "copy", ![p].held = disk[f]]
             /\ dirs' = dirs \cup {n} /\ copies' = [copies EXCEPT ![n][f] = Torn]
    <3>1. work'[p].pc = "copy" /\ work'[p].hash = work[p].hash /\ work'[p].todo = work[p].todo
      BY <1>1, <2>4 DEF Locals
    <3>2. copies'[n] = [work[p].hash EXCEPT ![f] = Torn] BY <1>1, <1>2, <2>2, <2>4
    <3>3. n \in dirs' BY <2>4
    <3>4. \A g \in Files : IsFirst(g, work'[p].todo) => copies'[n] = [work'[p].hash EXCEPT ![g] = Torn]
      BY <1>3, <2>1, <3>1, <3>2
    <3> QED BY <3>1, <3>3, <3>4 DEF Copied
  <2> QED BY <1>4, <2>3, <2>4 DEF TakeOpen
<1>5. CASE TakeCopy(p, f)
  <2>1. work[p].pc = "copy" /\ IsFirst(f, work[p].todo) BY <1>5 DEF TakeCopy, At
  <2>2. n \in dirs /\ copies[n] = [work[p].hash EXCEPT ![f] = Torn] BY <2>1 DEF Copied
  <2>3. copies[n][f] # Absent BY <1>2, <2>2
  <2>4. PICK c :
          LET hash == [work[p].hash EXCEPT ![f] = c] IN
          /\ copies' = [copies EXCEPT ![n][f] = c]
          /\ work' = [work EXCEPT ![p] = [work[p] EXCEPT
                         !.pc = "take", !.todo = work[p].todo \ {f}, !.held = Absent, !.hash = hash]]
    BY <1>5, <2>3 DEF TakeCopy
  <2> DEFINE hash == [work[p].hash EXCEPT ![f] = c]
  <2>5. copies'[n] = hash BY <1>1, <1>2, <2>2, <2>4
  <2>6. work' = [work EXCEPT ![p] = [work[p] EXCEPT
                   !.pc = "take", !.todo = work[p].todo \ {f}, !.held = Absent, !.hash = hash]]
    BY <2>4
  <2> HIDE DEF hash
  <2>7. work'[p].pc = "take" /\ work'[p].hash = hash BY <1>1, <2>6 DEF Locals
  <2>8. UNCHANGED dirs BY <1>5 DEF TakeCopy
  <2> QED BY <2>2, <2>5, <2>7, <2>8 DEF Copied
<1> QED BY <1>4, <1>5

\* What a step need leave alone for a take to stay whole.
LEMMA WholeFrame ==
  ASSUME NEW t, Whole(t), t \in finished' <=> t \in finished,
         NEW n, n = SnapName(t.second, t.label),
         n \in dirs => n \in dirs', manifests'[n] = manifests[n], copies'[n] = copies[n],
         \A q \in Procs : Taking(q)' /\ work'[q].at = t.at =>
            Taking(q) /\ work[q].at = t.at /\ SameButOthers(work[q], work'[q])
  PROVE  Whole(t)'
<1>1. ASSUME NEW q \in Procs, Taking(q)', work'[q].at = t.at, Copied(q, n) PROVE Copied(q, n)'
  BY <1>1 DEF Copied, SameButOthers
<1> QED BY <1>1 DEF Whole

LEMMA SameIsSame == \A l : SameButOthers(l, l)
BY DEF SameButOthers

LEMMA WholeStep == ASSUME TypeInv, TakesInv, WholeInv, Next PROVE WholeInv'
<1>1. work \in [Procs -> Locals] /\ begun \subseteq Takes /\ finished \subseteq begun
      /\ manifests \in [Names -> Manifests \cup {NoManifest}]
  BY DEF TypeInv, TypeOK
<1>2. CASE Quiet
  <2> SUFFICES ASSUME NEW t \in begun, Clean(t)' PROVE Whole(t)' BY <1>2 DEF WholeInv, Quiet
  <2>1. Whole(t) BY <1>2, CleanBefore DEF WholeInv, Quiet
  <2>2. \A q \in Procs : Taking(q)' => Taking(q) /\ work[q].at = work'[q].at /\ SameButOthers(work[q], work'[q])
    BY <1>2 DEF Quiet, SameButOthers, Taking
  <2>3. UNCHANGED <<dirs, copies, manifests, finished>> BY <1>2 DEF Quiet
  <2> QED BY <2>1, <2>2, <2>3, WholeFrame
<1>3. ASSUME NEW p \in Procs, NEW f \in Files, TakeOpen(p, f) \/ TakeCopy(p, f) PROVE WholeInv'
  <2>0. PICK n \in Names : n = work[p].name BY <1>1 DEF Locals
  <2>1. /\ UNCHANGED <<manifests, begun, finished, dropped>>
        /\ Taking(p) /\ Taking(p)' /\ work'[p].at = work[p].at /\ work'[p].name = work[p].name
        /\ \A q \in Procs \ {p} : work'[q] = work[q]
        /\ \A m \in Names \ {n} : copies'[m] = copies[m]
        /\ dirs \subseteq dirs'
    BY <1>3, <2>0, CopyShape
  <2>2. PICK u \in begun \ finished : u.at = work[p].at /\ n = SnapName(u.second, u.label)
    BY <2>0, <2>1 DEF TakesInv, OfTake
  <2> SUFFICES ASSUME NEW t \in begun, Clean(t)' PROVE Whole(t)' BY <2>1 DEF WholeInv
  <2>3. Clean(t) /\ Whole(t) BY <2>1, CleanBefore DEF WholeInv
  <2>4. CASE t = u
    <3>1. manifests[n] = NoManifest /\ \A q \in Procs : Taking(q) /\ work[q].at = u.at => Copied(q, n)
      BY <2>2, <2>3, <2>4 DEF Whole
    <3>2. Copied(p, n) BY <2>1, <2>2, <3>1
    <3>3. Copied(p, n)' BY <1>3, <2>0, <3>2, CopyCopies
    <3>4. \A q \in Procs : Taking(q)' /\ work'[q].at = u.at => q = p
      BY <2>1, <2>2 DEF TakesInv, Taking
    <3> QED BY <2>1, <2>2, <2>4, <3>1, <3>3, <3>4 DEF Whole
  <2>5. CASE t # u
    <3>1. SnapName(t.second, t.label) # n BY <2>2, <2>3, <2>5, CleanAlone
    <3>2. t.at # u.at BY <2>2, <2>5 DEF TakesInv
    <3>3. SnapName(t.second, t.label) \in Names BY <1>1, NameTypes DEF Takes
    <3>4. \A q \in Procs : Taking(q)' /\ work'[q].at = t.at =>
            Taking(q) /\ work[q].at = t.at /\ SameButOthers(work[q], work'[q])
      BY <2>1, <2>2, <3>2, SameIsSame DEF Taking
    <3> QED BY <2>1, <2>3, <3>1, <3>3, <3>4, WholeFrame
  <2> QED BY <2>4, <2>5
<1>4. ASSUME NEW p \in Procs, TakeManifest(p) \/ TakePublish(p) PROVE WholeInv'
  <2>0. PICK n \in Names : n = work[p].name BY <1>1 DEF Locals
  <2>1. /\ UNCHANGED <<dirs, copies, begun, dropped>> /\ Taking(p) /\ n \in Names
        /\ manifests' = [manifests EXCEPT ![n] = manifests'[n]]
        /\ \A q \in Procs \ {p} : work'[q] = work[q]
        /\ \/ Taking(p)' /\ work'[p].at = work[p].at /\ work'[p].name = n /\ UNCHANGED finished
           \/ /\ work'[p] = Idle
              /\ finished' \in {finished, finished \cup {t \in begun : t.at = work[p].at}}
    BY <1>4, <2>0, ManifestShape
  <2>2. PICK u \in begun \ finished : u.at = work[p].at /\ n = SnapName(u.second, u.label)
    BY <2>0, <2>1 DEF TakesInv, OfTake
  <2> SUFFICES ASSUME NEW t \in begun, Clean(t)' PROVE Whole(t)' BY <2>1 DEF WholeInv
  <2>3. Clean(t) /\ Whole(t) BY <2>1, CleanBefore DEF WholeInv
  <2>4. CASE t = u
    <3>1. manifests[n] = NoManifest /\ Copied(p, n) BY <2>1, <2>2, <2>3, <2>4 DEF Whole
    <3>2. n \in dirs /\ copies[n] = work[p].hash
      BY <1>4, <3>1 DEF Copied, TakeManifest, TakePublish, At
    <3>3. \A q \in Procs : Taking(q)' /\ work'[q].at = u.at => q = p
      BY <2>1, <2>2 DEF TakesInv, Taking
    <3>4. CASE TakeManifest(p)
      <4>1. work' = [work EXCEPT ![p].pc = "publish"] /\ manifests' = [manifests EXCEPT ![n] = NoManifest]
            /\ UNCHANGED finished
        BY <2>0, <3>2, <3>4 DEF TakeManifest
      <4>2. work'[p].pc = "publish" /\ work'[p].hash = work[p].hash BY <1>1, <4>1 DEF Locals
      <4>3. manifests'[n] = NoManifest BY <1>1, <2>1, <4>1
      <4>4. Copied(p, n)' BY <2>1, <3>2, <4>2 DEF Copied
      <4> QED BY <2>2, <2>4, <3>3, <4>1, <4>3, <4>4 DEF Whole
    <3>5. CASE TakePublish(p)
      <4> DEFINE m == [at |-> work[p].at, files |-> work[p].files, hash |-> work[p].hash]
      <4>1. manifests' = [manifests EXCEPT ![n] = m] /\ finished' = finished \cup {v \in begun : v.at = work[p].at}
        BY <2>0, <3>2, <3>5 DEF TakePublish
      <4>2. m \in Manifests
        <5>1. work[p].at \in 1..MaxTakes BY <1>1, <2>2 DEF Takes
        <5> QED BY <1>1, <5>1 DEF Manifests, Locals
      <4>3. m # NoManifest /\ m.at = u.at /\ m.hash = work[p].hash BY <2>2, <4>2
      <4> HIDE DEF m
      <4>4. manifests'[n] = m BY <1>1, <2>1, <4>1
      <4>5. u \in finished' BY <2>2, <4>1
      <4> QED BY <2>1, <2>2, <2>4, <3>2, <4>3, <4>4, <4>5 DEF Whole
    <3> QED BY <1>4, <3>4, <3>5
  <2>5. CASE t # u
    <3>1. SnapName(t.second, t.label) # n BY <2>2, <2>3, <2>5, CleanAlone
    <3>2. t.at # u.at BY <2>2, <2>5 DEF TakesInv
    <3>3. SnapName(t.second, t.label) \in Names BY <1>1, NameTypes DEF Takes
    <3>4. \A q \in Procs : Taking(q)' /\ work'[q].at = t.at =>
            Taking(q) /\ work[q].at = t.at /\ SameButOthers(work[q], work'[q])
      BY <2>1, <2>2, <3>2, SameIsSame DEF Taking, Idle
    <3>5. manifests'[SnapName(t.second, t.label)] = manifests[SnapName(t.second, t.label)]
      BY <1>1, <2>1, <3>1, <3>3
    <3>6. t \in finished' <=> t \in finished BY <2>1, <2>2, <3>2
    <3> QED BY <2>1, <2>3, <3>4, <3>5, <3>6, WholeFrame
  <2> QED BY <2>4, <2>5
<1>5. ASSUME NEW p \in Procs, TakeCmd(p) PROVE WholeInv'
  <2>1. PICK u \in Takes :
          LET n == SnapName(u.second, u.label) IN
          /\ u.at = Cardinality(begun) + 1 /\ begun' = begun \cup {u} /\ n \in Names
          /\ work'[p].pc = "take" /\ work'[p].at = u.at /\ work'[p].name = n /\ work'[p].hash = Nothing
          /\ \A q \in Procs \ {p} : work'[q] = work[q]
          /\ dirs' = dirs \cup {n} /\ UNCHANGED <<disk, copies, manifests, finished, dropped>>
    BY <1>5, BeginShape
  <2> DEFINE n == SnapName(u.second, u.label)
  <2>2. \A t \in begun : t.at \in Nat /\ t.at < u.at
    <3>1. Cardinality(begun) \in Nat BY FS_CardinalityType DEF TypeInv
    <3>2. \A t \in begun : t.at \in Nat /\ t.at <= Cardinality(begun) BY <1>1 DEF Takes, TakesInv
    <3> QED BY <2>1, <3>1, <3>2
  <2>3. u \notin begun BY <2>2
  <2>4. \A q \in Procs \ {p} : Taking(q)' => Taking(q) /\ work'[q].at # u.at /\ SameButOthers(work[q], work'[q])
    <3> TAKE q \in Procs \ {p}
    <3> HAVE Taking(q)'
    <3>1. work'[q] = work[q] /\ Taking(q) BY <2>1 DEF Taking
    <3>2. PICK t \in begun : t.at = work[q].at BY <3>1 DEF TakesInv, OfTake
    <3>3. work'[q].at # u.at BY <2>2, <3>1, <3>2
    <3> QED BY <3>1, <3>3, SameIsSame
  <2>5. ASSUME Clean(u)' PROVE Whole(u)'
    <3>1. \A t \in begun : SnapName(t.second, t.label) # n
      BY <2>1, <2>3, <2>5, NameTypes DEF Clean, SharedName
    <3>2. manifests'[n] = NoManifest /\ copies'[n] = Nothing BY <2>1, <3>1 DEF TakesInv
    <3>3. u \notin finished' BY <1>1, <2>1, <2>3
    <3> HIDE DEF n
    <3>4. Copied(p, n)' BY <2>1, <3>2 DEF Copied, n
    <3>5. \A q \in Procs : Taking(q)' /\ work'[q].at = u.at => Copied(q, n)' BY <2>4, <3>4
    <3> QED BY <3>2, <3>3, <3>5 DEF Whole, n
  <2>6. ASSUME NEW t \in begun, Clean(t)' PROVE Whole(t)'
    <3>1. Clean(t) /\ Whole(t) BY <2>1, <2>6, CleanBefore DEF WholeInv
    <3>2. \A q \in Procs : Taking(q)' /\ work'[q].at = t.at =>
            Taking(q) /\ work[q].at = t.at /\ SameButOthers(work[q], work'[q])
      BY <2>1, <2>2, <2>4
    <3> QED BY <2>1, <3>1, <3>2, WholeFrame
  <2> QED BY <2>1, <2>5, <2>6 DEF WholeInv
<1>6. ASSUME NEW p \in Procs, DropEntry(p) PROVE WholeInv'
  <2> DEFINE d == work[p].name
  <2>1. /\ UNCHANGED <<disk, begun, finished, dropped>> /\ d \in Names /\ At(p, "drop")
        /\ work'[p] \in {work[p], Idle} /\ \A q \in Procs \ {p} : work'[q] = work[q]
        /\ \A n \in Names \ {d} :
             manifests'[n] = manifests[n] /\ copies'[n] = copies[n] /\ (n \in dirs' <=> n \in dirs)
    BY <1>6, DropShape
  <2>2. d \in dropped BY <2>1 DEF TakesInv
  <2> SUFFICES ASSUME NEW t \in begun, Clean(t)' PROVE Whole(t)' BY <2>1 DEF WholeInv
  <2>3. Clean(t) /\ Whole(t) BY <2>1, CleanBefore DEF WholeInv
  <2>4. SnapName(t.second, t.label) \in Names \ {d} BY <1>1, <2>2, <2>3, NameTypes DEF Clean, Takes
  <2>5. \A q \in Procs : Taking(q)' => Taking(q) /\ work'[q] = work[q]
    BY <2>1 DEF Taking, At, Idle
  <2>6. \A q \in Procs : Taking(q)' /\ work'[q].at = t.at =>
          Taking(q) /\ work[q].at = t.at /\ SameButOthers(work[q], work'[q])
    BY <2>5, SameIsSame
  <2> QED BY <2>1, <2>3, <2>4, <2>6, WholeFrame
<1>7. \/ Quiet
      \/ \E p \in Procs : \/ TakeCmd(p) \/ TakeManifest(p) \/ TakePublish(p) \/ DropEntry(p)
                          \/ \E f \in Files : TakeOpen(p, f) \/ TakeCopy(p, f)
  BY QuietStep DEF Next, Step, FileStep
<1> QED BY <1>2, <1>3, <1>4, <1>5, <1>6, <1>7

SnapInv == TypeInv /\ TakesInv /\ WholeInv

LEMMA SnapInit == Init => SnapInv
<1> SUFFICES ASSUME Init PROVE SnapInv OBVIOUS
<1>1. begun = {} /\ \A p \in Procs : ~Taking(p) /\ ~At(p, "drop") BY DEF Init, Taking, At, Idle
<1>2. \A n \in Names : manifests[n] = NoManifest /\ copies[n] = Nothing BY DEF Init
<1>3. TakesInv /\ WholeInv BY <1>1, <1>2 DEF TakesInv, WholeInv
<1> QED BY <1>3, TypeInit DEF SnapInv

LEMMA SnapStep == ASSUME SnapInv, [Next]_vars PROVE SnapInv'
<1>1. CASE Next BY <1>1, TypeStep, TakesStep, WholeStep DEF SnapInv
<1>2. CASE UNCHANGED vars
  <2>1. TypeInv' BY TypeStep DEF SnapInv
  <2>2. TakesInv' BY <1>2 DEF SnapInv, TakesInv, OfTake, Taking, At, vars
  <2>3. WholeInv' BY <1>2 DEF SnapInv, WholeInv, Whole, Clean, SharedName, Copied, Taking, vars
  <2> QED BY <2>1, <2>2, <2>3 DEF SnapInv
<1> QED BY <1>1, <1>2

\* However takes, restores, drops, edits and kills overlap, a snapshot nobody
\* dropped or shares is there if and only if its take returned, and then holds
\* what the take copied.
THEOREM TakenWhole == Spec => []TakenIsWhole
<1>1. SnapInv => TakenIsWhole
  <2> SUFFICES ASSUME SnapInv, NEW t \in begun, Clean(t)
               PROVE  LET n == SnapName(t.second, t.label) IN
                      /\ t \in finished <=> n \in SnapList
                      /\ n \in SnapList => manifests[n].at = t.at /\ copies[n] = manifests[n].hash
    BY DEF TakenIsWhole, Clean
  <2>1. Whole(t) BY DEF SnapInv, WholeInv
  <2> QED BY <2>1 DEF Whole, SnapList
<1> QED BY <1>1, SnapInit, SnapStep, PTL DEF Spec

-----------------------------------------------------------------------------
(* A restore brings back.                                                  *)

\* A restore of a take knows what it holds; it has put back what it has come
\* to, and truncated the file it is at, but for what others wrote since.
Restored(p) ==
  /\ work[p].hash = copies[work[p].name] /\ work[p].todo \subseteq work[p].files
  /\ \A f \in work[p].files \ work[p].others :
       /\ f \notin work[p].todo /\ work[p].hash[f] # Absent => disk[f] = work[p].hash[f]
       /\ At(p, "write") /\ IsFirst(f, work[p].todo) => disk[f] = Torn
  /\ At(p, "write") => \A f \in Files : IsFirst(f, work[p].todo) => work[p].held = work[p].hash[f]

Sound(p) == \E t \in begun : OfTake(p, t) /\ (Clean(t) => t \in finished /\ Restored(p))

RestoreInv == \A p \in Procs : Restores(p) => Sound(p)

\* Whoever restores f is told that it was written.
Told(q, f) ==
  /\ SameButOthers(work[q], work'[q])
  /\ Restores(q) => work'[q].others = work[q].others \cup ({f} \cap work[q].files)

LEMMA NoticedTells ==
  ASSUME NEW w \in [Procs -> Locals], NEW others, NEW f \in Files, NEW q \in Procs
  PROVE  /\ q \notin others => Noticed(w, others, f)[q] = w[q]
         /\ q \in others /\ w[q].pc \in {"restore", "write"} =>
              Noticed(w, others, f)[q].others = w[q].others \cup ({f} \cap w[q].files)
<1>1. CASE q \in others /\ w[q].pc \in {"restore", "write"}
  <2> DEFINE fs == w[q].others \cup ({f} \cap w[q].files)
  <2>1. Noticed(w, others, f)[q] = [w[q] EXCEPT !.others = fs] BY <1>1 DEF Noticed
  <2>2. w[q] \in Locals /\ fs \in SUBSET Files BY DEF Locals
  <2> HIDE DEF fs
  <2>3. [w[q] EXCEPT !.others = fs].others = fs BY <2>2, OthersType
  <2> QED BY <1>1, <2>1, <2>3 DEF fs
<1>2. CASE ~(q \in others /\ w[q].pc \in {"restore", "write"})
  BY <1>2 DEF Noticed
<1> QED BY <1>1, <1>2

LEMMA NoticedTold ==
  ASSUME NEW w \in [Procs -> Locals], NEW others, NEW f \in Files, NEW q \in Procs
  PROVE  /\ SameButOthers(w[q], Noticed(w, others, f)[q])
         /\ q \in others /\ w[q].pc \in {"restore", "write"} =>
              Noticed(w, others, f)[q].others = w[q].others \cup ({f} \cap w[q].files)
<1>1. SameButOthers(w[q], Noticed(w, others, f)[q]) BY NoticedType DEF SameButOthers
<1>2. q \in others /\ w[q].pc \in {"restore", "write"} =>
        Noticed(w, others, f)[q].others = w[q].others \cup ({f} \cap w[q].files)
  BY NoticedTells
<1> QED BY <1>1, <1>2

\* What the steps of a restore do, file by file.
LEMMA OpenDetail ==
  ASSUME TypeInv, NEW p \in Procs, NEW f \in Files, RestoreOpen(p, f)
  PROVE  LET copy == copies[work[p].name][f] IN
         \/ /\ copy = Absent /\ UNCHANGED disk
            /\ work'[p] = [work[p] EXCEPT !.todo = @ \ {f}]
            /\ \A q \in Procs \ {p} : work'[q] = work[q]
         \/ /\ disk' = [disk EXCEPT ![f] = Torn]
            /\ work'[p] = [work[p] EXCEPT !.pc = "write", !.held = copy]
            /\ \A q \in Procs \ {p} : Told(q, f)
<1> DEFINE copy == copies[work[p].name][f]
           l == [work[p] EXCEPT !.pc = "write", !.held = copy]
<1>1. work \in [Procs -> Locals] /\ copy \in Things BY DEF TypeInv, TypeOK, Locals
<1>2. CASE copy = Absent
  <2>1. work' = [work EXCEPT ![p].todo = @ \ {f}] /\ UNCHANGED disk BY <1>2 DEF RestoreOpen
  <2> QED BY <1>1, <1>2, <2>1
<1>3. CASE copy # Absent
  <2>1. work' = Noticed([work EXCEPT ![p].pc = "write", ![p].held = copy], Procs \ {p}, f)
        /\ disk' = [disk EXCEPT ![f] = Torn]
    BY <1>3 DEF RestoreOpen
  <2>2. [work EXCEPT ![p].pc = "write", ![p].held = copy] = [work EXCEPT ![p] = l] BY <1>1
  <2>3. l \in Locals
    <3>1. work[p] \in Locals BY <1>1
    <3> HIDE DEF copy
    <3> QED BY <1>1, <3>1 DEF Locals
  <2> HIDE DEF copy
  <2> DEFINE w == [work EXCEPT ![p] = l]
             v == Noticed(w, Procs \ {p}, f)
  <2>4. w \in [Procs -> Locals] /\ w[p] = l /\ \A q \in Procs \ {p} : w[q] = work[q] BY <1>1, <2>3
  <2>5. work' = v BY <2>1, <2>2
  <2> HIDE DEF w
  <2>6. v[p] = l BY <2>4, NoticedTells
  <2>7. \A q \in Procs \ {p} : SameButOthers(w[q], v[q]) /\
           (w[q].pc \in {"restore", "write"} => v[q].others = w[q].others \cup ({f} \cap w[q].files))
    BY <2>4, NoticedTold
  <2> HIDE DEF v
  <2>8. \A q \in Procs \ {p} : Told(q, f) BY <2>4, <2>5, <2>7 DEF Told, Restores
  <2> QED BY <2>1, <2>5, <2>6, <2>8 DEF copy
<1> QED BY <1>2, <1>3

LEMMA WriteDetail ==
  ASSUME TypeInv, NEW p \in Procs, NEW f \in Files, RestoreWrite(p, f)
  PROVE  /\ work'[p] = [work[p] EXCEPT !.pc = "restore", !.todo = @ \ {f}, !.held = Absent]
         /\ \/ /\ \E c \in {work[p].held, copies[work[p].name][f]} \ {Absent} : disk' = [disk EXCEPT ![f] = c]
               /\ \A q \in Procs \ {p} : Told(q, f)
            \/ /\ disk[f] # Torn /\ UNCHANGED disk
               /\ \A q \in Procs \ {p} : work'[q] = work[q]
<1> DEFINE n == work[p].name
           l == [work[p] EXCEPT !.pc = "restore", !.todo = @ \ {f}, !.held = Absent]
           w == [work EXCEPT ![p] = l]
           v == Noticed(w, Procs \ {p}, f)
<1>1. work \in [Procs -> Locals] BY DEF TypeInv, TypeOK
<1>2. l \in Locals
  <2>1. work[p] \in Locals BY <1>1
  <2> QED BY <2>1 DEF Locals
<1>3. w = [work EXCEPT ![p].pc = "restore", ![p].todo = @ \ {f}, ![p].held = Absent] BY <1>1
<1>4. \/ /\ \E c \in {work[p].held, copies[n][f]} \ {Absent} : disk' = [disk EXCEPT ![f] = c]
         /\ work' = v
      \/ disk[f] # Torn /\ work' = w /\ UNCHANGED disk
  BY <1>3 DEF RestoreWrite
<1> HIDE DEF l
<1>5. w \in [Procs -> Locals] /\ w[p] = l /\ \A q \in Procs \ {p} : w[q] = work[q] BY <1>1, <1>2
<1> HIDE DEF w
<1>6. v[p] = l BY <1>5, NoticedTells
<1>7. ASSUME NEW q \in Procs \ {p}
      PROVE  /\ SameButOthers(w[q], v[q])
             /\ w[q].pc \in {"restore", "write"} => v[q].others = w[q].others \cup ({f} \cap w[q].files)
  <2>1. q \in Procs /\ q \in Procs \ {p} OBVIOUS
  <2> QED BY <1>5, <2>1, NoticedTold
<1> HIDE DEF v
<1>8. CASE work' = v
  <2>1. ASSUME NEW q \in Procs \ {p} PROVE Told(q, f)
    <3>1. w[q] = work[q] /\ work'[q] = v[q] BY <1>5, <1>8
    <3>2. /\ SameButOthers(work[q], v[q])
          /\ work[q].pc \in {"restore", "write"} => v[q].others = work[q].others \cup ({f} \cap work[q].files)
      BY <1>7, <3>1
    <3> QED BY <3>1, <3>2 DEF Told, Restores
  <2>2. \/ \E c \in {work[p].held, copies[n][f]} \ {Absent} : disk' = [disk EXCEPT ![f] = c]
        \/ disk[f] # Torn /\ work' = w /\ UNCHANGED disk
    BY <1>4
  <2>3. work'[p] = [work[p] EXCEPT !.pc = "restore", !.todo = @ \ {f}, !.held = Absent]
    BY <1>6, <1>8 DEF l
  <2>4. work' = w => \A q \in Procs \ {p} : work'[q] = work[q] BY <1>5
  <2> QED BY <2>1, <2>2, <2>3, <2>4
<1>9. CASE work' # v BY <1>4, <1>5, <1>9 DEF l
<1> QED BY <1>8, <1>9

LEMMA WriteTells ==
  ASSUME TypeInv, NEW f \in Files, Edit(f) \/ Delete(f)
  PROVE  /\ \A q \in Procs : Told(q, f)
         /\ \A g \in Files \ {f} : disk'[g] = disk[g]
<1> DEFINE v == Noticed(work, Procs, f)
<1>1. work \in [Procs -> Locals] /\ disk \in [Files -> Things] BY DEF TypeInv, TypeOK
<1>2. work' = v /\ \E c : disk' = [disk EXCEPT ![f] = c] BY DEF Edit, Delete, Write
<1>3. \A q \in Procs : SameButOthers(work[q], v[q]) /\
         (work[q].pc \in {"restore", "write"} => v[q].others = work[q].others \cup ({f} \cap work[q].files))
  BY <1>1, NoticedType, NoticedTells DEF SameButOthers
<1> HIDE DEF v
<1> QED BY <1>1, <1>2, <1>3 DEF Told, Restores

\* A restore stays sound when the takes go on and others write what it is told.
LEMMA SoundFrame ==
  ASSUME NEW q \in Procs, Sound(q), SameButOthers(work[q], work'[q]),
         work[q].others \subseteq work'[q].others,
         \A f \in work[q].files \ work'[q].others : disk'[f] = disk[f],
         begun \subseteq begun', finished \subseteq finished', dropped \subseteq dropped',
         \A t \in begun \cap finished : OfTake(q, t) /\ Clean(t)' =>
            copies'[work[q].name] = copies[work[q].name]
  PROVE  Sound(q)'
<1>1. PICK t \in begun : OfTake(q, t) /\ (Clean(t) => t \in finished /\ Restored(q)) BY DEF Sound
<1>2. OfTake(q, t)' BY <1>1 DEF OfTake, SameButOthers
<1>3. ASSUME Clean(t)' PROVE t \in finished' /\ Restored(q)'
  <2>1. t \in finished /\ Restored(q) BY <1>1, <1>3, CleanBefore
  <2>2. copies'[work[q].name] = copies[work[q].name] BY <1>1, <1>3, <2>1
  <2> QED BY <2>1, <2>2 DEF Restored, SameButOthers, At
<1> QED BY <1>1, <1>2, <1>3 DEF Sound

\* One process goes on, and the disk stays as it is.
LEMMA RestoreFrame ==
  ASSUME RestoreInv, NEW p \in Procs, \A q \in Procs \ {p} : work'[q] = work[q], UNCHANGED disk,
         begun \subseteq begun', finished \subseteq finished', dropped \subseteq dropped',
         \A t \in begun \cap finished : Clean(t)' =>
            LET n == SnapName(t.second, t.label) IN copies'[n] = copies[n],
         Restores(p)' => Sound(p)'
  PROVE  RestoreInv'
<1> SUFFICES ASSUME NEW q \in Procs, Restores(q)', q # p PROVE Sound(q)' BY DEF RestoreInv
<1>1. Restores(q) /\ Sound(q) BY DEF RestoreInv, Restores
<1>2. SameButOthers(work[q], work'[q]) /\ work'[q].others = work[q].others BY SameIsSame
<1>3. \A t \in begun \cap finished : OfTake(q, t) /\ Clean(t)' =>
         copies'[work[q].name] = copies[work[q].name]
  BY DEF OfTake
<1> QED BY <1>1, <1>2, <1>3, SoundFrame

\* One process goes on and writes f.
LEMMA ToldFrame ==
  ASSUME TypeInv, RestoreInv, NEW p \in Procs, NEW f \in Files, \A q \in Procs \ {p} : Told(q, f),
         \A g \in Files \ {f} : disk'[g] = disk[g], UNCHANGED <<snaps, begun, finished, dropped>>
  PROVE  \A q \in Procs \ {p} : Restores(q)' => Sound(q)'
<1> SUFFICES ASSUME NEW q \in Procs \ {p}, Restores(q)' PROVE Sound(q)' OBVIOUS
<1>1. SameButOthers(work[q], work'[q]) BY DEF Told
<1>2. Restores(q) /\ Sound(q) BY <1>1 DEF RestoreInv, Restores, SameButOthers
<1>3. work'[q].others = work[q].others \cup ({f} \cap work[q].files) BY <1>2 DEF Told
<1>4. work[q].files \subseteq Files BY DEF TypeInv, TypeOK, Locals
<1>5. \A g \in work[q].files \ work'[q].others : disk'[g] = disk[g] BY <1>3, <1>4
<1> QED BY <1>1, <1>2, <1>3, <1>5, SoundFrame DEF snaps

\* A restore begins with what the snapshot holds.
LEMMA SoundBegins ==
  ASSUME SnapInv, NEW p \in Procs, NEW n \in SnapList, UNCHANGED <<snaps, begun, finished, dropped>>,
         work'[p].pc = "restore", work'[p].name = n, work'[p].at = manifests[n].at,
         work'[p].hash = manifests[n].hash, work'[p].todo = work'[p].files
  PROVE  Sound(p)'
<1>1. n \in Names /\ manifests[n] # NoManifest BY DEF SnapList, SnapInv, TypeInv, TypeOK
<1>2. PICK t \in begun : t.at = manifests[n].at /\ SnapName(t.second, t.label) = n
  BY <1>1 DEF SnapInv, TakesInv
<1>3. OfTake(p, t)' BY <1>2 DEF OfTake
<1>4. ASSUME Clean(t)' PROVE t \in finished' /\ Restored(p)'
  <2>1. Whole(t) BY <1>4, CleanBefore DEF SnapInv, WholeInv
  <2>2. t \in finished /\ copies[n] = manifests[n].hash BY <1>1, <1>2, <2>1 DEF Whole
  <2> QED BY <2>2 DEF Restored, At, snaps
<1> QED BY <1>3, <1>4 DEF Sound

\* A restore puts back one file after the other.
LEMMA SoundOpens ==
  ASSUME TypeInv, NEW p \in Procs, NEW f \in Files, RestoreOpen(p, f), Sound(p)
  PROVE  Sound(p)'
<1> DEFINE copy == copies[work[p].name][f]
<1>1. work[p] \in Locals /\ disk \in [Files -> Things] BY DEF TypeInv, TypeOK
<1>2. UNCHANGED <<dirs, copies, manifests, begun, finished, dropped>> /\ work[p].pc = "restore"
      /\ IsFirst(f, work[p].todo)
  BY DEF RestoreOpen, snaps, At
<1>3. PICK t \in begun : OfTake(p, t) /\ (Clean(t) => t \in finished /\ Restored(p)) BY DEF Sound
<1>4. /\ work'[p].name = work[p].name /\ work'[p].at = work[p].at
      /\ work'[p].files = work[p].files /\ work'[p].hash = work[p].hash
  BY RestoreShape
<1>5. OfTake(p, t)' BY <1>3, <1>4 DEF OfTake
<1>6. ASSUME Clean(t)' PROVE t \in finished' /\ Restored(p)'
  <2>1. t \in finished /\ Restored(p) BY <1>2, <1>3, <1>6, CleanBefore
  <2>2. work[p].hash = copies[work[p].name] /\ work[p].todo \subseteq work[p].files BY <2>1 DEF Restored
  <2>3. CASE /\ copy = Absent /\ UNCHANGED disk
             /\ work'[p] = [work[p] EXCEPT !.todo = @ \ {f}]
    <3>1. work'[p].pc = "restore" /\ work'[p].todo = work[p].todo \ {f} /\ work'[p].others = work[p].others
      BY <1>1, <1>2, <2>3 DEF Locals
    <3>2. work[p].hash[f] = Absent BY <2>2, <2>3
    <3> HIDE DEF copy
    <3>3. \A g \in work'[p].files \ work'[p].others :
            g \notin work'[p].todo /\ work'[p].hash[g] # Absent => disk'[g] = work'[p].hash[g]
      BY <1>4, <2>1, <2>3, <3>1, <3>2 DEF Restored
    <3> QED BY <1>2, <1>4, <2>1, <2>2, <3>1, <3>3 DEF Restored, At
  <2>4. CASE /\ disk' = [disk EXCEPT ![f] = Torn]
             /\ work'[p] = [work[p] EXCEPT !.pc = "write", !.held = copy]
    <3>1. work'[p].pc = "write" /\ work'[p].todo = work[p].todo /\ work'[p].others = work[p].others
          /\ work'[p].held = copy
      BY <1>1, <2>4 DEF Locals
    <3>2. copy = work[p].hash[f] BY <2>2
    <3> HIDE DEF copy
    <3>3. work[p].files \subseteq Files BY <1>1 DEF Locals
    <3>4. disk'[f] = Torn /\ \A g \in Files \ {f} : disk'[g] = disk[g] BY <1>1, <2>4
    <3>5. \A g \in Files : IsFirst(g, work[p].todo) => g = f BY <1>2 DEF IsFirst
    <3>6. \A g \in work[p].files \ work[p].others :
            g \notin work[p].todo /\ work[p].hash[g] # Absent => disk'[g] = work[p].hash[g]
      BY <1>2, <2>1, <3>3, <3>4 DEF Restored, IsFirst
    <3>7. \A g \in work[p].files : IsFirst(g, work[p].todo) => disk'[g] = Torn
      BY <3>3, <3>4, <3>5
    <3>8. \A g \in Files : IsFirst(g, work[p].todo) => work'[p].held = work[p].hash[g]
      BY <3>1, <3>2, <3>5
    <3> QED BY <1>2, <1>4, <2>1, <2>2, <3>1, <3>6, <3>7, <3>8 DEF Restored, At
  <2> QED BY <2>3, <2>4, OpenDetail
<1> QED BY <1>2, <1>3, <1>5, <1>6 DEF Sound

LEMMA SoundWrites ==
  ASSUME TypeInv, NEW p \in Procs, NEW f \in Files, RestoreWrite(p, f), Sound(p)
  PROVE  Sound(p)'
<1>1. work[p] \in Locals /\ disk \in [Files -> Things] BY DEF TypeInv, TypeOK
<1>2. UNCHANGED <<dirs, copies, manifests, begun, finished, dropped>> /\ work[p].pc = "write"
      /\ IsFirst(f, work[p].todo)
  BY DEF RestoreWrite, snaps, At
<1>3. PICK t \in begun : OfTake(p, t) /\ (Clean(t) => t \in finished /\ Restored(p)) BY DEF Sound
<1>4. work'[p] = [work[p] EXCEPT !.pc = "restore", !.todo = @ \ {f}, !.held = Absent] BY WriteDetail
<1>5. /\ work'[p].pc = "restore" /\ work'[p].todo = work[p].todo \ {f}
      /\ work'[p].others = work[p].others /\ work'[p].files = work[p].files
      /\ work'[p].hash = work[p].hash /\ work'[p].name = work[p].name /\ work'[p].at = work[p].at
  BY <1>1, <1>4 DEF Locals
<1>6. OfTake(p, t)' BY <1>3, <1>5 DEF OfTake
<1>7. ASSUME Clean(t)' PROVE t \in finished' /\ Restored(p)'
  <2>1. t \in finished /\ Restored(p) BY <1>2, <1>3, <1>7, CleanBefore
  <2>2. work[p].hash = copies[work[p].name] /\ work[p].todo \subseteq work[p].files
        /\ work[p].held = work[p].hash[f]
    BY <1>2, <2>1 DEF Restored, At
  <2>3. work[p].files \subseteq Files BY <1>1 DEF Locals
  <2>4. \A g \in work[p].files \ work[p].others :
          g \notin work[p].todo \ {f} /\ work[p].hash[g] # Absent => disk'[g] = work[p].hash[g]
    <3>1. CASE disk[f] # Torn /\ UNCHANGED disk
      <4>1. f \in work[p].others BY <1>2, <2>1, <2>2, <3>1 DEF Restored, At, IsFirst
      <4> QED BY <2>1, <3>1, <4>1 DEF Restored
    <3>2. CASE \E c \in {work[p].held, copies[work[p].name][f]} \ {Absent} : disk' = [disk EXCEPT ![f] = c]
      <4>1. disk' = [disk EXCEPT ![f] = work[p].hash[f]] BY <2>2, <3>2
      <4>2. disk'[f] = work[p].hash[f] /\ \A g \in Files \ {f} : disk'[g] = disk[g] BY <1>1, <4>1
      <4> QED BY <2>1, <2>3, <4>2 DEF Restored
    <3> QED BY ZenonT(60), <3>1, <3>2, WriteDetail
  <2> QED BY <1>2, <1>5, <2>1, <2>2, <2>4 DEF Restored, At
<1> QED BY <1>2, <1>3, <1>6, <1>7 DEF Sound

LEMMA RestoreStep == ASSUME SnapInv, RestoreInv, Next PROVE RestoreInv'
<1> USE DEF SnapInv
<1>1. work \in [Procs -> Locals] /\ begun \subseteq Takes BY DEF TypeInv, TypeOK
<1>2. ASSUME NEW f \in Files, Edit(f) \/ Delete(f) PROVE RestoreInv'
  <2>1. /\ \A q \in Procs : Told(q, f)
        /\ \A g \in Files \ {f} : disk'[g] = disk[g]
    BY <1>2, WriteTells
  <2>2. UNCHANGED <<snaps, begun, finished, dropped>> BY <1>2 DEF Edit, Delete, Write
  <2> SUFFICES ASSUME NEW q \in Procs, Restores(q)' PROVE Sound(q)' BY DEF RestoreInv
  <2>3. Restores(q) /\ Sound(q) BY <2>1 DEF RestoreInv, Restores, Told, SameButOthers
  <2>4. work'[q].others = work[q].others \cup ({f} \cap work[q].files) BY <2>1, <2>3 DEF Told
  <2>5. work[q].files \subseteq Files BY <1>1 DEF Locals
  <2>6. \A g \in work[q].files \ work'[q].others : disk'[g] = disk[g] BY <2>1, <2>4, <2>5
  <2>7. SameButOthers(work[q], work'[q]) BY <2>1 DEF Told
  <2> QED BY <2>2, <2>3, <2>4, <2>6, <2>7, SoundFrame DEF snaps
<1>3. ASSUME NEW p \in Procs, NEW f \in Files, RestoreOpen(p, f) \/ RestoreWrite(p, f) PROVE RestoreInv'
  <2>1. UNCHANGED <<snaps, begun, finished, dropped>> BY <1>3 DEF RestoreOpen, RestoreWrite
  <2>2. Restores(p) /\ Sound(p) BY <1>3 DEF RestoreInv, Restores, RestoreOpen, RestoreWrite, At
  <2>3. Sound(p)' BY <1>3, <2>2, SoundOpens, SoundWrites
  <2>4. \/ \A q \in Procs \ {p} : Told(q, f) /\ \E c : disk' = [disk EXCEPT ![f] = c]
        \/ UNCHANGED disk /\ \A q \in Procs \ {p} : work'[q] = work[q]
    <3>1. CASE RestoreOpen(p, f) BY <3>1, OpenDetail
    <3>2. CASE RestoreWrite(p, f)
      <4>1. \/ /\ \E c \in {work[p].held, copies[work[p].name][f]} \ {Absent} : disk' = [disk EXCEPT ![f] = c]
               /\ \A q \in Procs \ {p} : Told(q, f)
            \/ UNCHANGED disk /\ \A q \in Procs \ {p} : work'[q] = work[q]
        BY <3>2, WriteDetail
      <4> QED BY <4>1
    <3> QED BY <1>3, <3>1, <3>2
  <2>5. CASE \A q \in Procs \ {p} : Told(q, f) /\ \E c : disk' = [disk EXCEPT ![f] = c]
    <3> SUFFICES ASSUME NEW q \in Procs, q # p, Restores(q)' PROVE Sound(q)' BY <2>3 DEF RestoreInv
    <3>1. disk \in [Files -> Things] BY DEF TypeInv, TypeOK
    <3>2. \A g \in Files \ {f} : disk'[g] = disk[g] BY <2>5, <3>1
    <3>3. \A r \in Procs \ {p} : Told(r, f) BY <2>5
    <3> QED BY <2>1, <3>2, <3>3, ToldFrame
  <2>6. CASE UNCHANGED disk /\ \A q \in Procs \ {p} : work'[q] = work[q]
    <3>1. UNCHANGED <<copies, begun, finished, dropped>> BY <2>1 DEF snaps
    <3> QED BY <2>3, <2>6, <3>1, RestoreFrame
  <2> QED BY <2>4, <2>5, <2>6
<1>4. ASSUME NEW p \in Procs, RestoreCmd(p) PROVE RestoreInv'
  <2>1. PICK n \in Names, ids \in Selections : SnapRestore(p, n, ids) BY <1>4 DEF RestoreCmd
  <2> DEFINE want == IF ids = {} THEN manifests[n].files ELSE manifests[n].files \cap ids
             l == [Idle EXCEPT !.pc = "restore", !.name = n, !.at = manifests[n].at, !.files = want,
                     !.todo = want, !.hash = manifests[n].hash, !.scope = Files]
  <2>2. work' = [work EXCEPT ![p] = l] /\ n \in SnapList
        /\ UNCHANGED <<disk, snaps, begun, finished, dropped>>
    BY <2>1 DEF SnapRestore, SnapResolveID
  <2>3. l.pc = "restore" /\ l.name = n /\ l.at = manifests[n].at /\ l.hash = manifests[n].hash
        /\ l.todo = l.files
    BY DEF Idle
  <2> HIDE DEF l
  <2>4. work'[p] = l /\ \A q \in Procs \ {p} : work'[q] = work[q] BY <1>1, <2>2
  <2>5. Sound(p)' BY <2>2, <2>3, <2>4, SoundBegins
  <2>6. UNCHANGED <<disk, copies, begun, finished, dropped>> BY <2>2 DEF snaps
  <2> QED BY <2>4, <2>5, <2>6, RestoreFrame
<1>5. ASSUME NEW p \in Procs, UndoRestores(p) PROVE RestoreInv'
  <2> DEFINE n == work[p].name
             want == IF work[p].files = {} THEN manifests[n].files ELSE manifests[n].files \cap work[p].files
             l == [work[p] EXCEPT !.pc = "restore", !.at = manifests[n].at, !.files = want,
                     !.todo = want, !.hash = manifests[n].hash]
  <2>1. UNCHANGED <<disk, snaps, begun, finished, dropped>> BY <1>5 DEF UndoRestores
  <2>2. UNCHANGED <<copies, begun, finished, dropped>> BY <2>1 DEF snaps
  <2>3. CASE n \in SnapList
    <3>1. work' = [work EXCEPT ![p] = l] BY <1>1, <1>5, <2>3 DEF UndoRestores, SnapResolveID
    <3>2. l.pc = "restore" /\ l.name = n /\ l.at = manifests[n].at /\ l.hash = manifests[n].hash
          /\ l.todo = l.files
      <4> HIDE DEF want
      <4> QED BY <1>1 DEF Locals
    <3> HIDE DEF l
    <3>3. work'[p] = l /\ \A q \in Procs \ {p} : work'[q] = work[q] BY <1>1, <3>1
    <3>4. Sound(p)'
      <4>1. PICK m \in SnapList : m = n BY <2>3
      <4> HIDE DEF n
      <4> QED BY <2>1, <3>2, <3>3, <4>1, SoundBegins
    <3> QED BY <2>1, <2>2, <3>3, <3>4, RestoreFrame
  <2>4. CASE n \notin SnapList
    <3>1. work' = [work EXCEPT ![p] = Idle] BY <1>1, <1>5, <2>4 DEF UndoRestores, SnapResolveID
    <3>2. ~Restores(p)' /\ \A q \in Procs \ {p} : work'[q] = work[q]
      BY <1>1, <3>1 DEF Restores, Idle
    <3> QED BY <2>1, <2>2, <3>2, RestoreFrame
  <2> QED BY <2>3, <2>4
<1>6. ASSUME NEW p \in Procs, UndoCmd(p) \/ DropCmd(p) \/ RestoreEnds(p) \/ Fails(p) PROVE RestoreInv'
  <2>1. /\ UNCHANGED <<disk, snaps, begun, finished>> /\ dropped \subseteq dropped'
        /\ \E l : work' = [work EXCEPT ![p] = l] /\ l.pc \in {"undo", "drop", "idle"}
    <3>1. CASE UndoCmd(p)
      <4>1. PICK scope \in Scopes \cup {Files}, ids \in Selections : SnapUndo(p, scope, ids)
        BY <3>1 DEF UndoCmd
      <4>2. PICK n, given :
              work' = [work EXCEPT ![p] = [Idle EXCEPT !.pc = "undo", !.name = n, !.files = given,
                                                       !.scope = scope, !.byId = ids # {}]]
        BY <4>1 DEF SnapUndo
      <4> DEFINE l == [Idle EXCEPT !.pc = "undo", !.name = n, !.files = given, !.scope = scope, !.byId = ids # {}]
      <4>3. work' = [work EXCEPT ![p] = l] /\ l.pc = "undo" BY <4>2 DEF Idle
      <4>4. UNCHANGED <<disk, snaps, begun, finished, dropped>> BY <4>1 DEF SnapUndo
      <4> HIDE DEF l
      <4> QED BY <4>3, <4>4
    <3>2. CASE DropCmd(p)
      <4>1. PICK n \in Names : SnapDrop(p, n) BY <3>2 DEF DropCmd
      <4> DEFINE l == [Idle EXCEPT !.pc = "drop", !.name = n]
      <4>2. work' = [work EXCEPT ![p] = l] /\ l.pc = "drop" BY <4>1 DEF SnapDrop, Idle
      <4>3. UNCHANGED <<disk, snaps, begun, finished>> /\ dropped \subseteq dropped'
        BY <4>1 DEF SnapDrop
      <4> HIDE DEF l
      <4> QED BY <4>2, <4>3
    <3>3. CASE RestoreEnds(p) \/ Fails(p)
      <4>1. work' = [work EXCEPT ![p] = Idle] /\ UNCHANGED <<disk, snaps, begun, finished, dropped>>
        BY <3>3 DEF RestoreEnds, Fails
      <4>2. Idle.pc = "idle" BY DEF Idle
      <4> QED BY <4>1, <4>2
    <3> QED BY <1>6, <3>1, <3>2, <3>3
  <2>2. ~Restores(p)' /\ \A q \in Procs \ {p} : work'[q] = work[q] BY <1>1, <2>1 DEF Restores
  <2>3. UNCHANGED <<copies, begun, finished>> BY <2>1 DEF snaps
  <2> QED BY <2>1, <2>2, <2>3, RestoreFrame
<1>7. ASSUME NEW p \in Procs, NEW f \in Files, TakeOpen(p, f) \/ TakeCopy(p, f) PROVE RestoreInv'
  <2>0. PICK n \in Names : n = work[p].name BY <1>1 DEF Locals
  <2>1. /\ UNCHANGED <<disk, manifests, begun, finished, dropped>> /\ Taking(p) /\ Taking(p)'
        /\ \A q \in Procs \ {p} : work'[q] = work[q]
        /\ \A m \in Names \ {n} : copies'[m] = copies[m]
    BY <1>7, <2>0, CopyShape
  <2>2. PICK u \in begun \ finished : n = SnapName(u.second, u.label)
    BY <2>0, <2>1 DEF TakesInv, OfTake
  <2>3. ~Restores(p)' BY <2>1 DEF Restores, Taking
  <2>4. ASSUME NEW t \in begun \cap finished, Clean(t)'
        PROVE  copies'[SnapName(t.second, t.label)] = copies[SnapName(t.second, t.label)]
    <3>1. Clean(t) BY <2>1, <2>4, CleanBefore
    <3>2. SnapName(t.second, t.label) \in Names \ {n} BY <1>1, <2>2, <3>1, CleanAlone, NameTypes DEF Takes
    <3> QED BY <2>1, <3>2
  <2> QED BY <2>1, <2>3, <2>4, RestoreFrame
<1>8. ASSUME NEW p \in Procs, TakeManifest(p) \/ TakePublish(p) PROVE RestoreInv'
  <2>1. /\ UNCHANGED <<disk, dirs, copies, begun, dropped>>
        /\ \A q \in Procs \ {p} : work'[q] = work[q]
        /\ (Taking(p)' /\ UNCHANGED finished) \/ (work'[p] = Idle /\ finished \subseteq finished')
    BY <1>8, ManifestShape
  <2>2. ~Restores(p)' /\ finished \subseteq finished' BY <2>1 DEF Restores, Taking, Idle
  <2> QED BY <2>1, <2>2, RestoreFrame
<1>9. ASSUME NEW p \in Procs, TakeCmd(p) PROVE RestoreInv'
  <2>1. /\ begun \subseteq begun' /\ work'[p].pc = "take"
        /\ \A q \in Procs \ {p} : work'[q] = work[q]
        /\ UNCHANGED <<disk, copies, manifests, finished, dropped>>
    BY <1>9, BeginShape
  <2>2. ~Restores(p)' BY <2>1 DEF Restores
  <2> QED BY <2>1, <2>2, RestoreFrame
<1>10. ASSUME NEW p \in Procs, DropEntry(p) PROVE RestoreInv'
  <2>0. PICK d \in Names : d = work[p].name BY <1>1 DEF Locals
  <2>1. /\ UNCHANGED <<disk, begun, finished, dropped>> /\ At(p, "drop")
        /\ work'[p] \in {work[p], Idle} /\ \A q \in Procs \ {p} : work'[q] = work[q]
        /\ \A n \in Names \ {d} : copies'[n] = copies[n]
    BY <1>10, <2>0, DropShape
  <2>2. ~Restores(p)' BY <2>1 DEF Restores, At, Idle
  <2>3. d \in dropped BY <2>0, <2>1 DEF TakesInv
  <2>4. ASSUME NEW t \in begun \cap finished, Clean(t)'
        PROVE  copies'[SnapName(t.second, t.label)] = copies[SnapName(t.second, t.label)]
    <3>1. SnapName(t.second, t.label) \in Names \ {d}
      BY <1>1, <2>1, <2>3, <2>4, NameTypes, CleanBefore DEF Clean, Takes
    <3> QED BY <2>1, <3>1
  <2> QED BY <2>1, <2>2, <2>4, RestoreFrame
<1> QED BY <1>2, <1>3, <1>4, <1>5, <1>6, <1>7, <1>8, <1>9, <1>10 DEF Next, Step, FileStep

\* Whatever else happens meanwhile, a restore or undo that reports success has
\* put back, as the snapshot recorded them, the files in question that nobody
\* else wrote, unless the snapshot was shared or dropped.
THEOREM BringsBack == Spec => RestoreBringsBack
<1> DEFINE Back == \A p \in Procs : RestoreEnds(p) =>
              \A t \in begun : t.at = work[p].at /\ ~SharedName(t) /\ work[p].name \notin dropped =>
                \A f \in work[p].files \ work[p].others :
                  work[p].hash[f] # Absent => disk[f] = work[p].hash[f]
<1>1. Init => RestoreInv BY DEF Init, RestoreInv, Restores, Idle
<1>2. ASSUME SnapInv, RestoreInv, [Next]_vars PROVE RestoreInv'
  <2>1. CASE Next BY <1>2, <2>1, RestoreStep
  <2>2. CASE UNCHANGED vars
    <3>1. UNCHANGED <<disk, copies, work, begun, finished, dropped>> BY <2>2 DEF vars
    <3> QED BY <1>2, <3>1 DEF RestoreInv, Sound, Restored, Restores, OfTake, Clean, SharedName, At
  <2> QED BY <1>2, <2>1, <2>2
<1>3. SnapInv /\ RestoreInv => Back
  <2> SUFFICES ASSUME SnapInv, RestoreInv, NEW p \in Procs, RestoreEnds(p), NEW t \in begun,
                      t.at = work[p].at, ~SharedName(t), work[p].name \notin dropped,
                      NEW f \in work[p].files \ work[p].others, work[p].hash[f] # Absent
               PROVE  disk[f] = work[p].hash[f]
    OBVIOUS
  <2>1. work[p].todo = {} /\ Restores(p) BY DEF RestoreEnds, Restores, At
  <2>2. PICK u \in begun : OfTake(p, u) /\ (Clean(u) => Restored(p)) BY <2>1 DEF RestoreInv, Sound
  <2>3. u = t BY <2>2 DEF SnapInv, TakesInv, OfTake
  <2>4. Restored(p) BY <2>2, <2>3 DEF Clean, OfTake
  <2> QED BY <2>1, <2>4 DEF Restored
<1> QED BY <1>1, <1>2, <1>3, SnapInit, SnapStep, PTL DEF Spec, RestoreBringsBack
=============================================================================
