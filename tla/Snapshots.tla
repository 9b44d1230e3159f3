----------------------------- MODULE Snapshots -----------------------------
(***************************************************************************)
(* sysfig snap (internal/core/snap.go): take, restore, undo and drop, file *)
(* by file, next to users who edit the same files and to each other.  No   *)
(* lock is held; copies are made in place (truncate, then write), in the   *)
(* snapshot as on the disk; a snapshot is one that has a snap.json, which  *)
(* is written last.                                                        *)
(*                                                                         *)
(* Every edit writes a content of its own, and a hash is the content it is *)
(* of.  Torn is a file that was truncated and not yet written.             *)
(* The hashes in snap.json serve the properties: no code reads them.  That *)
(* of a copied file is of its copy; that of a file which was not copied,   *)
(* which the code takes from the file's record, is left out here.          *)
(***************************************************************************)
EXTENDS Naturals, FiniteSets

CONSTANTS
  Procs,        (* sysfig processes                                        *)
  Files,        (* tracked files: numbers, in the order of their IDs       *)
  Labels,       (* labels a user gives snapshots, "" included              *)
  Selections,   (* the IDs a user may give; none stand for all             *)
  Scopes,       (* the files under a directory one may be working in       *)
  MaxOps,       (* bound: edits, failed system calls, killed processes     *)
  MaxClock,     (* bound: seconds in which takes are begun                 *)
  MaxTakes,     (* bound: snapshots begun                                  *)
  Absent,       (* no such file                                            *)
  Torn,         (* truncated, not yet written                              *)
  NoManifest    (* no snap.json, or one that does not parse                *)

Contents  == 0..MaxOps
Things    == Contents \cup {Absent, Torn}
Names     == (0..MaxClock) \X Labels
Nothing   == [f \in Files |-> Absent]
Manifests == [at : 1..MaxTakes, files : SUBSET Files, hash : [Files -> Things]]
Takes     == [at : 1..MaxTakes, second : 0..MaxClock, label : Labels]

ASSUME SnapAssumption ==
  /\ Files \subseteq Nat /\ IsFiniteSet(Files) /\ Files # {}
  /\ Labels # {} /\ Scopes \cup Selections \subseteq SUBSET Files
  /\ MaxOps \in Nat /\ MaxClock \in Nat /\ MaxTakes \in Nat
  /\ Absent \notin Nat /\ Torn \notin Nat /\ Absent # Torn
  /\ NoManifest \notin Manifests

VARIABLES
  disk,        (* content of every tracked file                            *)
  dirs,        (* the directories under snaps/                             *)
  copies,      (* what their files/ hold                                   *)
  manifests,   (* their snap.json                                          *)
  work,        (* the locals of every process                              *)
  begun,       (* history: the takes begun                                 *)
  finished,    (* history: the takes that returned without error           *)
  dropped,     (* history: the names somebody began to drop                *)
  ops          (* edits, failures and kills so far                         *)

snaps == <<dirs, copies, manifests>>
vars  == <<disk, dirs, copies, manifests, work, begun, finished, dropped, ops>>

Idle ==
  [pc |-> "idle", name |-> <<0, CHOOSE l \in Labels : TRUE>>, at |-> 0, files |-> {},
   todo |-> {}, held |-> Absent, hash |-> Nothing, scope |-> {}, byId |-> FALSE, others |-> {}]

At(p, l) == work[p].pc = l

\* The record loops go through the files in the order of their IDs.
IsFirst(f, fs) == f \in fs /\ \A g \in fs : f <= g

\* f is written: history, for those of the others that restore.
Noticed(w, others, f) ==
  [q \in Procs |-> IF q \in others /\ w[q].pc \in {"restore", "write"}
                   THEN [w[q] EXCEPT !.others = @ \cup ({f} \cap w[q].files)] ELSE w[q]]

-----------------------------------------------------------------------------
(* The user's editors.                                                     *)

Write(f, content) ==
  /\ ops < MaxOps /\ ops' = ops + 1
  /\ disk' = [disk EXCEPT ![f] = content]
  /\ work' = Noticed(work, Procs, f)
  /\ UNCHANGED <<snaps, begun, finished, dropped>>

Edit(f)   == Write(f, ops + 1)
Delete(f) == disk[f] # Absent /\ Write(f, Absent)

-----------------------------------------------------------------------------
(* SnapTake.                                                               *)

\* Mutant: the ID is the label only.
NameByLabel(second, label) == <<label>>

\* Mutant: the second is left out of it.
NameWithoutSecond(second, label) == <<0, label>>

\* The ID, and name of the directory: the second, and the label made a slug.
SnapName(second, label) == <<second, label>>

\* The state is loaded, the records are chosen (all, or those of --id), the
\* directory is made unless it is there.
SnapTake(p, ids, second, label) ==
  LET n == SnapName(second, label)
      at == Cardinality(begun) + 1
      records == IF ids = {} THEN Files ELSE ids
  IN
  /\ At(p, "idle") /\ Cardinality(begun) < MaxTakes
  /\ \A u \in begun : u.second <= second
  /\ dirs' = dirs \cup {n}
  /\ begun' = begun \cup {[at |-> at, second |-> second, label |-> label]}
  /\ work' = [work EXCEPT ![p] = [Idle EXCEPT !.pc = "take", !.name = n, !.at = at,
                                              !.files = records, !.todo = records]]
  /\ UNCHANGED <<disk, copies, manifests, finished, dropped, ops>>

\* The next file is opened; its copy is created or truncated.  A file that is
\* missing, or cannot be opened, is recorded and not copied, without an error.
TakeOpen(p, f) ==
  LET n == work[p].name IN
  /\ At(p, "take") /\ IsFirst(f, work[p].todo)
  /\ \/ /\ IF disk[f] = Absent THEN UNCHANGED ops ELSE ops < MaxOps /\ ops' = ops + 1
        /\ work' = [work EXCEPT ![p].todo = @ \ {f}]
        /\ UNCHANGED <<dirs, copies>>
     \/ /\ disk[f] # Absent
        /\ work' = [work EXCEPT ![p].pc = "copy", ![p].held = disk[f]]
        /\ dirs' = dirs \cup {n}
        /\ copies' = [copies EXCEPT ![n][f] = Torn]
        /\ UNCHANGED ops
  /\ UNCHANGED <<disk, manifests, begun, finished, dropped>>

\* It is copied, and the copy hashed: as it was when it was opened, or as it
\* is now if somebody writes it in place.  A copy whose directory was dropped
\* meanwhile is lost.
TakeCopy(p, f) ==
  LET n == work[p].name w == work[p] IN
  /\ At(p, "copy") /\ IsFirst(f, w.todo)
  /\ \E c \in {w.held, disk[f]} \ {Absent} :
       LET kept == copies[n][f] # Absent
           hash == [w.hash EXCEPT ![f] = IF kept THEN c ELSE Absent]
       IN
       /\ copies' = IF kept THEN [copies EXCEPT ![n][f] = c] ELSE copies
       /\ work' = [work EXCEPT ![p] = [w EXCEPT !.pc = "take", !.todo = w.todo \ {f},
                                                !.held = Absent, !.hash = hash]]
  /\ UNCHANGED <<disk, dirs, manifests, begun, finished, dropped, ops>>

\* snap.json is created or truncated, which fails without its directory.
TakeManifest(p) ==
  LET n == work[p].name IN
  /\ At(p, "take") /\ work[p].todo = {}
  /\ IF n \in dirs
     THEN /\ manifests' = [manifests EXCEPT ![n] = NoManifest]
          /\ work' = [work EXCEPT ![p].pc = "publish"]
     ELSE /\ work' = [work EXCEPT ![p] = Idle]
          /\ UNCHANGED manifests
  /\ UNCHANGED <<disk, dirs, copies, begun, finished, dropped, ops>>

\* It is written, unless the directory was dropped: from now on there is a
\* snapshot.
TakePublish(p) ==
  LET n == work[p].name w == work[p] IN
  /\ At(p, "publish")
  /\ manifests' = IF n \in dirs
                  THEN [manifests EXCEPT ![n] = [at |-> w.at, files |-> w.files, hash |-> w.hash]]
                  ELSE manifests
  /\ finished' = finished \cup {t \in begun : t.at = w.at}
  /\ work' = [work EXCEPT ![p] = Idle]
  /\ UNCHANGED <<disk, dirs, copies, begun, dropped, ops>>

-----------------------------------------------------------------------------
(* SnapList and SnapResolveID.                                             *)

\* Directories without a readable snap.json are not listed.
SnapList == {n \in dirs : manifests[n] # NoManifest}

\* A name in full, or a prefix that only one of the listed has, stands for a
\* snapshot; nothing else does.
SnapResolveID(n) == n \in SnapList

\* SnapFilterByDir and the sort of SnapList: the newest with a file in scope.
IsNewest(n, scope) ==
  LET touching == {m \in SnapList : manifests[m].files \cap scope # {}} IN
  n \in touching /\ \A m \in touching : manifests[m].at <= manifests[n].at

-----------------------------------------------------------------------------
(* SnapRestore and SnapUndo.                                               *)

\* snap restore: the snapshot is looked up, and its snap.json read.  No IDs
\* stand for all of its files.
SnapRestore(p, n, ids) ==
  LET want == IF ids = {} THEN manifests[n].files ELSE manifests[n].files \cap ids IN
  /\ At(p, "idle") /\ SnapResolveID(n)
  /\ work' = [work EXCEPT ![p] = [Idle EXCEPT
       !.pc = "restore", !.name = n, !.at = manifests[n].at, !.files = want, !.todo = want,
       !.hash = manifests[n].hash, !.scope = Files]]
  /\ UNCHANGED <<disk, snaps, begun, finished, dropped, ops>>

\* Mutant: the newest of all snapshots is taken, whatever it is of.
SnapUndoNewest(p, scope, ids) ==
  /\ At(p, "idle")
  /\ \E n \in SnapList :
       LET given == IF ids = {} THEN manifests[n].files \cap scope ELSE ids IN
       /\ IsNewest(n, Files)
       /\ work' = [work EXCEPT ![p] = [Idle EXCEPT !.pc = "undo", !.name = n, !.files = given,
                     !.scope = scope, !.byId = ids # {}]]
  /\ UNCHANGED <<disk, snaps, begun, finished, dropped, ops>>

\* snap undo: the newest snapshot with a file in scope (under the current
\* directory, or anywhere with -a), and its files there, or those of --id
\* wherever they are.
SnapUndo(p, scope, ids) ==
  /\ At(p, "idle")
  /\ \E n \in SnapList :
       LET given == IF ids = {} THEN manifests[n].files \cap scope ELSE ids IN
       /\ IsNewest(n, scope)
       /\ work' = [work EXCEPT ![p] = [Idle EXCEPT !.pc = "undo", !.name = n, !.files = given,
                     !.scope = scope, !.byId = ids # {}]]
  /\ UNCHANGED <<disk, snaps, begun, finished, dropped, ops>>

\* It goes on as snap restore of that ID: looked up again, and by then perhaps
\* gone.  Here too, no IDs stand for all files.
UndoRestores(p) ==
  LET n == work[p].name
      want == IF work[p].files = {} THEN manifests[n].files
              ELSE manifests[n].files \cap work[p].files
  IN
  /\ At(p, "undo")
  /\ work' = [work EXCEPT ![p] =
       IF SnapResolveID(n)
       THEN [@ EXCEPT !.pc = "restore", !.at = manifests[n].at, !.files = want, !.todo = want,
                      !.hash = manifests[n].hash]
       ELSE Idle]
  /\ UNCHANGED <<disk, snaps, begun, finished, dropped, ops>>

\* Mutant: a file that is on the disk is left alone.
RestoreOpenOnlyMissing(p, f) ==
  LET copy == copies[work[p].name][f] IN
  /\ At(p, "restore") /\ IsFirst(f, work[p].todo)
  /\ IF copy = Absent \/ disk[f] \in Contents
     THEN /\ work' = [work EXCEPT ![p].todo = @ \ {f}]
          /\ UNCHANGED disk
     ELSE /\ work' = Noticed([work EXCEPT ![p].pc = "write", ![p].held = copy], Procs \ {p}, f)
          /\ disk' = [disk EXCEPT ![f] = Torn]
  /\ UNCHANGED <<snaps, begun, finished, dropped, ops>>

\* The next file: skipped if it was not captured, else its copy is opened and
\* the file on disk truncated.
RestoreOpen(p, f) ==
  LET copy == copies[work[p].name][f] IN
  /\ At(p, "restore") /\ IsFirst(f, work[p].todo)
  /\ IF copy = Absent
     THEN /\ work' = [work EXCEPT ![p].todo = @ \ {f}]
          /\ UNCHANGED disk
     ELSE /\ work' = Noticed([work EXCEPT ![p].pc = "write", ![p].held = copy], Procs \ {p}, f)
          /\ disk' = [disk EXCEPT ![f] = Torn]
  /\ UNCHANGED <<snaps, begun, finished, dropped, ops>>

\* It is written: as it was when it was opened, or as another take has made it
\* since.  What is written is lost if somebody replaced the file meanwhile.
RestoreWrite(p, f) ==
  LET n == work[p].name w == [work EXCEPT ![p].pc = "restore", ![p].todo = @ \ {f},
                                          ![p].held = Absent] IN
  /\ At(p, "write") /\ IsFirst(f, work[p].todo)
  /\ \/ /\ disk[f] # Absent
        /\ \E c \in {work[p].held, copies[n][f]} \ {Absent} : disk' = [disk EXCEPT ![f] = c]
        /\ work' = Noticed(w, Procs \ {p}, f)
     \/ /\ disk[f] # Torn
        /\ work' = w /\ UNCHANGED disk
  /\ UNCHANGED <<snaps, begun, finished, dropped, ops>>

\* The command reports success.
RestoreEnds(p) ==
  /\ At(p, "restore") /\ work[p].todo = {}
  /\ work' = [work EXCEPT ![p] = Idle]
  /\ UNCHANGED <<disk, snaps, begun, finished, dropped, ops>>

-----------------------------------------------------------------------------
(* SnapDrop.                                                               *)

\* snap drop: the snapshot is looked up, and os.RemoveAll begins.
SnapDrop(p, n) ==
  /\ At(p, "idle") /\ SnapResolveID(n)
  /\ work' = [work EXCEPT ![p] = [Idle EXCEPT !.pc = "drop", !.name = n]]
  /\ dropped' = dropped \cup {n}
  /\ UNCHANGED <<disk, snaps, begun, finished, ops>>

\* It removes one entry after the other, in the order the directory has them,
\* and the directory once it is empty.
DropEntry(p) ==
  LET n == work[p].name IN
  /\ At(p, "drop")
  /\ \/ /\ manifests' = [manifests EXCEPT ![n] = NoManifest]
        /\ manifests[n] # NoManifest /\ UNCHANGED <<dirs, copies, work>>
     \/ \E f \in Files :
          /\ copies[n][f] # Absent
          /\ copies' = [copies EXCEPT ![n][f] = Absent]
          /\ UNCHANGED <<dirs, manifests, work>>
     \/ /\ manifests[n] = NoManifest /\ copies[n] = Nothing
        /\ dirs' = dirs \ {n}
        /\ work' = [work EXCEPT ![p] = Idle]
        /\ UNCHANGED <<copies, manifests>>
  /\ UNCHANGED <<disk, begun, finished, dropped, ops>>

\* A system call fails or the process is killed: nothing is cleaned up.
Fails(p) ==
  /\ ~At(p, "idle") /\ ops < MaxOps /\ ops' = ops + 1
  /\ work' = [work EXCEPT ![p] = Idle]
  /\ UNCHANGED <<disk, snaps, begun, finished, dropped>>

-----------------------------------------------------------------------------
Init ==
  /\ disk = [f \in Files |-> 0]
  /\ dirs = {} /\ copies = [n \in Names |-> Nothing]
  /\ manifests = [n \in Names |-> NoManifest]
  /\ work = [p \in Procs |-> Idle]
  /\ begun = {} /\ finished = {} /\ dropped = {} /\ ops = 0

FileStep(p, f) ==
  TakeOpen(p, f) \/ TakeCopy(p, f) \/ RestoreOpen(p, f) \/ RestoreWrite(p, f)

Step(p) ==
  \/ \E f \in Files : FileStep(p, f)
  \/ TakeManifest(p) \/ TakePublish(p) \/ UndoRestores(p) \/ RestoreEnds(p) \/ DropEntry(p)

\* The commands, with what they may be given.
TakeCmd(p) ==
  \E ids \in Selections, second \in 0..MaxClock, label \in Labels :
    SnapTake(p, ids, second, label)

RestoreCmd(p) == \E n \in Names, ids \in Selections : SnapRestore(p, n, ids)

DropCmd(p) == \E n \in Names : SnapDrop(p, n)

\* In some directory, or anywhere with --all.
UndoCmd(p) == \E scope \in Scopes \cup {Files}, ids \in Selections : SnapUndo(p, scope, ids)

Next ==
  \/ \E f \in Files : Edit(f) \/ Delete(f)
  \/ \E p \in Procs : TakeCmd(p) \/ RestoreCmd(p) \/ UndoCmd(p) \/ DropCmd(p) \/ Step(p) \/ Fails(p)

Spec == Init /\ [][Next]_vars

-----------------------------------------------------------------------------
(* Properties.                                                             *)

Locals ==
  [pc : {"idle", "take", "copy", "publish", "undo", "restore", "write", "drop"},
   name : Names, at : 0..MaxTakes, files : SUBSET Files, todo : SUBSET Files, held : Things,
   hash : [Files -> Things], scope : SUBSET Files, byId : BOOLEAN, others : SUBSET Files]

TypeOK ==
  /\ disk \in [Files -> Things] /\ dirs \subseteq Names
  /\ copies \in [Names -> [Files -> Things]]
  /\ manifests \in [Names -> Manifests \cup {NoManifest}]
  /\ work \in [Procs -> Locals]
  /\ begun \subseteq Takes /\ finished \subseteq begun
  /\ dropped \subseteq Names /\ ops \in 0..MaxOps

\* Another take was begun in the same second with the same label.
SharedName(t) ==
  \E u \in begun : u # t /\ u.second = t.second /\ u.label = t.label

\* However takes, restores, drops and kills overlap: a take that returned is a
\* snapshot with all it copied, and one that did not is none, until somebody
\* drops it.  The exception is a second take of the same second and label,
\* which writes into the directory of the first.
TakenIsWhole ==
  \A t \in begun :
    LET n == SnapName(t.second, t.label) IN
    ~SharedName(t) /\ n \notin dropped =>
      /\ t \in finished <=> n \in SnapList
      /\ n \in SnapList => manifests[n].at = t.at /\ copies[n] = manifests[n].hash

\* A restore or undo that reports success has put back every file in question
\* that the snapshot holds, as it was recorded, unless somebody else wrote the
\* file meanwhile, or the snapshot was shared or dropped.
RestoreBringsBack ==
  [][\A p \in Procs : RestoreEnds(p) =>
       \A t \in begun : t.at = work[p].at /\ ~SharedName(t) /\ work[p].name \notin dropped =>
         \A f \in work[p].files \ work[p].others :
           work[p].hash[f] # Absent => disk[f] = work[p].hash[f]]_vars

\* Undo from a directory, without --id, writes no file outside it, whatever is
\* taken into or dropped from the snapshot between its choice and its restore,
\* though "no IDs" means all files to the restore it calls.
UndoStaysInScope ==
  [][\A p \in Procs, f \in Files :
       RestoreOpen(p, f) /\ disk'[f] # disk[f] /\ ~work[p].byId => f \in work[p].scope]_vars

\* snap.go:400-402, cmd_snap.go:229-230: undo restores only files under the
\* directory.  With --id it does not: the directory then only chooses the
\* snapshot.
UndoStaysUnderDir ==
  [][\A p \in Procs, f \in Files :
       RestoreOpen(p, f) /\ disk'[f] # disk[f] => f \in work[p].scope]_vars
=============================================================================
