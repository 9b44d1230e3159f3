----------------------------- MODULE SyncApply -----------------------------
(***************************************************************************)
(* internal/core/sync.go and apply.go over track.go and backup.go: how     *)
(* file content moves between the system, the records of state.json, the   *)
(* branches of the bare repository and the backups.                        *)
(*                                                                         *)
(* Every Sync and Apply is a command in a process of its own: it loads a   *)
(* snapshot of the records, works through it file by file, and writes      *)
(* single records back under the state lock (StateStore).  Between any two *)
(* of those steps the user edits, deletes, tracks and untracks files,      *)
(* other commands run, and a command may be killed.  A commit is one step  *)
(* here; GitRefs opens it.                                                 *)
(*                                                                         *)
(* Every edit writes a content never seen before, so contents are numbered *)
(* by the operation that wrote them, and a hash is the content it is of.   *)
(***************************************************************************)
EXTENDS Naturals, FiniteSets

CONSTANTS
  Files,        (* system paths; the path determines ID and RepoPath       *)
  Groups,       (* commit keys: tracked directories, or a file's own ID    *)
  GroupOf,      (* [Files -> Groups]                                       *)
  EncFiles,     (* files tracked with --encrypt                            *)
  LocalFiles,   (* files the user tracks with --local                      *)
  Tracked0,     (* files tracked and synced before the first step          *)
  Syncers, Appliers,          (* command processes                         *)
  Arguments,    (* sets of files a command is called with; {} means all    *)
  EditsDuringCommands,        (* does the user act while a command runs?   *)
  MaxOps,       (* bound: operations of the user                           *)
  MaxSecond,    (* bound: seconds the clock shows                          *)
  MaxCrashes,   (* bound: killed commands                                  *)
  Gone,         (* no such file, on disk, in a tree or among the backups   *)
  NoRec         (* no record in state.json                                 *)

ASSUME SyncAssumption ==
  /\ GroupOf \in [Files -> Groups]
  /\ Tracked0 \subseteq Files /\ LocalFiles \subseteq Files
  /\ Syncers \cap Appliers = {} /\ Arguments \subseteq SUBSET Files
  /\ MaxOps \in Nat /\ MaxSecond \in Nat /\ MaxCrashes \in Nat
  /\ Gone \notin Nat

Contents == 0..MaxOps
Seconds  == 0..MaxSecond
Branches == {"track", "local"}   \* the group's branch under either prefix

VARIABLES
  disk,       (* content of every system file                              *)
  recs,       (* state.json: Files, reduced to CurrentHash and Branch      *)
  excludes,   (* state.json: Excludes                                      *)
  tree,       (* tree[b][f]: f in the tip of its group's branch under b    *)
  manifest,   (* files listed in sysfig.yaml on the manifest branch        *)
  backups,    (* backups[f][t]: the backup of f named after second t       *)
  sync,       (* the local state of every Sync                             *)
  apply,      (* the local state of every Apply                            *)
  now, ops, crashes,          (* clock and bounded counters                *)
  committed,  (* history: <<f, c>> for every content c ever committed      *)
  dropped,    (* history: files a Sync untracked because they were deleted *)
  alone       (* history: commands nothing disturbed since they loaded     *)

vars == <<disk, recs, excludes, tree, manifest, backups, sync, apply,
          now, ops, crashes, committed, dropped, alone>>

counters == <<now, ops, crashes>>
repo     == <<tree, manifest, committed, dropped>>

Records   == [hash: Contents, branch: Branches]

ASSUME RecordAssumption == NoRec \notin Records

NoFile    == [f \in Files |-> Gone]
NoRecords == [f \in Files |-> NoRec]

TrackedIn(r)  == {f \in Files : r[f] # NoRec}
GroupFiles(g) == {f \in Files : GroupOf[f] = g}
TrackBranch(f) == IF f \in LocalFiles THEN "local" ELSE "track"

IdleSync ==
  [pc |-> "idle", snap |-> NoRecords, todo |-> {}, scope |-> {}, data |-> NoFile,
   dels |-> {}, batch |-> {}, unlink |-> {}, branch |-> "track"]

IdleApply ==
  [pc |-> "idle", snap |-> NoRecords, todo |-> {}, cur |-> NoRec, data |-> Gone,
   seen |-> Gone, force |-> FALSE, failed |-> FALSE, results |-> {}]

Syncing(s)  == sync[s].pc # "idle"
Applying(a) == apply[a].pc # "idle"
Busy == {s \in Syncers : Syncing(s)} \cup {a \in Appliers : Applying(a)}

\* Which commands are still undisturbed after p starts or takes a step.
Starts(p) == alone' = IF Busy = {} THEN {p} ELSE {}
Steps(p)  == alone' = alone \cap {p}

-----------------------------------------------------------------------------
(* The user, and the clock.                                                *)

UserActs ==
  /\ ops < MaxOps /\ ops' = ops + 1
  /\ EditsDuringCommands \/ Busy = {}
  /\ alone' = {}
  /\ UNCHANGED <<now, crashes, tree, manifest, committed, backups, sync, apply>>

Edit(f) ==
  /\ UserActs
  /\ disk' = [disk EXCEPT ![f] = ops + 1]
  /\ UNCHANGED <<recs, excludes, dropped>>

Delete(f) ==
  /\ disk[f] # Gone
  /\ UserActs
  /\ disk' = [disk EXCEPT ![f] = Gone]
  /\ UNCHANGED <<recs, excludes, dropped>>

\* Track: the record is written under the lock; an ID in use is an error.
Track(f) ==
  /\ disk[f] # Gone /\ recs[f] = NoRec
  /\ UserActs
  /\ recs' = [recs EXCEPT ![f] = [hash |-> disk[f], branch |-> TrackBranch(f)]]
  /\ dropped' = dropped \ {f}
  /\ UNCHANGED <<disk, excludes>>

\* Untrack of a tracked file deletes its record; of a NEW file in a tracked
\* directory, it excludes the path.
Untrack(f) ==
  /\ UserActs
  /\ \/ /\ recs[f] # NoRec
        /\ recs' = [recs EXCEPT ![f] = NoRec]
        /\ UNCHANGED excludes
     \/ /\ recs[f] = NoRec /\ f \notin excludes
        /\ \E h \in TrackedIn(recs) : GroupOf[h] = GroupOf[f]
        /\ excludes' = excludes \cup {f}
        /\ UNCHANGED recs
  /\ UNCHANGED <<disk, dropped>>

Tick ==
  /\ now < MaxSecond /\ now' = now + 1
  /\ UNCHANGED <<disk, recs, excludes, repo, backups, sync, apply, ops, crashes, alone>>

-----------------------------------------------------------------------------
(* Sync.                                                                   *)

SyncIn(s, l) == sync[s].pc = l /\ Steps(s)

\* New files of the tracked directories: what WalkDir comes across.
NewFiles(snap) ==
  {f \in Files \ (TrackedIn(snap) \cup excludes) :
     \E h \in TrackedIn(snap) : GroupOf[h] = GroupOf[f] /\ h # f}

\* Load the records; with no file arguments, look for new files first.
SyncLoad(s) ==
  /\ sync[s].pc = "idle" /\ Starts(s)
  /\ \E args \in Arguments :
       LET ids == args \cap TrackedIn(recs) IN
       sync' = [sync EXCEPT ![s] = IF args = {}
         THEN [IdleSync EXCEPT !.pc = "walk", !.snap = recs, !.todo = NewFiles(recs)]
         ELSE [IdleSync EXCEPT !.pc = "scan", !.snap = recs, !.todo = ids, !.scope = ids]]
  /\ UNCHANGED <<disk, recs, excludes, repo, backups, apply, counters>>

\* Track a new file with the group of its directory and no other option:
\* whatever its siblings are, it goes to the track/ branch.  Failures (the
\* denylist, an unreadable or meanwhile tracked file) are ignored.
SyncAutoTrack(s, f) ==
  /\ SyncIn(s, "walk") /\ f \in sync[s].todo
  /\ sync' = [sync EXCEPT ![s].todo = @ \ {f},
                          ![s].scope = IF disk[f] = Gone THEN @ ELSE @ \cup {f}]
  /\ \/ /\ disk[f] # Gone /\ recs[f] = NoRec
        /\ recs' = [recs EXCEPT ![f] = [hash |-> disk[f], branch |-> "track"]]
        /\ dropped' = dropped \ {f}
     \/ UNCHANGED <<recs, dropped>>
  /\ UNCHANGED <<disk, excludes, tree, manifest, committed, backups, apply, counters>>

\* Mutant: the snapshot loaded before the walk is kept.
SyncReloadSkipped(s) ==
  /\ SyncIn(s, "walk") /\ sync[s].todo = {}
  /\ LET snap == sync[s].snap IN
       sync' = [sync EXCEPT ![s].pc = "scan", ![s].todo = TrackedIn(snap),
                            ![s].scope = TrackedIn(snap)]
  /\ UNCHANGED <<disk, recs, excludes, repo, backups, apply, counters>>

\* The snapshot is loaded again when the walk found anything new.
SyncReload(s) ==
  /\ SyncIn(s, "walk") /\ sync[s].todo = {}
  /\ LET snap == IF sync[s].scope = {} THEN sync[s].snap ELSE recs IN
       sync' = [sync EXCEPT ![s].pc = "scan", ![s].snap = snap,
                  ![s].todo = TrackedIn(snap), ![s].scope = TrackedIn(snap)]
  /\ UNCHANGED <<disk, recs, excludes, repo, backups, apply, counters>>

\* Mutant: "unchanged" is decided by the recorded hash, not by the branch.
SyncScanByHash(s, f) ==
  /\ SyncIn(s, "scan") /\ f \in sync[s].todo
  /\ \/ /\ disk[f] = Gone
        /\ sync' = [sync EXCEPT ![s].todo = @ \ {f}, ![s].dels = @ \cup {f}]
     \/ /\ disk[f] # Gone /\ f \notin EncFiles /\ disk[f] = sync[s].snap[f].hash
        /\ sync' = [sync EXCEPT ![s].todo = @ \ {f}, ![s].pc = "refresh", ![s].batch = {f}]
     \/ /\ disk[f] # Gone /\ (f \in EncFiles \/ disk[f] # sync[s].snap[f].hash)
        /\ sync' = [sync EXCEPT ![s].todo = @ \ {f}, ![s].data = [@ EXCEPT ![f] = disk[f]]]
  /\ UNCHANGED <<disk, recs, excludes, repo, backups, apply, counters>>

\* Read one file: missing, unchanged, or to be committed.  A fresh ciphertext
\* never equals the committed one.
Unchanged(s, f) == f \notin EncFiles /\ disk[f] = tree[sync[s].snap[f].branch][f]

SyncScan(s, f) ==
  /\ SyncIn(s, "scan") /\ f \in sync[s].todo
  /\ \/ /\ disk[f] = Gone
        /\ sync' = [sync EXCEPT ![s].todo = @ \ {f}, ![s].dels = @ \cup {f}]
     \/ /\ disk[f] # Gone /\ Unchanged(s, f)
        /\ sync' = [sync EXCEPT ![s].todo = @ \ {f}, ![s].pc = "refresh", ![s].batch = {f}]
     \/ /\ disk[f] # Gone /\ ~Unchanged(s, f)
        /\ sync' = [sync EXCEPT ![s].todo = @ \ {f}, ![s].data = [@ EXCEPT ![f] = disk[f]]]
  /\ UNCHANGED <<disk, recs, excludes, repo, backups, apply, counters>>

\* A file that cannot be read is reported and left out.
SyncReadError(s, f) ==
  /\ sync[s].pc = "scan" /\ f \in sync[s].todo /\ disk[f] # Gone
  /\ alone' = alone \ {s}
  /\ sync' = [sync EXCEPT ![s].todo = @ \ {f}]
  /\ UNCHANGED <<disk, recs, excludes, repo, backups, apply, counters>>

\* The records with the hash of f taken from disk.
Rehashed(f) == [recs EXCEPT ![f].hash = disk[f]]

\* The hash of an unchanged file is taken again from disk and recorded.  The
\* record is looked up without a check: if it is gone, the process panics.
SyncRefresh(s) ==
  /\ SyncIn(s, "refresh")
  /\ \E f \in sync[s].batch :
       IF disk[f] # Gone /\ recs[f] = NoRec
       THEN sync' = [sync EXCEPT ![s] = IdleSync] /\ UNCHANGED recs
       ELSE /\ recs' = IF disk[f] = Gone THEN recs ELSE Rehashed(f)
            /\ sync' = [sync EXCEPT ![s].pc = "scan", ![s].batch = {}]
  /\ UNCHANGED <<disk, excludes, repo, backups, apply, counters>>

\* All files are read.
SyncScanned(s) ==
  /\ SyncIn(s, "scan") /\ sync[s].todo = {}
  /\ sync' = [sync EXCEPT ![s].pc = "commit"]
  /\ UNCHANGED <<disk, recs, excludes, repo, backups, apply, counters>>

Pending(s) == sync[s].dels \cup {f \in Files : sync[s].data[f] # Gone}
Settling(s) == sync[s].batch \cup sync[s].unlink

\* determineBranch of the group's first entry, or of its first deletion when
\* it has no entry; map iteration makes any of them the first.
GroupBranches(s, ents, dels) ==
  {sync[s].snap[f].branch : f \in IF ents # {} THEN ents ELSE dels}

\* Mutant: a commit adds blobs to the tip but takes nothing out of it.
SyncCommitKeepsDeleted(s, g) ==
  LET ents == {f \in GroupFiles(g) : sync[s].data[f] # Gone}
      dels == sync[s].dels \cap GroupFiles(g)
  IN
  /\ SyncIn(s, "commit") /\ Settling(s) = {} /\ ents \cup dels # {}
  /\ \E b \in GroupBranches(s, ents, dels) :
       /\ tree' = [tree EXCEPT ![b] = [f \in Files |-> IF f \in ents THEN sync[s].data[f] ELSE @[f]]]
       /\ sync' = [sync EXCEPT ![s].branch = b, ![s].batch = ents, ![s].unlink = dels,
            ![s].dels = @ \ dels,
            ![s].data = [f \in Files |-> IF f \in ents THEN Gone ELSE @[f]]]
  /\ committed' = committed \cup {<<f, sync[s].data[f]>> : f \in ents}
  /\ UNCHANGED <<disk, recs, excludes, manifest, dropped, backups, apply, counters>>

\* One commit for a whole group: what was read of its files is put on top of
\* the branch tip and its missing files are taken out.
SyncCommit(s, g) ==
  LET ents == {f \in GroupFiles(g) : sync[s].data[f] # Gone}
      dels == sync[s].dels \cap GroupFiles(g)
  IN
  /\ SyncIn(s, "commit") /\ Settling(s) = {} /\ ents \cup dels # {}
  /\ \E b \in GroupBranches(s, ents, dels) :
       /\ tree' = [tree EXCEPT ![b] = [f \in Files |->
            IF f \in dels THEN Gone ELSE IF f \in ents THEN sync[s].data[f] ELSE @[f]]]
       /\ sync' = [sync EXCEPT ![s].branch = b, ![s].batch = ents, ![s].unlink = dels,
            ![s].dels = @ \ dels,
            ![s].data = [f \in Files |-> IF f \in ents THEN Gone ELSE @[f]]]
  /\ committed' = committed \cup {<<f, sync[s].data[f]>> : f \in ents}
  /\ UNCHANGED <<disk, recs, excludes, manifest, dropped, backups, apply, counters>>

\* A commit that fails ends the Sync, with the groups not yet committed.
SyncCommitFails(s) ==
  /\ SyncIn(s, "commit") /\ Settling(s) = {} /\ Pending(s) # {}
  /\ sync' = [sync EXCEPT ![s] = IdleSync]
  /\ UNCHANGED <<disk, recs, excludes, repo, backups, apply, counters>>

\* Record the new hash: for a plain file only if the branch holds what is on
\* disk now, for an encrypted one without that check.  Again a record that
\* is gone makes the process panic.
SyncRecord(s, f) ==
  LET new == disk[f] # Gone /\ (f \in EncFiles \/ tree[sync[s].branch][f] = disk[f]) IN
  /\ SyncIn(s, "commit") /\ f \in sync[s].batch
  /\ IF new /\ recs[f] = NoRec
     THEN sync' = [sync EXCEPT ![s] = IdleSync] /\ UNCHANGED recs
     ELSE /\ recs' = IF new THEN Rehashed(f) ELSE recs
          /\ sync' = [sync EXCEPT ![s].batch = @ \ {f}]
  /\ UNCHANGED <<disk, excludes, repo, backups, apply, counters>>

\* The deleted files of the group are untracked, under one lock.
SyncUntrack(s) ==
  /\ SyncIn(s, "commit") /\ sync[s].batch = {} /\ sync[s].unlink # {}
  /\ recs' = [f \in Files |-> IF f \in sync[s].unlink THEN NoRec ELSE recs[f]]
  /\ dropped' = dropped \cup sync[s].unlink
  /\ sync' = [sync EXCEPT ![s].unlink = {}]
  /\ UNCHANGED <<disk, excludes, tree, manifest, committed, backups, apply, counters>>

\* The manifest is built from the snapshot, unless that is empty.
SyncManifest(s) ==
  /\ SyncIn(s, "commit") /\ Pending(s) = {} /\ Settling(s) = {}
  /\ manifest' = IF TrackedIn(sync[s].snap) = {} THEN manifest ELSE TrackedIn(sync[s].snap)
  /\ sync' = [sync EXCEPT ![s].pc = "done"]
  /\ UNCHANGED <<disk, recs, excludes, tree, committed, dropped, backups, apply, counters>>

\* A failure to commit it is ignored.
SyncManifestFails(s) ==
  /\ sync[s].pc = "commit" /\ Pending(s) = {} /\ Settling(s) = {}
  /\ alone' = alone \ {s}
  /\ sync' = [sync EXCEPT ![s].pc = "done"]
  /\ UNCHANGED <<disk, recs, excludes, repo, backups, apply, counters>>

SyncReturn(s) ==
  /\ SyncIn(s, "done")
  /\ sync' = [sync EXCEPT ![s] = IdleSync]
  /\ UNCHANGED <<disk, recs, excludes, repo, backups, apply, counters>>

-----------------------------------------------------------------------------
(* Apply.                                                                  *)

ApplyIn(a, l) == apply[a].pc = l /\ Steps(a)
DestOf(a) == disk[apply[a].cur]

ApplyLoad(a) ==
  /\ apply[a].pc = "idle" /\ Starts(a)
  /\ \E args \in Arguments, force \in BOOLEAN :
       apply' = [apply EXCEPT ![a] = [IdleApply EXCEPT !.pc = "check", !.snap = recs,
                   !.todo = IF args = {} THEN TrackedIn(recs) ELSE args \cap TrackedIn(recs),
                   !.force = force]]
  /\ UNCHANGED <<disk, recs, excludes, repo, backups, sync, counters>>

Dirty(a, f) == disk[f] # Gone /\ disk[f] # apply[a].snap[f].hash

\* A DIRTY file is skipped unless forced, yet counted as a result.
ApplyCheck(a, f) ==
  /\ ApplyIn(a, "check") /\ f \in apply[a].todo
  /\ apply' = IF Dirty(a, f) /\ ~apply[a].force
              THEN [apply EXCEPT ![a].todo = @ \ {f}, ![a].results = @ \cup {f}]
              ELSE [apply EXCEPT ![a].todo = @ \ {f}, ![a].cur = f, ![a].pc = "backup"]
  /\ UNCHANGED <<disk, recs, excludes, repo, backups, sync, counters>>

\* Mutant: a failed backup does not stop the file from being replaced.
ApplyFailsSoftly(a) ==
  /\ apply[a].pc \in {"backup", "read", "write"} /\ Steps(a)
  /\ apply' = IF apply[a].pc = "backup"
              THEN [apply EXCEPT ![a].pc = "read", ![a].failed = TRUE, ![a].seen = DestOf(a)]
              ELSE [apply EXCEPT ![a].pc = "check", ![a].failed = TRUE,
                      ![a].cur = NoRec, ![a].data = Gone, ![a].seen = Gone]
  /\ UNCHANGED <<disk, recs, excludes, repo, backups, sync, counters>>

\* A step on the current file fails: the error is kept, the next file is due.
ApplyFails(a) ==
  /\ apply[a].pc \in {"backup", "read", "write"} /\ Steps(a)
  /\ apply' = [apply EXCEPT ![a].pc = "check", ![a].failed = TRUE,
                 ![a].cur = NoRec, ![a].data = Gone, ![a].seen = Gone]
  /\ UNCHANGED <<disk, recs, excludes, repo, backups, sync, counters>>

\* Back up the current file, if there is one, under a name that has the
\* second in it: a backup of the same second is replaced.
ApplyBackup(a) ==
  /\ ApplyIn(a, "backup")
  /\ apply' = [apply EXCEPT ![a].pc = "read", ![a].seen = DestOf(a)]
  /\ backups' = IF DestOf(a) = Gone THEN backups
                ELSE [backups EXCEPT ![apply[a].cur][now] = DestOf(a)]
  /\ UNCHANGED <<disk, recs, excludes, repo, sync, counters>>

\* Read the branch tip, decrypt, render.
ApplyRead(a) ==
  LET content == tree[apply[a].snap[apply[a].cur].branch][apply[a].cur] IN
  /\ ApplyIn(a, "read") /\ content # Gone
  /\ apply' = [apply EXCEPT ![a].pc = "write", ![a].data = content]
  /\ UNCHANGED <<disk, recs, excludes, repo, backups, sync, counters>>

\* Replace the file; its metadata or its hooks may fail afterwards.
ApplyWrite(a) ==
  /\ ApplyIn(a, "write")
  /\ disk' = [disk EXCEPT ![apply[a].cur] = apply[a].data]
  /\ \E hookFailed \in BOOLEAN :
       apply' = [apply EXCEPT ![a].pc = "check", ![a].cur = NoRec, ![a].data = Gone,
                   ![a].seen = Gone, ![a].results = @ \cup {apply[a].cur},
                   ![a].failed = @ \/ hookFailed]
  /\ UNCHANGED <<recs, excludes, repo, backups, sync, counters>>

\* With any error, nothing is recorded.
ApplyAborts(a) ==
  /\ ApplyIn(a, "check") /\ apply[a].todo = {} /\ apply[a].failed
  /\ apply' = [apply EXCEPT ![a] = IdleApply]
  /\ UNCHANGED <<disk, recs, excludes, repo, backups, sync, counters>>

\* Mutant: a file deleted meanwhile is hashed all the same.
ApplyRecordMissing(a) ==
  /\ ApplyIn(a, "check") /\ apply[a].todo = {} /\ ~apply[a].failed
  /\ recs' = [f \in Files |-> IF f \in apply[a].results /\ recs[f] # NoRec
                              THEN [recs[f] EXCEPT !.hash = disk[f]] ELSE recs[f]]
  /\ apply' = [apply EXCEPT ![a].pc = "done"]
  /\ UNCHANGED <<disk, excludes, repo, backups, sync, counters>>

\* Mutant: the hash loaded with the snapshot is written back.
ApplyRecordStale(a) ==
  /\ ApplyIn(a, "check") /\ apply[a].todo = {} /\ ~apply[a].failed
  /\ recs' = [f \in Files |-> IF f \in apply[a].results /\ recs[f] # NoRec
                              THEN apply[a].snap[f] ELSE recs[f]]
  /\ apply' = [apply EXCEPT ![a].pc = "done"]
  /\ UNCHANGED <<disk, excludes, repo, backups, sync, counters>>

\* Otherwise the hash on disk is recorded for every result still tracked,
\* the skipped ones included.
ApplyRecord(a) ==
  /\ ApplyIn(a, "check") /\ apply[a].todo = {} /\ ~apply[a].failed
  /\ recs' = [f \in Files |->
       IF f \in apply[a].results /\ recs[f] # NoRec /\ disk[f] # Gone
       THEN [recs[f] EXCEPT !.hash = disk[f]] ELSE recs[f]]
  /\ apply' = [apply EXCEPT ![a].pc = "done"]
  /\ UNCHANGED <<disk, excludes, repo, backups, sync, counters>>

ApplyReturn(a) ==
  /\ ApplyIn(a, "done")
  /\ apply' = [apply EXCEPT ![a] = IdleApply]
  /\ UNCHANGED <<disk, recs, excludes, repo, backups, sync, counters>>

-----------------------------------------------------------------------------
\* A command is killed; what it wrote stays.
Crash ==
  /\ crashes < MaxCrashes /\ crashes' = crashes + 1
  /\ \/ \E s \in Syncers : Syncing(s) /\ sync' = [sync EXCEPT ![s] = IdleSync] /\ UNCHANGED apply
     \/ \E a \in Appliers : Applying(a) /\ apply' = [apply EXCEPT ![a] = IdleApply] /\ UNCHANGED sync
  /\ UNCHANGED <<disk, recs, excludes, repo, backups, now, ops, alone>>

Init ==
  /\ disk = [f \in Files |-> 0]
  /\ recs = [f \in Files |-> IF f \in Tracked0 THEN [hash |-> 0, branch |-> TrackBranch(f)]
                                               ELSE NoRec]
  /\ tree = [b \in Branches |-> [f \in Files |->
               IF f \in Tracked0 /\ b = TrackBranch(f) THEN 0 ELSE Gone]]
  /\ committed = {<<f, 0>> : f \in Tracked0} /\ manifest = Tracked0
  /\ excludes = {} /\ dropped = {} /\ alone = {}
  /\ backups = [f \in Files |-> [t \in Seconds |-> Gone]]
  /\ sync = [s \in Syncers |-> IdleSync] /\ apply = [a \in Appliers |-> IdleApply]
  /\ now = 0 /\ ops = 0 /\ crashes = 0

UserNext == \E f \in Files : Edit(f) \/ Delete(f) \/ Track(f) \/ Untrack(f)

SyncStep(s) ==
  \/ \E f \in Files : SyncAutoTrack(s, f) \/ SyncScan(s, f) \/ SyncRecord(s, f)
  \/ \E g \in Groups : SyncCommit(s, g)
  \/ SyncReload(s) \/ SyncRefresh(s) \/ SyncScanned(s) \/ SyncUntrack(s)
  \/ SyncManifest(s) \/ SyncReturn(s)

SyncTrouble(s) == SyncCommitFails(s) \/ SyncManifestFails(s) \/ \E f \in Files : SyncReadError(s, f)

ApplyStep(a) ==
  \/ \E f \in Files : ApplyCheck(a, f)
  \/ ApplyBackup(a) \/ ApplyRead(a) \/ ApplyWrite(a)
  \/ ApplyAborts(a) \/ ApplyRecord(a) \/ ApplyReturn(a)

Next ==
  \/ UserNext \/ Tick \/ Crash
  \/ \E s \in Syncers : SyncLoad(s) \/ SyncStep(s) \/ SyncTrouble(s)
  \/ \E a \in Appliers : ApplyLoad(a) \/ ApplyStep(a) \/ ApplyFails(a)

Spec == Init /\ [][Next]_vars

\* A running command goes on; `sysfig sync` of everything is run again and
\* again (the watch daemon, or a timer); reading a file that is tried again
\* and again succeeds in the end, and so does committing it.
Fairness ==
  /\ \A s \in Syncers :
       /\ WF_vars(SyncStep(s)) /\ WF_vars(SyncLoad(s) /\ sync'[s].pc = "walk")
       /\ \A f \in Files : /\ SF_vars(SyncScan(s, f))
                          /\ SF_vars(SyncCommit(s, GroupOf[f]) /\ f \in Pending(s))
  /\ \A a \in Appliers : WF_vars(ApplyStep(a) \/ ApplyFails(a))

FairSpec == Spec /\ Fairness

-----------------------------------------------------------------------------
(* Properties.                                                             *)

SyncLocals ==
  [pc : {"idle", "walk", "scan", "refresh", "commit", "done"},
   snap : [Files -> Records \cup {NoRec}], todo : SUBSET Files, scope : SUBSET Files,
   data : [Files -> Contents \cup {Gone}], dels : SUBSET Files,
   batch : SUBSET Files, unlink : SUBSET Files, branch : Branches]

ApplyLocals ==
  [pc : {"idle", "check", "backup", "read", "write", "done"},
   snap : [Files -> Records \cup {NoRec}], todo : SUBSET Files,
   cur : Files \cup {NoRec}, data : Contents \cup {Gone}, seen : Contents \cup {Gone},
   force : BOOLEAN, failed : BOOLEAN, results : SUBSET Files]

TypeOK ==
  /\ disk \in [Files -> Contents \cup {Gone}]
  /\ recs \in [Files -> Records \cup {NoRec}]
  /\ excludes \subseteq Files /\ manifest \subseteq Files
  /\ dropped \subseteq Files
  /\ tree \in [Branches -> [Files -> Contents \cup {Gone}]]
  /\ backups \in [Files -> [Seconds -> Contents \cup {Gone}]]
  /\ committed \subseteq Files \X Contents
  /\ alone \subseteq Syncers \cup Appliers
  /\ now \in Seconds /\ ops \in 0..MaxOps /\ crashes \in 0..MaxCrashes
  /\ sync \in [Syncers -> SyncLocals]
  /\ apply \in [Appliers -> ApplyLocals]

Overwrites(a) ==
  apply[a].pc = "write" /\ apply'[a].pc = "check" /\ disk' # disk

Saved(f, c) == <<f, c>> \in committed \/ \E t \in Seconds : backups[f][t] = c

\* What Apply found when it came to back a file up it never destroys: when
\* it renames the new content into place, that content is committed or in a
\* backup, whatever Syncs, Applies, edits and same-second backups happened
\* since.  Only an edit made after the backup can be lost.
NothingSeenIsLost ==
  [][\A a \in Appliers : Overwrites(a) /\ DestOf(a) = apply[a].seen
        => DestOf(a) = Gone \/ Saved(apply[a].cur, DestOf(a))]_vars

\* A Sync that nothing disturbed and that met no error leaves every file it
\* was called for in agreement on disk, in its record and on its branch, or
\* deleted everywhere, and the manifest lists whatever is tracked.
SyncSettles ==
  \A s \in Syncers : sync[s].pc = "done" /\ s \in alone =>
    /\ \A f \in sync[s].scope :
         IF disk[f] = Gone THEN recs[f] = NoRec /\ \A b \in Branches : tree[b][f] = Gone
         ELSE recs[f] # NoRec /\ recs[f].hash = disk[f] /\ tree[recs[f].branch][f] = disk[f]
    /\ TrackedIn(recs) \subseteq manifest

\* An undisturbed, forced Apply without errors leaves disk, record and branch
\* in agreement for every file it was asked for.
ApplySettles ==
  \A a \in Appliers : apply[a].pc = "done" /\ a \in alone /\ apply[a].force =>
    \A f \in apply[a].results :
      recs[f].hash = disk[f] /\ tree[recs[f].branch][f] = disk[f]

\* A file that Sync untracked because it was deleted, and that nobody tracked
\* again, is in no branch tip: the deletion is committed before the record
\* goes, so a crash in between cannot leave a ghost to be deployed.
DeletedMeansGone ==
  \A f \in dropped : recs[f] = NoRec => \A b \in Branches : tree[b][f] = Gone

\* Once the Applies stop, every file that stays tracked ends up committed as
\* it is on disk, in spite of edits during a Sync, failed commits, unreadable
\* files and killed commands before.
Converges ==
  <>[](\A a \in Appliers : ~Applying(a)) =>
     <>[](\A f \in Files : recs[f] # NoRec => tree[recs[f].branch][f] = disk[f])

\* `apply` refuses to overwrite a DIRTY file: without --force it only ever
\* replaces content that has been committed.
DirtyIsRefused ==
  [][\A a \in Appliers : Overwrites(a) /\ ~apply[a].force /\ DestOf(a) # Gone
        => <<apply[a].cur, DestOf(a)>> \in committed]_vars

\* What is in a directory tracked with --local stays on local/ branches.
LocalStaysLocal ==
  \A f \in LocalFiles : tree["track"][f] = Gone

-----------------------------------------------------------------------------
(* The inductive invariant behind NothingSeenIsLost (SyncApplyProofs).     *)

\* What a Sync is about to commit was tracked when it loaded its snapshot.
SnapInv ==
  \A s \in Syncers :
    IF sync[s].pc = "walk" THEN Pending(s) = {}
    ELSE sync[s].todo \cup Pending(s) \subseteq TrackedIn(sync[s].snap)

\* Where an Apply is in its file.
CurInv ==
  \A a \in Appliers :
    /\ apply[a].todo \subseteq TrackedIn(apply[a].snap)
    /\ apply[a].pc \in {"backup", "read", "write"} =>
         apply[a].cur \in TrackedIn(apply[a].snap)

\* Everything in a branch tip, or read from one, was committed.
CommittedInv ==
  /\ \A b \in Branches, f \in Files : tree[b][f] # Gone => <<f, tree[b][f]>> \in committed
  /\ \A a \in Appliers : apply[a].pc = "write" => <<apply[a].cur, apply[a].data>> \in committed

\* The next edit's content has been seen nowhere.
FreshInv ==
  /\ \A f \in Files : disk[f] # Gone => disk[f] <= ops
  /\ \A f \in Files, c \in Contents : <<f, c>> \in committed => c <= ops
  /\ \A s \in Syncers, f \in Files : sync[s].data[f] # Gone => sync[s].data[f] <= ops
  /\ \A a \in Appliers : apply[a].seen # Gone => apply[a].seen <= ops

\* As long as the file still is what Apply saw, that content is saved.
SeenInv ==
  \A a \in Appliers :
    apply[a].pc \in {"read", "write"} /\ disk[apply[a].cur] = apply[a].seen
      => apply[a].seen = Gone \/ Saved(apply[a].cur, apply[a].seen)

IInv == TypeOK /\ SnapInv /\ CurInv /\ CommittedInv /\ FreshInv /\ SeenInv
=============================================================================
