# sysfig: models and proofs

sysfig keeps configuration files of a system in a bare git repository, one
branch per file or directory, next to a `state.json` with a record per tracked
file. Most of its difficulty is not in any one function but between them: a
watch daemon, cron jobs and a user's shell run the same commands at once,
editors change the files meanwhile, any command can be killed, and several
machines share one remote. The modules here model that part of the code in
TLA+; TLC checks them on small instances, and TLAPS proves the main safety
properties for every instance.

`PROJECT.json` is the index: components, runs, mutants, the source lines each
definition stands for, hazards, findings and theorems. Source paths below are
relative to `src/`.

## 1. The system

| Part | State it keeps | Operations | Hard because |
|---|---|---|---|
| state store (`internal/state`, `internal/fs/atomic.go`) | `state.json`, lock file | `Load`, `WithLock` | several processes, some of them root; kills between create, write, rename, chown, unlock |
| sync (`internal/core/sync.go`) | records, branches, manifest | `Sync`, auto-track, commit per group, manifest | reads a snapshot, then files, then commits, then records them one by one: every gap is a race |
| apply (`apply.go`), backups (`internal/backup`), hooks | disk, records, backups | `Apply`: check, back up, read, write, hook, record | overwrites user files; the check is stale when the write happens |
| track, untrack (`track.go`, `cmd_track.go`, `util.go`) | records, excludes | `Track`, `TrackDir`, `Untrack`, the scope of `sync` | five modes of a file, two kinds of host, files alone or in nested directories: which branch, which group, which denylist |
| git commits (`git.go`) | refs of the bare repository, a private index per call | `gitCommitToBranch` | six git processes in a row, each may fail; no lock, `update-ref` without old value |
| push, pull, bundles (`sync.go`, `bundle.go`) | git server, bundle file | `Push`, `Pull`, `BundlePush`, `BundlePull`, `bundleBootstrap` | scp writes in place; imports force branches one by one; pushes are refused branch by branch |
| bootstrap, deploy (`clone.go`, `deploy.go`) | repository and records of a new machine | `Clone`, seed, `Deploy` | pull errors are only reported; a failed bootstrap leaves a repository behind |
| watch (`watch.go`) | watched paths, pending changes | `Watch` loop | events of its own applies; pushes that fail are not tried again |
| config sources (`sources.go`, `cmd_source.go`, `cmd_profile.go`) | `sources.yaml`, cache repositories | source `pull`, `list`, `use`, `render` | a second producer of branches and records; owners looked up once, before the network |
| status (`status.go`) | none | three-way comparison of disk, record, branch | its verdict is what apply acts upon, some time later |
| snapshots (`snap.go`, `cmd_snap.go`) | snapshot directories | take, list, restore, undo, drop | no lock, copies in place, names by the second, deletion entry by entry |
| log and undo (`cmd_log.go`) | branches, disk, records | undo of files, undo to a commit | moves refs and files without a lock or an old value, whatever mode the file has |
| branch names (`git.go`: `resolveTrackBranch`, `SanitizeBranchName`, `BranchFor`) | none | pure | directory/file conflicts among refs, some of which do not exist yet |
| remote deploy, remote files (`remote_deploy.go`, `remote_fetch.go`) | none of its own | SSH sessions | partial deployments; records of one host reach another |
| templates, encryption (`template.go`, `crypto/`) | none | render, encrypt, decrypt | what is on disk is not what is in the repository |
| diff, doctor, audit (`diff.go`, `doctor.go`, `cmd_misc.go`) | none | read only | each decides in its own way whether a file is as it should be |
| init, tags, nodes, change attribution, file helpers | - | read only, one `WithLock`, or pure | - |

How they meet: every command loads `state.json` once (shared lock), works on
that copy, and writes single records back with `WithLock` (exclusive lock). No
lock covers the disk, the git repository or the sequence of a command's steps.
`Sync` and `source render` call `gitCommitToBranch`; `Apply`, `Status`, `Push`
and `BundlePush` read the refs it moves; `Deploy` is pull and apply; `Watch` is
sync and push behind a debounce timer.

What makes each part correct:

- *state store*: no update is lost, no reader sees half a file, root gives the
  file back, nobody waits for ever.
- *sync, apply*: nothing a user wrote and sysfig saw is lost; a quiet system is
  left in agreement (disk, record, branch); what is tracked gets committed; a
  deleted file does not come back.
- *git commits*: a commit is atomic, and changes only what its caller asked for.
- *push, pull, deploy, watch*: `--local` never leaves; an acknowledged push
  stays; followers never diverge; deploying again and again converges.
- *track, sync, undo, deploy --host together*: the files of a directory share a
  branch; what track reports as tracked is stored; a record of a denied path
  stores nothing; after a successful sync no other command complains.
- *snapshots*: a finished snapshot is whole, and stays so; a restore that
  reports success has restored; an undo in a directory, without `--id`, stays
  in it.
- *config sources*: renders respect owners, leave branch and record consistent,
  win over drift in the end; hooks run after what they are for has changed.

## 2. The modules

| Module | Models | Variables and the code they stand for |
|---|---|---|
| `AtomicStore` | what the state store promises | `store`, and per process the call and its outcome |
| `StateStore` | `state.go`, `atomic.go`, one action per system call others can see | `disk` and `fileOwner` of `state.json`; `lockOwner`, `held` of the lock file; `pc`, `op`, `mem`, `tmp`, `ret` are the locals of `Load` and `WithLock` |
| `SyncApply` | `Sync`, `Apply`, `Track`, `Untrack`, `Backup` on one machine | `disk`; `recs` and `excludes` of `state.json`; `tree` the branch tips; `manifest`; `backups`; `sync`, `apply` the locals of every command |
| `BranchStore` | what `gitCommitToBranch` promises | `tips`, and per caller the commit it is in |
| `GitRefs` | `gitCommitToBranch`, one action per git process, under the Syncs that call it | `refs`; `disk`, `recorded`; `work` the locals of a call |
| `Replication` | several machines and a remote; a command is the sequence of its phases | `server`, `bundle`; per machine `hasRepo`, `repo`, `disk`, `recorded`, `pending`, `watched`; `work` what every process is running; `mixed` says that two uploads overlap; `acked` is history |
| `Sources` | source `pull`, `list`, `use` and `render` (with `--values`) and the profiles' `post_apply` hooks, next to users, Sync and Apply | `remote`, `published`, `cached` the templates; `activations` of `sources.yaml`; `disk`, `tree`, `records`; `stale` the files that changed since their services last read them; `render`, `sync`, `apply` the locals |
| `Snapshots` | `snap.go`, one action per system call others can see, any number of processes | `disk`; `dirs`, `copies`, `manifests` of `snaps/`; `work` the locals; `begun`, `finished`, `dropped` are history |
| `Tracking` | the commands of one user over all kinds of files: `track`, `untrack`, `sync`, `apply`, `undo`, `deploy --host`, and what `status`, `diff`, `doctor`, `audit`, `log --dirty` say | `disk` of every host; `recs`, `excludes` of `state.json`; `refs`, `commits`, `manifest` of the repository |
| `*Proofs` | theorems about the module they are named after; `TrackingSyncProofs` extends `TrackingProofs` | |
| `MC*` | instances for TLC | |

The modules are layers of one another. The `WithLock` that `SyncApply`,
`Replication` and `Sources` take in one step is `StateStore`, and it may be one
step because `StateStore` implements `AtomicStore`. A commit is one step of
`SyncApply` and `Sources`; `GitRefs` opens it and implements `BranchStore`,
which also says what that one step hides: of two overlapping commits to one
branch, the later may rebuild the branch from the tip it saw before the earlier
one. A whole Sync or Apply is one phase in `Replication`, and one step per file
in `Sources`. `Tracking` takes every command in one step, since `SyncApply` and
`GitRefs` have shown what happens between the steps, and has instead what those
leave out: branch names, groups, modes of files, servers, and the commands that
only read.

Contents are numbers: every edit writes one never seen before, so that a
property can tell two of them apart, and a hash is the content it is of. A
branch in `Replication` is its history, a sequence of commits, so that
"descends from" is `IsPrefix`. Operators with the comment *Mutant* are the bugs
each property is shown to catch; no specification uses them.

Things the models say of the code that are easy to miss:

- `ApplyRecord` (SyncApply): Apply marks skipped DIRTY files as applied too, and
  records whatever is on disk; with one failed file it records nothing.
- `SyncRefresh` reads a file again after it compared it; `SyncRecord` dies
  on a record that was untracked meanwhile.
- `LookupFails` (GitRefs): the error of `rev-parse` is dropped, so a branch whose
  look-up fails is rebuilt from the empty tree.
- `Fetch` (Replication) moves no `track/` branch: a bare clone has no fetch
  refspec for them. Only bundles deliver anything to a deployed machine.
- `Publish` (Replication): of two uploads at once either file, or a torn one, may
  be left for good.
- `Push` is accepted or refused branch by branch (no `--atomic`); `Import` moves
  one ref at a time and always by force.
- `SyncFound` (Tracking): a sync that finds no record to sync, for the host or the
  directory asked for, is a sync of everything.
- `SyncGroup` (Tracking) commits a group to the branch of one of its files,
  whichever the iteration over the map puts first; all orders are taken.
- `ApplyCmd` (Tracking) writes the files of servers to this machine;
  `RemoteDeploy` writes the files of any host to the host it is given, and does
  not render templates; `Restore` writes the bytes of the branch, ciphertext
  included.
- `Listings` (Tracking): a look-up of the branches that fails, or takes longer than
  5 s, counts as one that found none, so that a name is recorded as it is.
- `UndoRestores` (Snapshots): an empty list of IDs stands for all files; with
  `--id` undo does not ask for the directory. `TakeOpen` passes over a file that
  cannot be opened, for whatever reason, and keeps the hash of its record for it.
- `ChownStateFails`, `ChownLockFails` (StateStore): a root process that cannot give
  a file back reports success.
- `ApplyChecks`, `ApplyReads`, `ApplyWrites` (Sources): what an Apply has checked
  may be edited, rendered or committed before it is replaced.
- `UpdateSourceRecord` (Sources) records the hash of the rendering while the
  disk still has the previous one.

## 3. The runs

Distinct states are those TLC reports; each run finishes in two or three minutes.

| Run | Instance | What it checks |
|---|---|---|
| `state_store` | two users and root, one record, callbacks that add and remove it; 55,405 states | `NoLostUpdate`, `StateFileWhole`, `SharedLockFreezesFile`, `NoTempLeftBehind`, `OwnershipRestored`, `CallsReturn`, and that it implements `AtomicStore` |
| `sync_apply` | one file, a Sync and an Apply at once, two user operations, a clock of two seconds, one kill; 1,285,731 states | `NothingSeenIsLost`, `ApplySettles`, `DeletedMeansGone` |
| `sync_group` | a tracked directory with a file and a new encrypted one, and a file of its own; commit, read and manifest errors at any time; 82,084 states | `SyncSettles`, `Converges` |
| `git_refs` | two committers, two files of one branch, two edits or deletions, one failure or kill; 676,468 states | `HistoryHonest`, `Heals`, and that it implements `BranchStore` |
| `replication` | a publisher with shell and watcher, a second machine; one shared and one `--local` file; over git, scp and a local bundle; 242,416 states | `LocalStays`, `AckedStays`, `FollowersFollow`, `Converges` |
| `sources` | one file that two profiles declare, three possible activations, a render, a Sync and an Apply; three operations, one failure; bundle and git sources; 1,805,438 states | `RenderSettles`, `OwnersKept`, `RenderingPrevails`, `HooksCatchUp` |
| `snapshots` | two processes, two files, two takes in the same second or two; one edit, failure or kill; 4,671,093 states up to exchange of the processes | `TakenIsWhole`, `RestoreBringsBack`, `UndoStaysInScope` |
| `tracking` | three files of this machine in nested directories, one name with a dot, one denied; one file of a server; five commands, one of them an edit, three different commits; 200,982 states | `GroupsStayTogether`, `TrackKeepsDeniedOut`, `SyncCures`, `TrackStores` |

Each passing run but `sync_group` also checks its module's `TypeOK`. Four more
runs show that the code does not do what a document or comment says of it:

| Run | Property | What TLC finds |
|---|---|---|
| `apply_dirty` | `DirtyIsRefused` | the first plain `apply` skips an edited file and records it, the second overwrites it (`apply.go:122`) |
| `local_leak` | `LocalStaysLocal` | a new file in a `--local` directory is tracked without the flag and takes its siblings to a `track/` branch (`sync.go:375`) |
| `sync_pull` | `PendingWaits` | `sync --pull` commits the old file over the version it has just pulled (`sync.go:479`) |
| `template_lost` | `RepoKeepsTemplate` | `apply` renders a template to the path it is tracked at, and the next sync commits the rendered copy as the template (`apply.go:240`) |

More statements are in the modules that the code does not keep, and that no
run checks:

- `EncryptedNotCompared` (`Tracking`): `status --fetch` compares an encrypted file
  of a server with the ciphertext in the branch, and says SYNCED while nothing
  is committed and PENDING ever after (`status.go:168`).
- `PreservesOthers` (`GitRefs`): committing a deletion renames siblings whose path
  git prints in quotes (`git.go:296`).
- `EveryFileConverges` (`Replication`): after the publisher removed one file,
  other files of a machine stay DIRTY for ever (`apply.go:112`).
- `UntouchedIsNotDirty` (`Sources`): after a second render a file nobody edited is
  DIRTY (`sources.go:670`).
- `ApplyDiscardsDrift` (`Sources`): one plain `apply` brings a source-managed file
  back to its rendering, as `docs/config-sources.md:602` says. It skips the
  file as DIRTY and records it (`apply.go:122`, the defect of `apply_dirty`), so
  that it takes a second one.
- `UndoStaysUnderDir` (`Snapshots`): undo restores files under the directory only,
  as `snap.go:401` and `cmd_snap.go:229` say. With `--id` it restores the given
  files wherever they are (`snap.go:432`).

Two more ways around the denylist are in no module. The manifest does not say
that a record is hash-only (`sync.go:869`), so a machine that bootstraps from
it gets a plain record of a denied file (`clone.go:263`) and its next Sync commits the
content; and `source render` commits to whatever path a profile declares
(`sources.go:539`). `TrackKeepsDeniedOut` is about the records that track and the walk
of Sync make, and not about these.

### Bounds, and why they are enough

- `state_store` has no counters: calls, failures and kills go on for ever. Two
  users are needed for a lost update, root for the ownership of lock and file;
  a third process is already there to hold the lock while they wait. The record
  set is one id: updates interfere through the whole file, whatever is in it.
- `sync_apply`: operations (`MaxOps`) are the edits, deletions, tracks and
  untracks of the user. Two are enough for an edit before a check and another after
  it, or for a deletion and a re-creation; two clock seconds for backups of the
  same and of different seconds; one kill because a killed command leaves
  nothing running. Commands themselves are repeated without bound. `sync_group`
  has what one file cannot show: a group commit that contains additions and
  deletions, auto-tracking, encrypted files that are always committed, and a
  group that fails while another succeeds.
- `git_refs`: two committers on one branch are what can overlap; with two files
  one commit can put back what the other changed. One branch only, because calls
  for different branches share no state of the model (git's index file is
  private to a call).
- `replication`: bounds are per kind of remote (`MaxOps`, `MaxFailures` in
  `MCReplication`): one edit and one failure over git and scp, two edits over a
  local bundle. One failure can hit any phase, kill any command, or tear an
  upload. `MaxCommits` (4) cuts off a loop without end: bootstrap seeds the record
  of a file that is gone, Sync commits its deletion once more, and so on. With
  6 commits TLC gives the same answers.
- `sources`: three operations are enough for publish, activate and edit in any
  order; the commands repeat without bound. One render at a time: see below.

- `snapshots`: two takes are what can share a name or be confused by undo, in
  one second or in two; names compare as a whole, so one label is enough. One operation of
  someone else (an edit, a failure, a kill) can come between any two system
  calls; restores, undos and drops are repeated without bound.
- `tracking`: `MaxSteps` commands. Five are enough to track a file and the
  directory it is in, sync both, edit and apply or undo; every property had its
  counterexamples, with the mutants or with definitions since corrected, within
  four.
  Mode flags are given one at a time. Servers are within reach or not, chosen
  for each command.

Deadlock is checked except where the system may really come to rest: in
`git_refs` nothing is to be committed once everything agrees and the operations
are used up; in `sources` nothing is to be done as long as nothing is tracked
or activated; `tracking` and `template_lost` end with the last command, and
`snapshots` can end with no take left and the last snapshot dropped.

### Fairness

- `StateStore`: weak fairness of the steps of a running process (the scheduler),
  strong fairness of getting the lock (the kernel queues waiters). A killed
  process takes no step. `CallsReturn` is conditional on shared holders making
  way now and then: overlapping readers can starve a writer, and flock does
  not promise otherwise.
- `SyncApply`: a running command goes on; `sysfig sync` of everything is run
  again and again (watch or a timer); reading a file or committing a group that
  is tried again and again succeeds at some point. Applies need not run, which
  is why `Converges` is about systems in which they have stopped.
- `GitRefs`: a running command goes on, Sync is run again. Failures are
  bounded, so a failing git does not fail for ever.
- `Replication`: running commands go on; a publisher with something unpublished
  gets to `sync --push` again and again; `deploy` and, while nothing is tracked,
  `bootstrap` are run again and again. Nothing is assumed of `watch`, whose
  failed pushes are not retried.
- `Sources`: a running Apply goes on, and a plain `apply` is run again and
  again. Renders and Syncs need neither be run nor go on: a render that stands
  still is one that was killed, and `RenderingPrevails` has as its hypothesis that
  renderings of all profiles finish again and again. It also takes one render at a time: with two renders of two
  profiles that claim one file at once, TLC shows the file's owner alternating
  for ever, since each has looked the owner up before the other took it.

The runs `sync_apply`, `snapshots` and `tracking` check safety only, so they are
under `Spec`: in `Snapshots` nothing need ever go on, and in `Tracking` the user
decides.

## 4. The proofs

The theorems hold for any number of processes, files, branches, machines and
operations, under the assumption on the constants that each module states
(`StoreAssumption`, `GitAssumption`, `SnapAssumption`, ...). They do not use the bounds, which are
constants like any other.

Each goes by an inductive invariant of the component's module: that `Init`
implies it and that `[Next]_vars` keeps it are lemmas with one step per action,
and the property follows from it. Invariants that only one theorem needs are
stated next to it, on top of `IInv` or `TypeInv`.

| Module | Theorems | Why the property alone is not inductive |
|---|---|---|
| `StateStoreProofs` | `TypeCorrect`, `NoUpdateIsLost`, `NeverTorn`, `LockedLoadIsCurrent`, `TempIsTransient`, `UserKeepsStateFile`, `RefinesAtomicStore` | `LockInv`: who is in the critical section holds the exclusive lock, and a lock so held is held by nobody else; `CallInv`: which outcome is decided at which point; `CopyInv`: what the copy in memory and the temp file have to do with `state.json` |
| `SyncApplyProofs` | `TypeCorrect`, `NothingSeenIsEverLost` | `SeenInv`: as long as the file still is what Apply saw, that content is saved; it survives backups of the same second because every edit is a content of its own (`FreshInv`), survives the read because what is in a tip was committed (`CommittedInv`); `SnapInv` and `CurInv` say that what a command works on was tracked |
| | `DroppedFilesStayGone` | `DropInv`: what a Sync has read and is about to commit, or has in the index, is none of the files that were dropped; the file whose deletion it has committed is gone from the tip until its record goes. `TrackInv`: without `--local` files all is on one branch per group |
| | `UndisturbedSyncSettles` | `SettleInv` gives every phase of an undisturbed Sync its own statement (`WalkOK`, `ScanOK`, `CommitOK`, `DoneOK`): each file of its scope is settled, stored and not yet recorded, removed and not yet dropped, or still among what is left to do, with what was read of it being what is on disk |
| | `UndisturbedApplySettles` | `ApplyInv`: the snapshot of an undisturbed, forced Apply is still true, what it has written is what the record's branch holds, and what it is about to write is too |
| `GitRefsProofs` | `TypeCorrect`, `HistoryIsHonest`, `CommitsAreAtomic` | `BuildInv`: index and new commit are overlays of the parent that was looked up; `BasesInv`: a call that looks up its parent only now knows the tip among the bases `BranchStore` offers |
| `ReplicationProofs` | `TypeCorrect`, `LocalNeverLeaves`, `PushedStays` | `FileInv`: refs left to import come with their bundle; `LocalInv`: what a command holds in its hands, exported or downloaded, has no `local/` branch. `IsPrefix` is a partial order, and no push without force moves a branch but forward |
| | `FollowersNeverLead` | `FollowInv`: every follower's branch, the bundle and every copy of it in a command's hands is a history that some owner has or has gone on from, and no follower ever runs a phase that commits |
| `SourcesProofs` | `TypeCorrect`, `OwnersAreKept` | `OwnerInv`: to a render that nothing disturbs, a file is owned by whom it looked up, by nobody, or by a profile it renders |
| | `UndisturbedRenderSettles` | `SettleInv`: what is left to do is the rest of the activations (`Queue`), the cache is pulled, the owners it remembers are those on record, and `RenderSettles` already holds of the activations behind it, but for the file between commit and record |
| `SnapshotsProofs` | `TypeCorrect`, `TakenWhole`, `BringsBack`, `UndoStays` | `TakesInv`: takes have numbers and a process of their own, and nothing is there that nobody took; `WholeInv`: while a take runs, its directory is its hash table, but for the file it is at; `RestoreInv`: what a restore has come to is back, the file it is at is torn, and others may only have written what it was told of; `ScopeInv`: undo never hands over an empty list |
| `TrackingProofs` | `TypeCorrect`, `TrackedDeniedStaysOut`, `GroupsShareBranch` | `TrackInv`: no two branches are in each other's way, trees hold no denied path, and a record's branch is where `resolveTrackBranch` leads from the name its mode, host and directory give (`RecordFits`, `Reaches`), with the branches there are now and not only with those there were when it was made, or is that name itself where the look-up failed |
| `TrackingSyncProofs` | `TrackedIsStored` | an action property: `ResolveAvoids` says that the new name is in the way of no branch, so that no commit of the one group fails (`GroupSyncs`), and `RunShows` that each then shows its file |
| | `SyncsCure` | `SyncedInv`: after a settled Sync every record with content in the repository is of what is on disk, every file of a group with one branch is in that branch as it is on disk, the manifest lists all records, and what is new is denied (`Synced`). It is kept because `settled` is false after every other command |

`UserKeepsStateFile` is about a WithLock whose chown succeeded, `UndoStays` about an
undo without `--id`, and `TrackedIsStored` about look-ups of branches that answered,
as their properties say. Some theorems have hypotheses besides the assumptions
on the constants. They are instances the code does run in, and without them TLC
refutes the property:

- `DroppedFilesStayGone` and `UndisturbedSyncSettles` take `LocalFiles = {}`. A
  group with a `--local` file is committed to the branch of one of its files
  (`sync.go:552`), which need not be the branch of the next.
- `DroppedFilesStayGone` also takes one Sync at a time. Of two, one may have
  read the file before it was deleted and commit that between the other's
  commit of the deletion and its dropping of the record: the file is back in the
  branch, and no record leads there any more. With two `Syncers`
  TLC finds this in the instance of `sync_apply`.
- `FollowersNeverLead` takes `OneWay`: over a bundle, machines that own files
  sync, push and watch, and the others bootstrap and deploy. This is what the
  instance of `replication` is. A follower that syncs, too, has commits of its own.
- `SyncsCure` takes `RemotePlain`: files of servers are tracked plainly or as
  templates. An encrypted one is PENDING to `status --fetch` for ever; a `--local`
  one is STALE to `audit`, which counts as drift; a changed `--hash-only` one is
  DIRTY to `diff`, which then finds no content of it.
- `SyncsCure` also takes `Unlike`: no two paths differ only in leading dots, which
  `SanitizeBranchName` turns into `dot-`. Two such have one branch for two groups,
  and `log --dirty` lists it for the one when the other is settled.
  Both are so in the instance of `tracking`.
- The theorems about history and commits of `GitRefs` take `QuotedPaths = {}`:
  with such paths they are false.

`TrackingAssumption` says that names, of files and of servers, are distinct
from the other tokens of branch names, that no path is a file and a directory,
and that there are finitely many paths and servers. Names that contain `--`
or `dir` are thus not covered; `DotNames` maps names onto others, injectively
or not.

`RefinesAtomicStore` and `CommitsAreAtomic` are refinements: the variables of
the abstract module are given as expressions over the detailed one (`INSTANCE
... WITH` in `StateStore` and `GitRefs`), initial states map to initial states
and every step to a step of the abstract module or a stutter. In `StateStore`
the rename is the step that takes effect; in `GitRefs` it is `update-ref`, and
its base is whichever tip had been looked up.

`SnapshotsProofs` leans on the order of the system calls: `snap.json` is written
last, so that a snapshot that can be seen is complete. The history variables
`begun`, `finished`, `dropped` and, per process, `others` are what the theorems
speak of, and no action reads them but to give a take its number and time.

`TrackingProofs` is about commands that are loops: over records, found files,
groups, branches. In the module each is a fold, and in a proof a fold is used only by
what it keeps: `FoldKeeps` and `FoldLeftKeeps` say that a set which every step
of the fold maps to itself has the result in it. `FoldExists` and
`FoldLeftExists` first show that the recursive functions by which folds are
defined exist, by the well-foundedness of the strict subsets of a finite set.
What `resolveTrackBranch` does about the branches is a fold over them in the
order of `git for-each-ref`. `Before` is shown to be a strict order, so that
there is a last branch, and from there `RoundAvoids` and `ResolveAvoids` follow: a name that
has been moved out of the way of a branch is not moved into that of an earlier
one. `GroupsShareBranch` does not follow from the commits at all, but from
`ReachesOne`: two names that start as one and end as branches that can stand
next to each other are one.

`TrackingSyncProofs` has to compare two loops: Sync goes over the groups, in some
order and with some file of each in the lead, and the other commands over the
records. `GroupShows` and `RunShows` say what a run of `SyncGroup` over any
sequence of groups leaves in the branches and records: the files of the groups
it has come to, as they are on disk, and for all else what was there. The groups do not undo one
another because a branch belongs to one group (`OneBranchOneGroup`), and that is
so because all that `resolveTrackBranch` puts into a name is `--` and `dir`:
`FilledOne` says that from what is left of a name without these only one base can have
come. What is true of each file then is what `status`, `diff`, `doctor`,
`audit` and `log --dirty` ask, one by one.

Only model-checked:

- liveness, which TLAPS cannot derive from fairness: `CallsReturn`, `Converges`
  twice, `Heals`, `RenderingPrevails`, `HooksCatchUp`;
- what the counterexamples show.

## 5. What is not modelled

- *Connections to servers*: sudo, the SSH configuration, and a file that is cut
  short on the server when the session dies. `Tracking` has which records and
  renderings reach which host; each file is written or not.
- *Encryption, templates, hashing, metadata* as such: transformations of data.
  What matters of them, that a ciphertext never compares as unchanged, how often
  a content is encrypted and whether it is rendered, is in `SyncApply` and
  `Tracking`; metadata and its drift are left out.
- *init, tags, nodes*: each is one `WithLock` before or beside everything else;
  the callbacks of `StateStore` stand for them.
- *change attribution* and all of *log* but `--dirty`: output only. Doctor's
  checks of the environment (git, keys, permissions, remote).
- *Flags, dry runs, filters, output*: the command line is represented by which
  functions a command calls and in which order (`Program`, `MayBegin`).
- In modelled parts: hook allow-lists, symlinks, tags, `--id` and
  `track --force` over a profile's ownership, several mode flags at once, names
  one of which is a prefix of another (`a` and `ab`), a name that occurs twice
  in a path (`ReplaceAll` is applied where it first occurs), the text of
  templates, commit authors, debounce times. Read errors of Sync are in
  `SyncApply` only. The manifest of `Tracking` is the set of IDs in it, and the
  records that bootstrap makes of it are in `Replication` as tracked or not: that
  flags (`HashOnly`, `LocalOnly`) are lost on the way is in neither.

A model of `sources.yaml` being read and written without a lock would show lost
activations at once; `Sources` writes it in one step, and the hazard is listed
without a property.

## 6. Plan

The order was by how much depends on a part: the state store first, since all
others rely on its atomicity; then sync and apply, where content can be lost;
commits; replication; sources; snapshots; and the commands of one user over all
kinds of files (`Tracking`), which ties the rest together. Each went through TLC
before its proofs.

Left, in this order:

1. `source add`, and `sources.yaml` as a file that is read and written without a
   lock, in `Sources`.
2. Allow-list and time-outs of hooks in `SyncApply`.
3. Bootstrap from the manifest, with the flags it loses, and the records of
   renders in `Tracking`.
4. File metadata and its drift in `Tracking`.

Every safety property of a passing run is a theorem, some for undisturbed
commands or one kind of remote only. Next to prove: the safety part of what
liveness rests on, that a round of the watched commands which nothing disturbs
ends in agreement, in `GitRefs` and `Replication`; and `DroppedFilesStayGone` for
files with `--local` in groups that have one branch.
