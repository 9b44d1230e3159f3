---------------------------- MODULE Replication ----------------------------
(***************************************************************************)
(* Several machines and one remote: Sync, Push, Pull, Clone, Deploy and    *)
(* the loop of Watch, over a git server or a bundle file (internal/core:   *)
(* sync.go, bundle.go, clone.go, deploy.go, watch.go).                     *)
(*                                                                         *)
(* A command is the sequence of its phases; between two phases every other *)
(* command may run, and a phase may fail or the command be killed.  What   *)
(* SyncApply and GitRefs show in detail is one phase here: committing what *)
(* changed, applying.  Every file has a branch of its own; a branch is its *)
(* history, so that one commit descends from another iff its history is a  *)
(* prefix.  Every edit writes a content of its own.                        *)
(***************************************************************************)
EXTENDS Naturals, Sequences, SequencesExt

CONSTANTS
  Machines,
  Owners,       (* machines that have tracked the files                    *)
  Procs,        (* shells and watchers                                     *)
  MachineOf,    (* [Procs -> Machines]                                     *)
  Kinds,        (* remotes to look at: subset of "git", "local", "ssh"     *)
  MayRun,       (* [Procs -> [Kinds -> SUBSET Commands]]                   *)
  Shared,       (* files on track/ branches                                *)
  Local,        (* files tracked with --local                              *)
  Manifest,     (* the branch of sysfig.yaml                               *)
  Touched,      (* <<machine, file>> pairs that users edit                 *)
  MaxOps,       (* bound, per kind: edits, deletions, tracks               *)
  MaxCommits,   (* bound: commits of a branch                              *)
  MaxFailures,  (* bound, per kind: failed phases and killed commands      *)
  Gone,         (* no such file; no such entry in the tip                  *)
  Unknown,      (* CurrentHash is empty                                    *)
  Untracked,    (* no record                                               *)
  Torn,         (* a bundle that git bundle verify rejects                 *)
  NoFile        (* no bundle                                               *)

Files    == Shared \cup Local
Refs     == Files \cup {Manifest}
Pushable == Shared \cup {Manifest}
Contents == Nat
Content  == Contents \cup {Gone}
Commits  == [by : Machines, content : Content, lists : SUBSET Files]
Exports  == [Refs -> Seq(Commits)]

Commands == {"sync", "sync --push", "sync --push --force", "sync --pull",
             "deploy", "bootstrap", "watch"}
Phases   == {"commit", "manifest", "push", "export", "truncate", "publish", "fetch",
             "download", "import", "init", "clone", "seed", "apply"}

ASSUME ReplicationAssumption ==
  /\ Owners \subseteq Machines /\ Touched \subseteq Machines \X Files /\ MachineOf \in [Procs -> Machines]
  /\ Kinds \subseteq {"git", "local", "ssh"} /\ MayRun \in [Procs -> [Kinds -> SUBSET Commands]]
  /\ Shared \cap Local = {} /\ Manifest \notin Files
  /\ {MaxOps, MaxFailures} \subseteq [Kinds -> Nat] /\ MaxCommits \in Nat
  /\ {Gone, Unknown, Untracked} \cap Nat = {} /\ Gone \notin {Unknown, Untracked}
  /\ Unknown # Untracked /\ {Torn, NoFile} \cap Exports = {} /\ Torn # NoFile

VARIABLES
  kind,       (* scheme of remote.origin.url                               *)
  server,     (* the refs of the git server                                *)
  bundle,     (* the bundle file                                           *)
  mixed,      (* the last upload began while another was under way         *)
  acked,      (* what the last push of a machine that succeeded has sent   *)
  hasRepo,    (* machines with a repo.git                                  *)
  repo,       (* refs/heads of every machine                               *)
  disk,       (* the files of every machine                                *)
  recorded,   (* CurrentHash in the state.json of every machine            *)
  pending,    (* machines whose watcher has seen a change                  *)
  watched,    (* trackedFiles of the watcher of every machine              *)
  work,       (* the command every process runs                            *)
  ops, failures

remoteVars  == <<server, bundle, mixed, acked>>
machineVars == <<hasRepo, repo, disk, recorded, pending, watched>>
vars        == <<kind, remoteVars, machineVars, work, ops, failures>>

NoRefs == [r \in Refs |-> <<>>]
Idle   == [cmd |-> "sync", todo |-> <<>>, file |-> NoFile, left |-> {},
           listed |-> {}, made |-> FALSE]

Tip(m, f)   == IF repo[m][f] = <<>> THEN Gone ELSE Last(repo[m][f]).content
Listed(m)   == IF repo[m][Manifest] = <<>> THEN {} ELSE Last(repo[m][Manifest]).lists
Tracked(m)  == {f \in Files : recorded[m][f] # Untracked}

-----------------------------------------------------------------------------
(* The user.                                                               *)

CanOp == ops < MaxOps[kind] /\ ops' = ops + 1

Write(m, f, content) ==
  /\ CanOp
  /\ disk' = [disk EXCEPT ![m][f] = content]
  /\ pending' = IF f \in watched[m] /\ content # Gone THEN pending \cup {m} ELSE pending
  /\ UNCHANGED <<kind, remoteVars, hasRepo, repo, recorded, watched, work, failures>>

Edit(m, f)   == Write(m, f, ops + 1)
Delete(m, f) == disk[m][f] # Gone /\ Write(m, f, Gone)

Track(m, f) ==
  /\ CanOp /\ m \in hasRepo /\ recorded[m][f] = Untracked /\ disk[m][f] # Gone
  /\ recorded' = [recorded EXCEPT ![m][f] = disk[m][f]]
  /\ UNCHANGED <<kind, remoteVars, hasRepo, repo, disk, pending, watched, work, failures>>

-----------------------------------------------------------------------------
(* Commands.                                                               *)

Pulling == IF kind = "git" THEN <<"fetch">> ELSE <<"download", "import">>
Pushing == CASE kind = "git"   -> <<"push">>
             [] kind = "local" -> <<"export", "publish">>
             [] kind = "ssh"   -> <<"export", "truncate", "publish">>
Setup(m) == IF m \in hasRepo THEN <<>>
            ELSE IF kind = "git" THEN <<"clone">> ELSE <<"init">> \o Pulling
Sync     == <<"commit", "manifest">>

\* Mutant: Deploy commits local changes before it applies.
ProgramDeploySyncs(m, cmd) ==
  CASE cmd = "sync"        -> Sync
    [] cmd = "sync --pull" -> Pulling \o Sync
    [] cmd = "deploy"      -> Pulling \o Sync \o <<"apply">>
    [] cmd = "bootstrap"   -> Setup(m) \o <<"seed", "apply">>
    [] OTHER               -> Sync \o Pushing

Program(m, cmd) ==
  CASE cmd = "sync"        -> Sync
    [] cmd = "sync --pull" -> Pulling \o Sync
    [] cmd = "deploy"      -> Pulling \o <<"apply">>
    [] cmd = "bootstrap"   -> Setup(m) \o <<"seed", "apply">>
    [] OTHER               -> Sync \o Pushing

\* What the CLI, or the debounce timer of Watch, asks before it starts.
MayBegin(m, cmd) ==
  /\ cmd = "bootstrap" => Tracked(m) = {}
  /\ cmd # "bootstrap" => m \in hasRepo
  /\ cmd = "watch" => m \in pending

Begin(p, cmd) ==
  LET m == MachineOf[p] IN
  /\ work[p].todo = <<>> /\ cmd \in MayRun[p][kind] /\ MayBegin(m, cmd)
  /\ work' = [work EXCEPT ![p] = [Idle EXCEPT !.cmd = cmd, !.todo = Program(m, cmd)]]
  /\ pending' = IF cmd = "watch" THEN pending \ {m} ELSE pending
  /\ UNCHANGED <<kind, remoteVars, hasRepo, repo, disk, recorded, watched, ops, failures>>

\* Watch is stopped and started: it looks at what is tracked now.
WatchStart(p) ==
  LET m == MachineOf[p] IN
  /\ "watch" \in MayRun[p][kind] /\ m \in hasRepo /\ work[p].todo = <<>>
  /\ watched[m] # Tracked(m) \/ m \in pending
  /\ watched' = [watched EXCEPT ![m] = Tracked(m)] /\ pending' = pending \ {m}
  /\ UNCHANGED <<kind, remoteVars, hasRepo, repo, disk, recorded, work, ops, failures>>

At(p, phase) == work[p].todo # <<>> /\ Head(work[p].todo) = phase

\* A finished command forgets its locals.
Goto(p, local) == work' = [work EXCEPT ![p] = IF local.todo = <<>> THEN Idle ELSE local]
Done(p)        == Goto(p, [work[p] EXCEPT !.todo = Tail(@)])

\* An error ends a command, but that of the pull in a Sync or a Deploy.
GiveUp(p) ==
  LET todo == work[p].todo IN
  Goto(p, [work[p] EXCEPT
    !.todo = IF work[p].cmd \in {"sync --pull", "deploy"} /\ Head(todo) \in {"fetch", "download", "import"}
             THEN SubSeq(todo, IF Head(todo) = "download" THEN 3 ELSE 2, Len(todo)) ELSE <<>>])

Fail(p) ==
  /\ work[p].todo # <<>> /\ failures < MaxFailures[kind] /\ failures' = failures + 1
  /\ (GiveUp(p) \/ work' = [work EXCEPT ![p] = Idle])
  /\ UNCHANGED <<kind, remoteVars, machineVars, ops>>

-----------------------------------------------------------------------------
(* Sync and Apply.                                                         *)

Missing(m) == {f \in Tracked(m) : disk[m][f] = Gone}
Changed(m) == {f \in Tracked(m) : disk[m][f] \notin {Gone, Tip(m, f)}}

\* A commit on each of the branches.
Extend(m, refs, content, lists) ==
  /\ \A r \in refs : Len(repo[m][r]) < MaxCommits
  /\ repo' = [repo EXCEPT ![m] = [r \in Refs |->
    IF r \in refs
    THEN Append(@[r], [by |-> m, content |-> IF r \in Files THEN content[r] ELSE Gone,
                       lists |-> lists])
    ELSE @[r]]]

Commit(p) ==
  LET m == MachineOf[p] IN
  /\ At(p, "commit")
  /\ Extend(m, Missing(m) \cup Changed(m), disk[m], {})
  /\ recorded' = [recorded EXCEPT ![m] = [f \in Files |->
       IF f \in Tracked(m) \ Missing(m) THEN disk[m][f] ELSE Untracked]]
  /\ Goto(p, [work[p] EXCEPT !.todo = Tail(@), !.listed = Tracked(m),
                             !.made = Missing(m) \cup Changed(m) # {}])
  /\ UNCHANGED <<kind, remoteVars, hasRepo, disk, pending, watched, ops, failures>>

\* Watch pushes only when its Sync has committed.
WriteManifest(p) ==
  LET m == MachineOf[p] listed == work[p].listed IN
  /\ At(p, "manifest")
  /\ IF listed \in {{}, Listed(m)} THEN repo' = repo
     ELSE Extend(m, {Manifest}, disk[m], listed)
  /\ IF work[p].cmd = "watch" /\ ~work[p].made THEN Goto(p, Idle) ELSE Done(p)
  /\ UNCHANGED <<kind, remoteVars, hasRepo, disk, recorded, pending, watched, ops, failures>>

Dirty(m) == {f \in Tracked(m) : recorded[m][f] # Unknown /\ disk[m][f] \notin {Gone, recorded[m][f]}}

\* Mutant: a file whose recorded hash is that of the tip needs no apply.
ApplySkipsRecorded(p) ==
  LET m     == MachineOf[p]
      due   == {f \in Tracked(m) \ Dirty(m) : recorded[m][f] # Tip(m, f)}
      taken == {f \in due : Tip(m, f) # Gone} IN
  /\ At(p, "apply")
  /\ disk' = [disk EXCEPT ![m] = [f \in Files |-> IF f \in taken THEN Tip(m, f) ELSE @[f]]]
  /\ recorded' = IF taken # due THEN recorded
                 ELSE [recorded EXCEPT ![m] = [f \in Files |->
                         IF f \in taken THEN Tip(m, f) ELSE @[f]]]
  /\ pending' = IF taken \cap watched[m] # {} THEN pending \cup {m} ELSE pending
  /\ Done(p)
  /\ UNCHANGED <<kind, remoteVars, hasRepo, repo, watched, ops, failures>>

\* Any file without content in its tip, and no record is updated.
Apply(p) ==
  LET m     == MachineOf[p]
      taken == {f \in Tracked(m) \ Dirty(m) : Tip(m, f) # Gone}
      fails == taken # Tracked(m) \ Dirty(m) IN
  /\ At(p, "apply")
  /\ disk' = [disk EXCEPT ![m] = [f \in Files |-> IF f \in taken THEN Tip(m, f) ELSE @[f]]]
  /\ recorded' = IF fails THEN recorded
                 ELSE [recorded EXCEPT ![m] = [f \in Files |->
                         IF f \in Tracked(m) THEN disk'[m][f] ELSE Untracked]]
  /\ pending' = IF taken \cap watched[m] # {} THEN pending \cup {m} ELSE pending
  /\ Done(p)
  /\ UNCHANGED <<kind, remoteVars, hasRepo, repo, watched, ops, failures>>

-----------------------------------------------------------------------------
(* Push.                                                                   *)

\* Mutant: git bundle create --all.
LeavesAll(m) == {r \in Refs : repo[m][r] # <<>>}

\* What Push and BundlePush send.
Leaves(m) == {r \in Pushable : repo[m][r] # <<>>}

Sent(m) == [r \in Refs |-> IF r \in Leaves(m) THEN repo[m][r] ELSE <<>>]

\* The push of m succeeded; if it was forced, nobody else can rely on theirs.
Ack(m, force) ==
  acked' = [n \in Machines |-> IF n = m THEN Sent(m)
              ELSE [r \in Refs |-> IF force /\ r \in Leaves(m) THEN <<>> ELSE acked[n][r]]]

\* Mutant: the refspecs of Push get the + that the comment above them speaks of.
PushPlus(p) ==
  LET m == MachineOf[p] IN
  /\ At(p, "push") /\ Ack(m, work[p].cmd = "sync --push --force") /\ Done(p)
  /\ server' = [r \in Refs |-> IF r \in Leaves(m) THEN repo[m][r] ELSE server[r]]
  /\ UNCHANGED <<kind, bundle, mixed, machineVars, ops, failures>>

\* The server takes every ref that moves forward, and refuses the others.
Push(p) ==
  LET m        == MachineOf[p]
      force    == work[p].cmd = "sync --push --force"
      accepted == {r \in Leaves(m) : force \/ IsPrefix(server[r], repo[m][r])} IN
  /\ At(p, "push")
  /\ server' = [r \in Refs |-> IF r \in accepted THEN repo[m][r] ELSE server[r]]
  /\ IF accepted = Leaves(m) THEN Ack(m, force) /\ Done(p) ELSE acked' = acked /\ GiveUp(p)
  /\ UNCHANGED <<kind, bundle, mixed, machineVars, ops, failures>>

Export(p) ==
  LET m == MachineOf[p] IN
  /\ At(p, "export")
  /\ IF Leaves(m) = {} THEN GiveUp(p)
     ELSE Goto(p, [work[p] EXCEPT !.todo = Tail(@), !.file = Sent(m)])
  /\ UNCHANGED <<kind, remoteVars, machineVars, ops, failures>>

\* scp truncates and writes in place: whoever reads meanwhile gets a part.
Truncate(p) ==
  /\ At(p, "truncate") /\ bundle' = Torn /\ Done(p)
  /\ mixed' = \E q \in Procs \ {p} : At(q, "publish")
  /\ UNCHANGED <<kind, server, acked, machineVars, ops, failures>>

\* The rename of a local copy, or the end of the upload; uploads that meet may
\* leave a mixture of theirs, and the last to end does not repair it.
Publish(p) ==
  /\ At(p, "publish") /\ Done(p)
  /\ bundle' = work[p].file \/ (mixed /\ bundle' = Torn)
  /\ UNCHANGED <<kind, server, mixed, acked, machineVars, ops, failures>>

-----------------------------------------------------------------------------
(* Pull and Clone.                                                         *)

\* git fetch origin moves at most refs/remotes and, through advanceBareHEAD,
\* the branch HEAD is on, which no record reads: no track/ branch moves.
Fetch(p) ==
  /\ At(p, "fetch") /\ (Done(p) \/ GiveUp(p))
  /\ UNCHANGED <<kind, remoteVars, machineVars, ops, failures>>

Download(p) ==
  /\ At(p, "download")
  /\ IF bundle \in {NoFile, Torn} THEN GiveUp(p)
     ELSE Goto(p, [work[p] EXCEPT !.todo = Tail(@), !.file = bundle,
                                  !.left = {r \in Refs : bundle[r] # <<>>}])
  /\ UNCHANGED <<kind, remoteVars, machineVars, ops, failures>>

\* git fetch moves one ref after the other, whatever they were.
Import(p) ==
  LET m == MachineOf[p] IN
  /\ At(p, "import")
  /\ \E r \in work[p].left :
       /\ repo' = [repo EXCEPT ![m][r] = work[p].file[r]]
       /\ IF work[p].left = {r}
          THEN Goto(p, [work[p] EXCEPT !.todo = Tail(@), !.file = NoFile, !.left = {}])
          ELSE Goto(p, [work[p] EXCEPT !.left = @ \ {r}])
  /\ UNCHANGED <<kind, remoteVars, hasRepo, disk, recorded, pending, watched, ops, failures>>

\* git init and the remote's URL: from here on the machine has a repo.git.
InitRepo(p) ==
  /\ At(p, "init") /\ hasRepo' = hasRepo \cup {MachineOf[p]} /\ Done(p)
  /\ UNCHANGED <<kind, remoteVars, repo, disk, recorded, pending, watched, ops, failures>>

CloneRepo(p) ==
  LET m == MachineOf[p] IN
  /\ At(p, "clone") /\ Done(p)
  /\ hasRepo' = hasRepo \cup {m} /\ repo' = [repo EXCEPT ![m] = server]
  /\ UNCHANGED <<kind, remoteVars, disk, recorded, pending, watched, ops, failures>>

\* Mutant: the hash of what is not there.
SeedTip(p) ==
  LET m == MachineOf[p] IN
  /\ At(p, "seed") /\ Done(p)
  /\ recorded' = [recorded EXCEPT ![m] = [f \in Files |->
       IF f \in Listed(m) \ Tracked(m) THEN Tip(m, f) ELSE @[f]]]
  /\ UNCHANGED <<kind, remoteVars, hasRepo, repo, disk, pending, watched, ops, failures>>

\* Only Clone reads the manifest; HEAD has no such path, so no hash is known.
Seed(p) ==
  LET m == MachineOf[p] IN
  /\ At(p, "seed") /\ Done(p)
  /\ recorded' = [recorded EXCEPT ![m] = [f \in Files |->
       IF f \in Listed(m) \ Tracked(m) THEN Unknown ELSE @[f]]]
  /\ UNCHANGED <<kind, remoteVars, hasRepo, repo, disk, pending, watched, ops, failures>>

-----------------------------------------------------------------------------
Step(p) ==
  \/ Commit(p) \/ WriteManifest(p) \/ Apply(p)
  \/ Push(p) \/ Export(p) \/ Truncate(p) \/ Publish(p)
  \/ Fetch(p) \/ Download(p) \/ Import(p)
  \/ InitRepo(p) \/ CloneRepo(p) \/ Seed(p)

Init ==
  /\ kind \in Kinds /\ server = NoRefs /\ acked = [m \in Machines |-> NoRefs]
  /\ bundle = NoFile /\ mixed = FALSE
  /\ hasRepo = Owners /\ repo = [m \in Machines |-> NoRefs]
  /\ disk = [m \in Machines |-> [f \in Files |-> IF m \in Owners THEN 0 ELSE Gone]]
  /\ \E tracked \in {Shared, Files} : recorded =
       [m \in Machines |-> [f \in Files |-> IF m \in Owners /\ f \in tracked THEN 0 ELSE Untracked]]
  /\ pending = {} /\ watched = [m \in Machines |-> Tracked(m)]
  /\ work = [p \in Procs |-> Idle] /\ ops = 0 /\ failures = 0

Next ==
  \/ \E t \in Touched : Edit(t[1], t[2]) \/ Delete(t[1], t[2]) \/ Track(t[1], t[2])
  \/ \E p \in Procs : Step(p) \/ Fail(p) \/ WatchStart(p) \/ \E cmd \in Commands : Begin(p, cmd)

Spec == Init /\ [][Next]_vars

\* Something of machine m is not in the bundle.
Unpublished(m) ==
  \/ Missing(m) \cup Changed(m) # {} \/ bundle \in {NoFile, Torn}
  \/ \E r \in Leaves(m) : bundle[r] # repo[m][r]

\* What users and timers run again and again: they push while something is
\* not published, and deploy for ever.
Repeated(cmd) == {p \in Procs : \E k \in Kinds : cmd \in MayRun[p][k]}

FairSpec ==
  /\ Spec
  /\ \A p \in Procs : WF_vars(Step(p))
  /\ \A p \in Repeated("sync --push") :
       SF_vars(Begin(p, "sync --push") /\ Unpublished(MachineOf[p]))
  /\ \A p \in Repeated("deploy") : SF_vars(Begin(p, "deploy"))
  /\ \A p \in Repeated("bootstrap") : SF_vars(Begin(p, "bootstrap"))

-----------------------------------------------------------------------------
(* Properties.                                                             *)

Locals ==
  [cmd : Commands, todo : Seq(Phases), file : Exports \cup {NoFile},
   left : SUBSET Refs, listed : SUBSET Files, made : BOOLEAN]

\* The types of the state.
TypeOK ==
  /\ kind \in Kinds /\ server \in Exports /\ acked \in [Machines -> Exports]
  /\ bundle \in Exports \cup {NoFile, Torn} /\ mixed \in BOOLEAN
  /\ hasRepo \subseteq Machines /\ repo \in [Machines -> Exports]
  /\ disk \in [Machines -> [Files -> Content]]
  /\ recorded \in [Machines -> [Files -> Contents \cup {Unknown, Untracked}]]
  /\ pending \subseteq Machines /\ watched \in [Machines -> SUBSET Files]
  /\ work \in [Procs -> Locals]
  /\ ops \in 0..MaxOps[kind] /\ failures \in 0..MaxFailures[kind]

\* What is tracked with --local never reaches the server, a bundle or another
\* machine's branch: only its own commits are on a local/ branch
\* (refspec and ref list of Push and BundlePush).
LocalStays ==
  \A f \in Local :
    /\ server[f] = <<>>
    /\ bundle \notin {NoFile, Torn} => bundle[f] = <<>>
    /\ \A m \in Machines : \A i \in DOMAIN repo[m][f] : repo[m][f][i].by = m

\* What Push has reported as pushed to the git server stays in the server's
\* history until somebody else forces a push (Push, without --force).
AckedStays == \A m \in Machines, r \in Refs : IsPrefix(acked[m][r], server[r])

\* A machine that only bootstraps and deploys never has a commit its publisher
\* has not: the forced import of BundlePull, of whatever old, partial or torn
\* bundle, takes nothing from it.
FollowersFollow ==
  kind # "git" =>
    \A m \in Machines \ Owners, r \in Pushable : \E o \in Owners : IsPrefix(repo[m][r], repo[o][r])

\* Every file of m that its publisher o still has and tracks.
Whole(m, o) ==
  \A f \in Shared \cap Tracked(m) : recorded[o][f] # Untracked /\ disk[o][f] # Gone

\* Over a bundle, a machine that deploys again and again ends up with the
\* publisher's latest content of every file it tracks, through lost and torn
\* bundles, old exports and edits of its own, if in the end its publisher has
\* every file it tracks (Sync, BundlePush, BundlePull, Deploy, Apply).
Converges ==
  \A m \in Machines \ Owners, o \in Owners, f \in Shared :
    <>[](kind # "git" /\ bundle # Torn /\ f \in Tracked(m) /\ Whole(m, o)) => <>[](disk[m][f] = disk[o][f])

\* docs/getting-started.md:241: deploy pulls and applies the latest changes.
\* A machine ends up with the latest content of every file it tracks that its
\* publisher still has.
EveryFileConverges ==
  \A m \in Machines \ Owners, o \in Owners, f \in Shared :
    <>[](f \in Tracked(m) /\ recorded[o][f] # Untracked /\ disk[o][f] # Gone)
      => <>[](disk[m][f] = disk[o][f])

\* docs/commands.md:599: a file nobody has touched while the repo has a newer
\* version is PENDING, and waits for apply: Sync does not commit it.
PendingWaits ==
  [][\A m \in Machines, f \in Files :
       disk[m][f] = recorded[m][f] /\ Tip(m, f) \notin {Gone, recorded[m][f]}
         => ~(IsStrictPrefix(repo[m][f], repo'[m][f]) /\ Last(repo'[m][f]).by = m)]_vars

-----------------------------------------------------------------------------
(* The inductive invariant behind LocalStays and AckedStays                *)
(* (ReplicationProofs).                                                    *)

\* Whoever has refs left to import has the bundle they come from.
FileInv == \A p \in Procs : work[p].left # {} => work[p].file # NoFile

\* What a command has exported, or is about to import, has no local/ branch.
LocalInv ==
  /\ LocalStays
  /\ \A p \in Procs, f \in Local : work[p].file # NoFile => work[p].file[f] = <<>>

IInv == TypeOK /\ FileInv /\ LocalInv /\ AckedStays
=============================================================================
