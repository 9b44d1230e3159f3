------------------------------ MODULE Sources ------------------------------
(***************************************************************************)
(* Config sources (internal/core/sources.go): `source render` as a second  *)
(* producer of branches and records beside track, sync and apply.          *)
(*                                                                         *)
(* A render loads sources.yaml and the records once, then works through    *)
(* the activations: it refreshes the cache of the source, and for every    *)
(* file the profile declares renders, compares, commits and records.       *)
(* Users, Syncs, Applies and other renders run between any two of those    *)
(* steps.  An Apply checks, reads and writes a file one after the other; a *)
(* Sync, which SyncApply shows step by step, takes one step per file here. *)
(* Every file has the branch of its path; a hash is the content it is of,  *)
(* and a content says what it was rendered from.                           *)
(***************************************************************************)
EXTENDS Naturals, Sequences, SequencesExt

CONSTANTS
  Files,        (* system paths                                            *)
  Profiles,     (* profiles of the one registered source                   *)
  Declares,     (* [Profiles -> SUBSET Files]: their output files          *)
  Values,       (* values of the variables of an activation                *)
  Usable,       (* activations that users make: [profile, value]           *)
  Encrypted,    (* files declared with encrypt: true                       *)
  Remotes,      (* kinds of source to look at: subset of "bundle", "git"   *)
  Renders, Syncs, Applies,    (* command processes                         *)
  MaxOps,       (* bound: operations of the user and of the publisher      *)
  MaxFailures,  (* bound: failing steps and killed commands                *)
  User,         (* owner of manually tracked files                         *)
  Gone,         (* no such file                                            *)
  NoRec         (* no record                                               *)

Versions   == 1..(MaxOps + 1)
Renderings == [by : Profiles, version : Versions, value : Values]
Edits      == [by : {User}, version : Versions, value : {User}]
Contents   == Renderings \cup Edits
Owners     == Profiles \cup {User}
Records    == [owner : Owners, hash : Contents]
Commands   == Renders \cup Syncs \cup Applies

ASSUME SourcesAssumption ==
  /\ Usable \subseteq [profile : Profiles, value : Values]
  /\ Declares \in [Profiles -> SUBSET Files] /\ Encrypted \subseteq Files
  /\ Remotes \subseteq {"bundle", "git"} /\ MaxOps \in Nat /\ MaxFailures \in Nat
  /\ User \notin Profiles /\ Gone \notin Contents /\ NoRec \notin Records \cup Owners
  /\ Renders \cap Syncs = {} /\ Applies \cap (Renders \cup Syncs) = {}

VARIABLES
  remote,       (* the kind of the source's URL                            *)
  published,    (* version of the source's templates                       *)
  cached,       (* version in the cache repo; 0 before the first pull      *)
  activations,  (* sources.yaml: Profiles                                  *)
  disk, tree,   (* files on the system and in the tips of their branches   *)
  stale,        (* files that changed since their services last read them  *)
  records,      (* state.json                                              *)
  render, sync, apply,        (* the local state of every command          *)
  ops, failures,              (* bounded counters                          *)
  alone         (* history: commands nothing disturbed since they loaded  *)

vars == <<remote, published, cached, activations, disk, tree, stale, records,
          render, sync, apply, ops, failures, alone>>

commands == <<render, sync, apply>>
catalog  == <<remote, published, cached, activations>>

Rendering(act, version) == [by |-> act.profile, version |-> version, value |-> act.value]

Tracked     == {f \in Files : records[f] # NoRec}
OwnerOf(f)  == IF records[f] = NoRec THEN NoRec ELSE records[f].owner

IdleRender ==
  [pc |-> "idle", scope |-> {}, force |-> FALSE, todo |-> <<>>, files |-> {}, owner |-> [f \in Files |-> NoRec],
   made |-> NoRec, whole |-> TRUE]
IdleSync  == [todo |-> {}]
IdleApply == [todo |-> {}, snap |-> [f \in Files |-> NoRec], force |-> FALSE, at |-> NoRec, data |-> Gone,
              results |-> {}, written |-> {}, due |-> {}, failed |-> FALSE, pc |-> "idle"]

Busy == {r \in Renders : render[r].pc # "idle"} \cup {s \in Syncs : sync[s].todo # {}}
          \cup {a \in Applies : apply[a].pc # "idle"}

Starts(c) == alone' = IF Busy = {} THEN {c} ELSE {}
Steps(c)  == alone' = alone \cap {c}
Disturbs  == alone' = {}

-----------------------------------------------------------------------------
(* The user, and whoever publishes the source.                             *)

\* A forced command counts as an operation of the user.
Forcing(force) == (force => ops < MaxOps) /\ ops' = IF force THEN ops + 1 ELSE ops

Acts == ops < MaxOps /\ ops' = ops + 1 /\ Disturbs

Edit(f) ==
  /\ Acts
  /\ disk' = [disk EXCEPT ![f] = [by |-> User, version |-> ops + 1, value |-> User]]
  /\ stale' = stale \cup {f}
  /\ UNCHANGED <<catalog, tree, records, commands, failures>>

Delete(f) ==
  /\ Acts /\ disk[f] # Gone
  /\ disk' = [disk EXCEPT ![f] = Gone] /\ stale' = stale \cup {f}
  /\ UNCHANGED <<catalog, tree, records, commands, failures>>

Track(f, force) ==
  /\ Acts /\ disk[f] # Gone
  /\ OwnerOf(f) \in {NoRec} \cup (IF force THEN Profiles ELSE {})
  /\ records' = [records EXCEPT ![f] = [owner |-> User, hash |-> disk[f]]]
  /\ UNCHANGED <<catalog, disk, tree, stale, commands, failures>>

Untrack(f) ==
  /\ Acts /\ f \in Tracked
  /\ records' = [records EXCEPT ![f] = NoRec]
  /\ UNCHANGED <<catalog, disk, tree, stale, commands, failures>>

-----------------------------------------------------------------------------
(* The catalog: what is published, what this machine has of it, and what   *)
(* it activated.  A pull may change the cache between two files of a       *)
(* render.                                                                 *)

\* Mutant: a cached source is not refreshed.
FetchedOnce == IF cached # 0 THEN cached ELSE published

\* A bundle is imported; a git source is cloned once, and what is fetched
\* later moves no branch of the bare clone.
Fetched == IF remote = "git" /\ cached # 0 THEN cached ELSE published

\* source pull.
SourcePull ==
  /\ cached # Fetched /\ cached' = Fetched
  /\ Disturbs
  /\ UNCHANGED <<remote, published, activations, disk, tree, stale, records, commands, ops, failures>>

\* source list pulls, and reads the profile.yaml of every profile.
SourceList == SourcePull

\* The same profile with other values is a new activation.
SourceUse(act) ==
  /\ Acts /\ ~Contains(activations, act)
  /\ activations' = Append(activations, act)
  /\ UNCHANGED <<remote, published, cached, disk, tree, stale, records, commands, failures>>

\* source use has pulled the source and read profile.yaml before it asks for
\* the variables.
UseCmd(act) == cached # 0 /\ SourceUse(act)

\* source render --values activates without looking at the source.
ValuesCmd(act) == SourceUse(act)

PublishSource ==
  /\ Acts /\ published' = published + 1
  /\ UNCHANGED <<remote, cached, activations, disk, tree, stale, records, commands, failures>>

-----------------------------------------------------------------------------
(* source render.                                                          *)

In(r, l) == render[r].pc = l /\ Steps(r)

\* The activations and the owners as of now.
RenderLoad(r, profiles, force) ==
  /\ render[r].pc = "idle" /\ activations # <<>> /\ Starts(r) /\ Forcing(force)
  /\ render' = [render EXCEPT ![r] =
       [IdleRender EXCEPT !.pc = "pull", !.scope = profiles, !.force = force, !.todo = activations,
          !.owner = [f \in Files |-> OwnerOf(f)]]]
  /\ UNCHANGED <<catalog, disk, tree, stale, records, sync, apply, failures>>

Act(r) == Head(render[r].todo)

\* On to the next activation.
Continue(r) ==
  render' = [render EXCEPT ![r].todo = Tail(@),
               ![r].pc = IF Tail(render[r].todo) = <<>> THEN "done" ELSE "pull"]

\* Another profile was asked for.
RenderSkips(r) ==
  /\ In(r, "pull") /\ Act(r).profile \notin render[r].scope /\ Continue(r)
  /\ UNCHANGED <<catalog, disk, tree, stale, records, sync, apply, ops, failures>>

EnsureSourceRepo(r) ==
  /\ In(r, "pull") /\ Act(r).profile \in render[r].scope
  /\ cached' = Fetched
  /\ render' = [render EXCEPT ![r].pc = "file", ![r].files = Declares[Act(r).profile]]
  /\ UNCHANGED <<remote, published, activations, disk, tree, stale, records, sync, apply, ops, failures>>

Result(r) == Rendering(Act(r), cached)

\* Mutant: a file tracked by hand counts as free.
ConflictOfProfiles(r, f) ==
  ~render[r].force /\ render[r].owner[f] \notin {NoRec, User, Act(r).profile}

Conflict(r, f) ==
  ~render[r].force /\ render[r].owner[f] \notin {NoRec, Act(r).profile}

Refuse(r, f) ==
  /\ In(r, "file") /\ f \in render[r].files /\ Conflict(r, f)
  /\ render' = [render EXCEPT ![r].files = @ \ {f}]
  /\ UNCHANGED <<catalog, disk, tree, stale, records, sync, apply, ops, failures>>

\* A ciphertext never equals the rendering: encrypted files are always committed.
Unchanged(r, f) == f \notin Encrypted /\ tree[f] = Result(r)

RenderFile(r, f) ==
  /\ In(r, "file") /\ f \in render[r].files /\ ~Conflict(r, f)
  /\ tree' = [tree EXCEPT ![f] = Result(r)]
  /\ render' = [render EXCEPT ![r].pc = "record", ![r].files = @ \ {f},
       ![r].made = [file |-> f, content |-> Result(r), same |-> Unchanged(r, f)]]
  /\ UNCHANGED <<catalog, disk, stale, records, sync, apply, ops, failures>>

\* Only a commit is remembered for the conflicts of later activations.
Recorded(r) ==
  [render EXCEPT ![r].pc = "file", ![r].made = NoRec,
     ![r].owner = IF render[r].made.same THEN @ ELSE [@ EXCEPT ![render[r].made.file] = Act(r).profile]]

\* Mutant: an unchanged file is not recorded.
UpdateCommittedRecord(r) ==
  /\ In(r, "record") /\ render' = Recorded(r)
  /\ records' = IF render[r].made.same THEN records
                ELSE [records EXCEPT ![render[r].made.file] =
                        [owner |-> Act(r).profile, hash |-> render[r].made.content]]
  /\ UNCHANGED <<catalog, disk, tree, stale, sync, apply, ops, failures>>

UpdateSourceRecord(r) ==
  /\ In(r, "record") /\ render' = Recorded(r)
  /\ records' = [records EXCEPT ![render[r].made.file] =
       [owner |-> Act(r).profile, hash |-> render[r].made.content]]
  /\ UNCHANGED <<catalog, disk, tree, stale, sync, apply, ops, failures>>

\* The error of WithLock is dropped.
UpdateSourceRecordFails(r) ==
  /\ In(r, "record") /\ failures < MaxFailures
  /\ failures' = failures + 1
  /\ render' = [Recorded(r) EXCEPT ![r].whole = FALSE]
  /\ UNCHANGED <<catalog, disk, tree, stale, records, sync, apply, ops>>

RenderNext(r) ==
  /\ In(r, "file") /\ render[r].files = {} /\ Continue(r)
  /\ UNCHANGED <<catalog, disk, tree, stale, records, sync, apply, ops, failures>>

RenderReturn(r) ==
  /\ In(r, "done") /\ render' = [render EXCEPT ![r] = IdleRender]
  /\ UNCHANGED <<catalog, disk, tree, stale, records, sync, apply, ops, failures>>

\* A pull, a template, a variable or a commit fails, or the process is killed.
RenderFails(r) ==
  /\ render[r].pc # "idle" /\ Steps(r) /\ failures < MaxFailures
  /\ failures' = failures + 1
  /\ render' = [render EXCEPT ![r] = IdleRender]
  /\ UNCHANGED <<catalog, disk, tree, stale, records, sync, apply, ops>>

-----------------------------------------------------------------------------
(* sync and apply.                                                         *)

SyncLoad(s) ==
  /\ sync[s].todo = {} /\ Starts(s)
  /\ sync' = [sync EXCEPT ![s].todo = {f \in Tracked : OwnerOf(f) = User}]
  /\ sync'[s].todo # {}
  /\ UNCHANGED <<catalog, disk, tree, stale, records, render, apply, ops, failures>>

\* Mutant: a file that is gone is not taken for a deletion.
SyncFileGone(s, f) ==
  /\ f \in sync[s].todo /\ Steps(s)
  /\ tree' = [tree EXCEPT ![f] = disk[f]]
  /\ records' = [records EXCEPT ![f] = IF @ = NoRec THEN @ ELSE [@ EXCEPT !.hash = disk[f]]]
  /\ sync' = [sync EXCEPT ![s].todo = @ \ {f}]
  /\ UNCHANGED <<catalog, disk, stale, render, apply, ops, failures>>

\* A record untracked meanwhile is nil: the Sync dies.
SyncFile(s, f) ==
  /\ f \in sync[s].todo /\ Steps(s)
  /\ tree' = [tree EXCEPT ![f] = disk[f]]
  /\ records' = [records EXCEPT ![f] =
       IF disk[f] = Gone \/ @ = NoRec THEN NoRec ELSE [@ EXCEPT !.hash = disk[f]]]
  /\ sync' = [sync EXCEPT ![s].todo =
       IF disk[f] # Gone /\ records[f] = NoRec THEN {} ELSE @ \ {f}]
  /\ UNCHANGED <<catalog, disk, stale, render, apply, ops, failures>>

ApplyLoad(a, force) ==
  /\ apply[a].pc = "idle" /\ Tracked # {} /\ Starts(a) /\ Forcing(force)
  /\ apply' = [apply EXCEPT ![a] = [IdleApply EXCEPT
       !.pc = "files", !.todo = Tracked, !.snap = records, !.force = force]]
  /\ UNCHANGED <<catalog, disk, tree, stale, records, render, sync, failures>>

Dirty(a, f) == ~apply[a].force /\ disk[f] \notin {Gone, apply[a].snap[f].hash}

ApplySkips(a, f) ==
  /\ apply[a].pc = "files" /\ f \in apply[a].todo /\ Steps(a) /\ Dirty(a, f)
  /\ apply' = [apply EXCEPT ![a].todo = @ \ {f}, ![a].results = @ \cup {f}]
  /\ UNCHANGED <<catalog, disk, tree, stale, records, render, sync, ops, failures>>

\* What is on the disk is looked at here, and not again before the write.
ApplyChecks(a, f) ==
  /\ apply[a].pc = "files" /\ f \in apply[a].todo /\ Steps(a) /\ ~Dirty(a, f)
  /\ apply' = [apply EXCEPT ![a].pc = "read", ![a].todo = @ \ {f}, ![a].at = f]
  /\ UNCHANGED <<catalog, disk, tree, stale, records, render, sync, ops, failures>>

ApplyReads(a, f) ==
  /\ apply[a].pc = "read" /\ apply[a].at = f /\ Steps(a) /\ tree[f] # Gone
  /\ apply' = [apply EXCEPT ![a].pc = "write", ![a].data = tree[f]]
  /\ UNCHANGED <<catalog, disk, tree, stale, records, render, sync, ops, failures>>

ApplyMissing(a, f) ==
  /\ apply[a].pc = "read" /\ apply[a].at = f /\ Steps(a) /\ tree[f] = Gone
  /\ apply' = [apply EXCEPT ![a].pc = "files", ![a].failed = TRUE]
  /\ UNCHANGED <<catalog, disk, tree, stale, records, render, sync, ops, failures>>

\* Mutant: what is as it should be is not written, and its hooks are not run.
ApplyWritesOther(a, f) ==
  /\ apply[a].pc = "write" /\ apply[a].at = f /\ Steps(a)
  /\ disk' = [disk EXCEPT ![f] = apply[a].data]
  /\ stale' = IF disk[f] = apply[a].data THEN stale ELSE stale \cup {f}
  /\ apply' = [apply EXCEPT ![a].pc = "files", ![a].results = @ \cup {f},
                            ![a].written = IF disk[f] = apply[a].data THEN @ ELSE @ \cup {f}]
  /\ UNCHANGED <<catalog, tree, records, render, sync, ops, failures>>

ApplyWrites(a, f) ==
  /\ apply[a].pc = "write" /\ apply[a].at = f /\ Steps(a)
  /\ disk' = [disk EXCEPT ![f] = apply[a].data]
  /\ stale' = IF disk[f] = apply[a].data THEN stale ELSE stale \cup {f}
  /\ apply' = [apply EXCEPT ![a].pc = "files", ![a].results = @ \cup {f}, ![a].written = @ \cup {f}]
  /\ UNCHANGED <<catalog, tree, records, render, sync, ops, failures>>

\* After an error no hook is run; else those of the profiles of what was written.
HooksDue(a) ==
  LET due == {apply[a].snap[f].owner : f \in apply[a].written} \cap Profiles IN
  IF apply[a].failed \/ due = {} THEN IdleApply ELSE [IdleApply EXCEPT !.pc = "hooks", !.due = due]

\* What was skipped as DIRTY is recorded as well; after an error nothing is.
ApplyRecord(a) ==
  /\ apply[a].pc = "files" /\ apply[a].todo = {} /\ Steps(a)
  /\ records' = [f \in Files |->
       IF f \in Tracked \cap apply[a].results /\ ~apply[a].failed /\ disk[f] # Gone
       THEN [records[f] EXCEPT !.hash = disk[f]] ELSE records[f]]
  /\ apply' = [apply EXCEPT ![a] = HooksDue(a)]
  /\ UNCHANGED <<catalog, disk, tree, stale, render, sync, ops, failures>>

\* They have the services of a profile read its files again.
RunSourceHooks(a) ==
  /\ apply[a].pc = "hooks" /\ Steps(a)
  /\ stale' = stale \ UNION {Declares[p] : p \in apply[a].due}
  /\ apply' = [apply EXCEPT ![a] = IdleApply]
  /\ UNCHANGED <<catalog, disk, tree, records, render, sync, ops, failures>>

\* A write, the record or a hook fails, or the process is killed.
ApplyFails(a) ==
  /\ apply[a].pc # "idle" /\ Steps(a) /\ failures < MaxFailures
  /\ failures' = failures + 1
  /\ apply' = [apply EXCEPT ![a] = IdleApply]
  /\ UNCHANGED <<catalog, disk, tree, stale, records, render, sync, ops>>

-----------------------------------------------------------------------------
(* status.                                                                 *)

Status(f) ==
  LET repo == IF tree[f] = Gone THEN records[f].hash ELSE tree[f] IN
  CASE f \notin Tracked -> "UNTRACKED"
    [] f \in Tracked /\ disk[f] = Gone -> "MISSING"
    [] f \in Tracked /\ disk[f] # Gone /\ disk[f] = repo -> "SYNCED"
    [] f \in Tracked /\ disk[f] \notin {Gone, repo} /\ repo # records[f].hash -> "PENDING"
    [] OTHER -> "DIRTY"

-----------------------------------------------------------------------------
UserNext ==
  \/ PublishSource
  \/ \E f \in Files : Edit(f) \/ Delete(f) \/ Untrack(f) \/ \E force \in BOOLEAN : Track(f, force)
  \/ SourcePull \/ SourceList
  \/ \E act \in Usable : UseCmd(act) \/ ValuesCmd(act)

RenderStep(r) ==
  \/ RenderSkips(r) \/ EnsureSourceRepo(r) \/ UpdateSourceRecord(r) \/ RenderNext(r) \/ RenderReturn(r)
  \/ \E f \in Files : Refuse(r, f) \/ RenderFile(r, f)

ApplyStep(a) ==
  \/ ApplyRecord(a) \/ RunSourceHooks(a)
  \/ \E f \in Files :
       ApplySkips(a, f) \/ ApplyChecks(a, f) \/ ApplyReads(a, f) \/ ApplyMissing(a, f) \/ ApplyWrites(a, f)

RenderStarts(r) ==
  \E force \in BOOLEAN, profiles \in {Profiles} \cup {{p} : p \in Profiles} :
    RenderLoad(r, profiles, force)

Init ==
  /\ remote \in Remotes /\ published = 1 /\ cached = 0 /\ activations = <<>>
  /\ disk = [f \in Files |-> Gone] /\ tree = disk /\ stale = {} /\ records = [f \in Files |-> NoRec]
  /\ render = [r \in Renders |-> IdleRender] /\ sync = [s \in Syncs |-> IdleSync]
  /\ apply = [a \in Applies |-> IdleApply]
  /\ ops = 0 /\ failures = 0 /\ alone = {}

Next ==
  \/ UserNext
  \/ \E r \in Renders :
       RenderStarts(r) \/ RenderStep(r) \/ UpdateSourceRecordFails(r) \/ RenderFails(r)
  \/ \E s \in Syncs : SyncLoad(s) \/ \E f \in Files : SyncFile(s, f)
  \/ \E a \in Applies : ApplyStep(a) \/ ApplyFails(a) \/ \E force \in BOOLEAN : ApplyLoad(a, force)

Spec == Init /\ [][Next]_vars

\* An Apply that runs goes on, and apply is run again and again; renders and
\* Syncs need not go on.
FairSpec == Spec /\ \A a \in Applies : WF_vars(ApplyStep(a)) /\ SF_vars(ApplyLoad(a, FALSE))

-----------------------------------------------------------------------------
(* Properties.                                                             *)

Activations == [profile : Profiles, value : Values]

Made == [file : Files, content : Renderings, same : BOOLEAN]

RenderLocals ==
  [pc : {"idle", "pull", "file", "record", "done"}, scope : SUBSET Profiles, force : BOOLEAN,
   todo : Seq(Activations), files : SUBSET Files, owner : [Files -> Owners \cup {NoRec}],
   made : Made \cup {NoRec}, whole : BOOLEAN]

ApplyLocals ==
  [pc : {"idle", "files", "read", "write", "hooks"}, todo : SUBSET Files,
   snap : [Files -> Records \cup {NoRec}], force : BOOLEAN, at : Files \cup {NoRec},
   data : Contents \cup {Gone}, results : SUBSET Files, written : SUBSET Files,
   due : SUBSET Profiles, failed : BOOLEAN]

TypeOK ==
  /\ remote \in Remotes /\ published \in Versions /\ cached \in 0..published
  /\ activations \in Seq(Activations)
  /\ disk \in [Files -> Contents \cup {Gone}] /\ tree \in [Files -> Contents \cup {Gone}]
  /\ stale \subseteq Files /\ records \in [Files -> Records \cup {NoRec}]
  /\ render \in [Renders -> RenderLocals]
  /\ sync \in [Syncs -> [todo : SUBSET Files]]
  /\ apply \in [Applies -> ApplyLocals]
  /\ ops \in 0..MaxOps /\ failures \in 0..MaxFailures /\ alone \subseteq Commands

\* Where profile p is activated, if it renders f.
Claims(f, p) == {i \in DOMAIN activations : activations[i].profile = p /\ f \in Declares[p]}

\* A render that nothing disturbed and no step of which failed leaves every
\* file of its profiles tracked, and branch, recorded hash and owner of those
\* it owns in agreement with its last activation and the cached templates.
RenderSettles ==
  \A r \in alone \cap Renders : render[r].pc = "done" /\ render[r].whole =>
    \A p \in render[r].scope, f \in Files : \A last \in Claims(f, p) :
      (\A i \in Claims(f, p) : i <= last) =>
        /\ f \in Tracked
        /\ OwnerOf(f) = p => /\ tree[f] = Rendering(activations[last], cached)
                             /\ records[f].hash = tree[f]

\* Without --force an undisturbed render touches no file of the user or of a
\* profile it does not render.  A profile that it renders may lose a file to
\* another one that it renders: a file that was committed already is recorded
\* without being remembered for the conflicts of later activations
\* (docs/config-sources.md:626 asks for --force there as well).
OwnersKept ==
  [][\A r \in alone \cap Renders, f \in Files :
       render'[r] # render[r] /\ ~render[r].force /\ OwnerOf(f) \notin render[r].scope \cup {NoRec}
         => records'[f] = records[f] /\ tree'[f] = tree[f]]_vars

\* If all profiles are rendered again and again, in the end without --force
\* and one render at a time, the branch of a file that one activation of its
\* owner renders ends up with that rendering, of the latest templates if the
\* source is a bundle, and stays there: neither drift that a Sync commits over
\* it nor failed renders nor the claims of other profiles last.
RenderingPrevails ==
  /\ <>[](\A r \in Renders : ~render[r].force)
  /\ []<>(\E r \in Renders : render[r].pc = "done" /\ render[r].scope = Profiles)
  /\ []<>(\A r \in Renders : render[r].pc = "idle")
  => <>[](\A f \in Files, o \in Profiles, i \in DOMAIN activations :
            OwnerOf(f) = o /\ Claims(f, o) = {i}
              => tree[f] = Rendering(activations[i], IF remote = "bundle" THEN published ELSE cached))

\* However commands failed or were killed on the way: once renders and Syncs
\* have stopped, the services have read the files of the profiles as they are
\* on the disk, after a few plain Applies.
HooksCatchUp ==
  /\ <>[](\A r \in Renders, s \in Syncs : render[r].pc = "idle" /\ sync[s].todo = {})
  /\ <>[](\A f \in Tracked : tree[f] # Gone)
  => <>[](\A f \in Tracked : OwnerOf(f) \in Profiles /\ f \in Declares[OwnerOf(f)] => f \notin stale)

\* docs/config-sources.md:602: `sysfig apply` discards the drift of a
\* source-managed file.  One plain Apply that meets no error and that nothing
\* disturbs does not: it skips the file as DIRTY and records it.
ApplyDiscardsDrift ==
  [][\A a \in alone \cap Applies :
       ApplyRecord(a) /\ ~apply[a].failed
         => \A f \in apply[a].results : OwnerOf(f) \in Profiles => disk[f] = tree[f]]_vars

\* docs/commands.md:1456-1458, docs/config-sources.md:541-543: DIRTY means the file
\* was edited; a new render that is not applied yet is PENDING.
UntouchedIsNotDirty ==
  [][\A f \in Files : f \in Tracked /\ disk[f] = records[f].hash /\ disk'[f] = disk[f]
       => Status(f)' # "DIRTY"]_vars
=============================================================================
