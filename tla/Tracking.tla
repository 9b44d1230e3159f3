------------------------------ MODULE Tracking ------------------------------
(***************************************************************************)
(* What the commands of one user do to the files of this machine and of    *)
(* the hosts it reaches over SSH, to the records of state.json and to the  *)
(* branches of the repository: track, untrack, sync, apply, undo and       *)
(* deploy --host, and what status, diff, doctor and audit then say.        *)
(*                                                                         *)
(* Every command is one step here (SyncApply and GitRefs open the two long *)
(* ones); what matters is where a sequence of commands leads.  A path is   *)
(* the sequence of its components; a file is a host and a path, and is its *)
(* record's ID and its place in the repository as well, both of which are  *)
(* made from the two.                                                      *)
(*                                                                         *)
(* All records are those of track and of the walk of Sync.  Records that   *)
(* Clone seeds from a manifest (which does not say what was tracked with   *)
(* --hash-only) and those of source render are not in here.                *)
(***************************************************************************)
EXTENDS Naturals, Sequences, FiniteSets, SequencesExt

CONSTANTS
  Here,         (* this machine                                            *)
  Servers,      (* the hosts reached over SSH: numbers, as they are names  *)
  Paths,        (* paths of files: sequences of numbers, the names         *)
  Dirs,         (* paths of directories                                    *)
  Present,      (* the files there are at first                            *)
  Denied,       (* the paths IsDenied answers true for                     *)
  DotNames,     (* [names with a leading dot -> the same with "dot-"]      *)
  FileTracks,   (* what the user may track: host, path, mode               *)
  DirTracks,    (* and with --recursive: host, directory, mode             *)
  Arguments,    (* the paths the user gives the other commands             *)
  Commands,     (* the commands the user gives                             *)
  MaxSteps,     (* bound: commands, edits included                         *)
  MaxEdits,     (* bound: edits                                            *)
  MaxCommits,   (* bound: different trees committed                        *)
  Gone,         (* no such file                                            *)
  None          (* no group, no target, no host given, no branch           *)

\* Smaller numbers are the other tokens of branch names.
Names == {n \in Nat : n > 6}

Hosts == {Here} \cup Servers
Ids   == Hosts \X Paths
Modes == {"plain", "template", "encrypt", "local", "hash"}

\* The number of the edit, how often it has been encrypted, and whether its
\* placeholders have been filled in.
Contents == [edit : 0..MaxEdits, seals : Nat, filled : BOOLEAN]

ASSUME TrackingAssumption ==
  /\ Here \notin Servers /\ Servers \subseteq Names
  /\ Paths \cup Dirs \subseteq Seq(Names) /\ Paths \cap Dirs = {} /\ Denied \subseteq Paths
  /\ IsFiniteSet(Servers) /\ IsFiniteSet(Paths)
  /\ \A n \in DOMAIN DotNames : DotNames[n] \in Names
  /\ Present \subseteq Ids /\ Gone \notin Contents /\ None \notin Seq(Nat)
  /\ Arguments \subseteq Paths \cup Dirs
  /\ FileTracks \subseteq Hosts \X Paths \X Modes
  /\ DirTracks \subseteq Hosts \X Dirs \X Modes
  /\ MaxSteps \in Nat /\ MaxEdits \in Nat /\ MaxCommits \in Nat

VARIABLES
  disk,       (* content of every file of every host                       *)
  recs,       (* state.json: Files                                         *)
  excludes,   (* state.json: Excludes                                      *)
  refs,       (* the branches, and the tree at the tip of each             *)
  commits,    (* the trees of all commits, which git keeps                 *)
  manifest,   (* the IDs in sysfig.yaml on the manifest branch: of what it *)
              (* says of them only that they are listed                    *)
  steps,      (* commands so far                                           *)
  edits,      (* edits among them                                          *)
  settled     (* history: the last step was a Sync of all, without error   *)

state == <<recs, excludes>>
repo  == <<refs, commits>>
vars  == <<disk, state, repo, manifest, steps, edits, settled>>

HostOf(id) == id[1]
PathOf(id) == id[2]
Under(p, dir) == IsPrefix(dir, p)

\* f over g.
Over(f, g) == [x \in DOMAIN f \cup DOMAIN g |-> IF x \in DOMAIN f THEN f[x] ELSE g[x]]

-----------------------------------------------------------------------------
(* Contents.                                                               *)

Raw(n)     == [edit |-> n, seals |-> 0, filled |-> FALSE]
Encrypt(c) == [c EXCEPT !.seals = @ + 1]
Decrypt(c) == [c EXCEPT !.seals = @ - 1]

\* The ciphertext of a template holds no placeholder.
RenderTemplate(c) == IF c.seals = 0 THEN [c EXCEPT !.filled = TRUE] ELSE c

-----------------------------------------------------------------------------
(* Branch names: sequences of the tokens "--", "/", "dir", the prefixes    *)
(* and the names, numbered so that they compare as their texts do.         *)

Dashes == 1
Slash  == 2
Dir    == 3
Prefix == [local |-> 4, remote |-> 5, track |-> 6]

SanitizeBranchName(p) == [i \in DOMAIN p |-> IF p[i] \in DOMAIN DotNames THEN DotNames[p[i]] ELSE p[i]]

BranchName(prefix, p) ==
  LET q == SanitizeBranchName(p) IN
  <<Prefix[prefix]>> \o [i \in 1..2 * Len(q) |-> IF i % 2 = 1 THEN Slash ELSE q[i \div 2]]

\* git cannot hold a and b together: one is a directory of the other.
Clash(a, b) == IsPrefix(a \o <<Slash>>, b) \/ IsPrefix(b \o <<Slash>>, a)

\* a is listed before b.
Before(a, b) ==
  \/ IsStrictPrefix(a, b)
  \/ \E i \in DOMAIN a \cap DOMAIN b :
       a[i] < b[i] /\ SubSeq(a, 1, i - 1) = SubSeq(b, 1, i - 1)

\* Mutant: the slash after the name is forgotten.
AvoidRefLoose(ref, branch) ==
  LET b == IF IsPrefix(ref \o <<Slash>>, branch)
           THEN ref \o <<Dashes, Slash>> \o SubSeq(branch, Len(ref) + 2, Len(branch))
           ELSE branch
  IN IF IsPrefix(b, ref) THEN b \o <<Dashes, Dir>> ELSE b

\* One round of the loop over the refs.
AvoidRef(ref, branch) ==
  LET b == IF IsPrefix(ref \o <<Slash>>, branch)
           THEN ref \o <<Dashes, Slash>> \o SubSeq(branch, Len(ref) + 2, Len(branch))
           ELSE branch
  IN IF IsPrefix(b \o <<Slash>>, ref) THEN b \o <<Dashes, Dir>> ELSE b

\* Mutant: only the refs above the name are looked at.
AvoidRefAbove(names, branch) ==
  MapThenFoldSet(LAMBDA ref, b : IF IsPrefix(ref \o <<Slash>>, b) THEN AvoidRef(ref, b) ELSE b,
                 branch, LAMBDA ref : ref, LAMBDA S : CHOOSE r \in S : \A s \in S : ~Before(r, s), names)

resolveTrackBranch(names, branch) ==
  MapThenFoldSet(AvoidRef, branch, LAMBDA ref : ref,
                 LAMBDA S : CHOOSE r \in S : \A s \in S : ~Before(r, s), names)

\* The branch of a new record, if names are the branches for-each-ref lists:
\* all there are, or none when it fails or does not answer in five seconds.
BranchFor(names, id, group, mode) ==
  LET base == CASE group # None -> group
                [] group = None /\ HostOf(id) = Here -> PathOf(id)
                [] OTHER -> <<HostOf(id)>> \o PathOf(id)
      prefix == CASE mode = "local" -> "local"
                  [] mode # "local" /\ HostOf(id) # Here -> "remote"
                  [] OTHER -> "track"
  IN IF mode = "hash" THEN None
     ELSE resolveTrackBranch(names, BranchName(prefix, base))

\* The branch a record's content is looked up in, one without a branch
\* included.
ShowBranch(id, rec) ==
  CASE rec.branch # None -> rec.branch
    [] rec.branch = None /\ HostOf(id) = Here -> BranchName("track", PathOf(id))
    [] OTHER -> BranchName("remote", <<HostOf(id)>> \o PathOf(id))

\* git show branch:path.
Show(r, branch, id) ==
  IF branch \in DOMAIN r /\ id \in DOMAIN r[branch] THEN r[branch][id] ELSE Gone

Blob(id) == Show(refs, ShowBranch(id, recs[id]), id)

-----------------------------------------------------------------------------
(* The user edits and removes files, here or on a server.                  *)

OnlyDisk == UNCHANGED <<state, repo, manifest>> /\ settled' = FALSE

Write(ids, content) ==
  /\ edits < MaxEdits /\ edits' = edits + 1
  /\ disk' = [id \in Ids |-> IF id \in ids THEN content ELSE disk[id]]
  /\ OnlyDisk

Edit(id)   == Write({id}, Raw(edits + 1))
Delete(id) == disk[id] # Gone /\ Write({id}, Gone)

-----------------------------------------------------------------------------
(* Records.                                                                *)

\* What for-each-ref lists for each of the new files ids.
Listings(ids) == [ids -> {DOMAIN refs, {}}]

\* The record Track writes.
NewRecord(names, id, group, mode) ==
  [hash |-> disk[id], branch |-> BranchFor(names, id, group, mode), group |-> group, mode |-> mode]

Trackable(rs, id, mode) ==
  /\ disk[id] # Gone /\ id \notin DOMAIN rs
  /\ PathOf(id) \in Denied => mode = "hash"

\* Files of the tracked directories of this machine; a path tracked on any
\* host counts as tracked.
GroupDirs(rs) == {rs[id].group : id \in {i \in DOMAIN rs : HostOf(i) = Here}} \ {None}
Hidden(p, dir) == \E e \in excludes : Under(p, e) /\ Under(e, dir)
Walked(rs, dir) ==
  {p \in Paths : /\ disk[<<Here, p>>] # Gone /\ Under(p, dir) /\ ~Hidden(p, dir)
                 /\ ~\E id \in DOMAIN rs : PathOf(id) = p}

\* New records for the new files, each for one of the directories it is in.
TrackedFor(rs, new, dirs) ==
  LET ids  == {<<Here, p>> : p \in new}
      Owns == {o \in [new -> dirs] : \A p \in new : p \in Walked(rs, o[p])}
  IN UNION {{Over([id \in ids |-> NewRecord(seen[id], id, own[PathOf(id)], "plain")], rs) :
               own \in Owns} : seen \in Listings(ids)}

\* Mutant: the walk does not ask the denylist.
AutoTrackAll(rs, dirs) == TrackedFor(rs, UNION {Walked(rs, d) : d \in dirs}, dirs)

\* Every new file is tracked, plainly; what cannot be tracked is passed over.
AutoTrack(rs, dirs) ==
  TrackedFor(rs, {p \in UNION {Walked(rs, d) : d \in dirs} : Trackable(rs, <<Here, p>>, "plain")}, dirs)

-----------------------------------------------------------------------------
(* Sync, on records rs.  What one group commits goes to the branch of one  *)
(* of its files; the first commit that fails ends the Sync.                *)

GroupKey(id, rec) == IF rec.group = None THEN id ELSE <<HostOf(id), rec.group>>

\* What a file would have in the repository.
Data(id, rec) == IF rec.mode = "encrypt" THEN Encrypt(disk[id]) ELSE disk[id]

\* Mutant: the file is compared with the record instead of the repository.
ChangedSinceRecord(id, rec) == rec.mode = "encrypt" \/ disk[id] # rec.hash

\* A ciphertext never equals another.
Changed(id, rec) == rec.mode = "encrypt" \/ Data(id, rec) # Show(refs, rec.branch, id)

\* Mutant: the failure of one update-ref is passed over.
CommitAnyway(r, branch, blobs, dels) ==
  LET old  == IF branch \in DOMAIN r.refs THEN r.refs[branch] ELSE <<>>
      tree == Over(blobs, [id \in DOMAIN old \ dels |-> old[id]])
  IN IF ~r.ok THEN r
     ELSE [refs |-> Over([b \in {branch} |-> tree], r.refs), commits |-> r.commits \cup {tree},
           recs |-> r.recs, ok |-> TRUE]

\* gitCommitToBranch, after r, the repository so far.
CommitTo(r, branch, blobs, dels) ==
  LET old  == IF branch \in DOMAIN r.refs THEN r.refs[branch] ELSE <<>>
      tree == Over(blobs, [id \in DOMAIN old \ dels |-> old[id]])
  IN IF ~r.ok \/ \E b \in DOMAIN r.refs : Clash(branch, b)
     THEN [r EXCEPT !.ok = FALSE]
     ELSE [refs |-> Over([b \in {branch} |-> tree], r.refs), commits |-> r.commits \cup {tree},
           recs |-> r.recs, ok |-> TRUE]

\* One group, with the branch of its file lead.
SyncGroup(r, rs, live, gone, lead) ==
  LET blobs == [id \in live |-> Data(id, rs[id])]
      c == CommitTo(r, rs[lead].branch, blobs, gone)
  IN IF ~c.ok THEN c
     ELSE [c EXCEPT !.recs = [id \in DOMAIN @ \ gone |->
                                IF id \in live THEN [@[id] EXCEPT !.hash = disk[id]] ELSE @[id]]]

\* core.Sync of the files ids, with the servers in up within reach: the set of
\* what may come of it.
Sync(rs, ids, up) ==
  LET scope == {id \in ids : rs[id].mode # "hash"}
      read  == {id \in scope : disk[id] # Gone /\ HostOf(id) \in up \cup {Here}}
      live  == {id \in read : Changed(id, rs[id])}
      gone  == {id \in scope : disk[id] = Gone /\ HostOf(id) = Here}
      fresh == [id \in DOMAIN rs |-> IF id \in read \ live THEN [rs[id] EXCEPT !.hash = disk[id]]
                                     ELSE rs[id]]
      keys  == {GroupKey(id, rs[id]) : id \in live \cup gone}
      Of(k, S) == {id \in S : GroupKey(id, rs[id]) = k}
      Leads == {l \in [keys -> live \cup gone] :
                  \A k \in keys : l[k] \in IF Of(k, live) # {} THEN Of(k, live) ELSE Of(k, gone)}
      start == [refs |-> refs, commits |-> commits, recs |-> fresh, ok |-> TRUE]
  IN {FoldLeft(LAMBDA r, k : SyncGroup(r, rs, Of(k, live), Of(k, gone), l[k]), start, order) :
        l \in Leads, order \in SetToSeqs(keys)}

\* One of the things that may come of it; the manifest is written last.
SyncFiles(rs, ids, all, up) ==
  \E r \in Sync(rs, ids, up) :
    /\ Cardinality(r.commits) <= MaxCommits
    /\ recs' = r.recs /\ refs' = r.refs /\ commits' = r.commits
    /\ manifest' = IF r.ok /\ DOMAIN rs # {} THEN DOMAIN rs ELSE manifest
    /\ settled' = (all /\ r.ok /\ up = Servers)

-----------------------------------------------------------------------------
(* sysfig sync [target], perhaps with SYSFIG_HOST set.                     *)

resolveSyncTarget(rs, target) ==
  {id \in DOMAIN rs : \/ Under(PathOf(id), target)
                      \/ rs[id].group # None /\ Under(rs[id].group, target)}

\* No ID stands for every record: of the host if there are any, or else of all.
\* When it is all, core.Sync tracks the new files first.
SyncFound(rs, found, host, up) ==
  LET ids == IF host = None THEN found
             ELSE {id \in IF found = {} THEN DOMAIN rs ELSE found : HostOf(id) = host}
  IN IF ids # {} THEN SyncFiles(rs, ids, FALSE, up)
     ELSE \E all \in AutoTrack(rs, GroupDirs(rs)) : SyncFiles(all, DOMAIN all, TRUE, up)

\* --all.
SyncAll(up) ==
  /\ "sync" \in Commands
  /\ SyncFound(recs, {}, None, up)
  /\ UNCHANGED <<disk, excludes, edits>>

\* One record, by its ID.
SyncId(id, host, up) ==
  /\ "sync" \in Commands
  /\ SyncFound(recs, {id}, host, up)
  /\ UNCHANGED <<disk, excludes, edits>>

\* The path the user names, or the working directory.  The new files below it
\* are tracked even when the named path turns out to hold no record.
SyncTarget(target, named, host, up) ==
  /\ "sync" \in Commands
  /\ \E rs \in AutoTrack(recs, {d \in GroupDirs(recs) : Under(d, target)}) :
       LET found == resolveSyncTarget(rs, target) IN
       /\ named => found # {}
       /\ SyncFound(rs, found, host, up)
  /\ UNCHANGED <<disk, excludes, edits>>

-----------------------------------------------------------------------------
(* sysfig track, which syncs what it has tracked, and sysfig untrack.      *)

\* The new records, and the Sync of them unless they are local or hash only or
\* some of the files, bad, could not be read.
Tracks(ids, bad, group, mode, up) ==
  \E rs \in {Over([id \in ids |-> NewRecord(seen[id], id, group, mode)], recs) : seen \in Listings(ids)} :
  /\ ids # {}
  /\ IF mode \in {"local", "hash"} \/ bad # {}
     THEN recs' = rs /\ settled' = FALSE /\ UNCHANGED <<repo, manifest>>
     ELSE SyncFiles(rs, ids, FALSE, up)
  /\ UNCHANGED <<disk, excludes, edits>>

\* A server within reach may be out of it when the Sync comes.
TrackCmd(id, mode, up) ==
  /\ "track" \in Commands
  /\ Trackable(recs, id, mode)
  /\ Tracks({id}, {}, None, mode, up)

\* The files of a directory there are to track.
Listed(host, dir, mode, skip) ==
  {id \in Ids : /\ HostOf(id) = host /\ Under(PathOf(id), dir)
                /\ ~\E e \in skip : Under(PathOf(id), e)
                /\ Trackable(recs, id, mode)}

TrackDir(host, dir, mode, skip, unreadable, up) ==
  LET ids == Listed(host, dir, mode, skip)
      bad == {id \in ids : PathOf(id) \in unreadable}
  IN "track" \in Commands /\ Tracks(ids \ bad, bad, dir, mode, up)

UntrackId(id) ==
  /\ "untrack" \in Commands
  /\ recs' = [i \in DOMAIN recs \ {id} |-> recs[i]]
  /\ settled' = FALSE
  /\ UNCHANGED <<disk, excludes, repo, manifest, edits>>

\* Records of the file or below the directory, of one server if one is given;
\* if there are none the path is excluded, if a tracked directory is above or
\* below it.
Untrack(arg, host) ==
  LET named == {id \in DOMAIN recs :
                  /\ \/ Under(PathOf(id), arg)
                     \/ recs[id].group # None /\ Under(recs[id].group, arg)
                  /\ host # None => HostOf(id) = host}
  IN
  /\ "untrack" \in Commands
  /\ IF named # {}
     THEN recs' = [id \in DOMAIN recs \ named |-> recs[id]] /\ UNCHANGED excludes
     ELSE /\ \E id \in DOMAIN recs :
               recs[id].group # None /\ (Under(arg, recs[id].group) \/ Under(recs[id].group, arg))
          /\ arg \notin excludes
          /\ excludes' = excludes \cup {arg} /\ UNCHANGED recs
  /\ settled' = FALSE
  /\ UNCHANGED <<disk, repo, manifest, edits>>

-----------------------------------------------------------------------------
(* What is read back from the repository.                                  *)

\* A record that is encrypted now may have been committed before it was.
Readable(id) == Blob(id) # Gone /\ (recs[id].mode = "encrypt" => Blob(id).seals > 0)
Text(id) == IF recs[id].mode = "encrypt" THEN Decrypt(Blob(id)) ELSE Blob(id)

(* sysfig apply, of the records ids in any order: all of them, those of    *)
(* servers as well, are written to this machine.                           *)

ApplyOne(r, id, force) ==
  LET dest  == <<Here, PathOf(id)>>
      dirty == ~force /\ r.disk[dest] \notin {Gone, recs[id].hash}
  IN CASE dirty -> r
       [] ~dirty /\ ~Readable(id) -> [r EXCEPT !.ok = FALSE]
       [] OTHER -> [r EXCEPT !.disk[dest] =
                      IF recs[id].mode = "template" THEN RenderTemplate(Text(id)) ELSE Text(id)]

ApplyCmd(ids, force) ==
  /\ "apply" \in Commands /\ ids # {}
  /\ \E order \in SetToSeqs(ids) :
       LET r == FoldLeft(LAMBDA s, id : ApplyOne(s, id, force), [disk |-> disk, ok |-> TRUE], order)
           Recorded(id) == IF id \in ids /\ r.disk[<<Here, PathOf(id)>>] # Gone
                           THEN [recs[id] EXCEPT !.hash = r.disk[<<Here, PathOf(id)>>]] ELSE recs[id]
       IN /\ disk' = r.disk
          /\ recs' = IF r.ok THEN [id \in DOMAIN recs |-> Recorded(id)] ELSE recs
  /\ settled' = FALSE
  /\ UNCHANGED <<excludes, repo, manifest, edits>>

-----------------------------------------------------------------------------
(* sysfig undo: the bytes of the branch go to the disk as they are, and    *)
(* are recorded for the record of that path on this machine.               *)

\* All records, those of a path or directory, or one by its ID.
Targets ==
  {DOMAIN recs} \cup {{id} : id \in DOMAIN recs}
    \cup {{id \in DOMAIN recs : Under(PathOf(id), arg)} : arg \in Arguments}

\* git show did not fail: the file is written and its hash recorded.
Restore(r, id, blob) ==
  LET dest == <<Here, PathOf(id)>> IN
  IF blob = Gone THEN r
  ELSE [r EXCEPT !.disk[dest] = blob,
                 !.recs = [i \in DOMAIN @ |-> IF i = dest THEN [@[i] EXCEPT !.hash = blob] ELSE @[i]]]

Undone(r) ==
  /\ disk' = r.disk /\ recs' = r.recs /\ refs' = r.refs
  /\ settled' = FALSE
  /\ UNCHANGED <<excludes, commits, manifest, edits>>

\* A record without a branch has that of its path below track/, of any host.
UndoBranch(id) ==
  IF recs[id].branch # None THEN recs[id].branch
  ELSE BranchName("track", IF HostOf(id) = Here THEN PathOf(id) ELSE <<HostOf(id)>> \o PathOf(id))

UndoCmd(ids) ==
  /\ "undo" \in Commands /\ ids # {}
  /\ \E order \in SetToSeqs(ids) :
       Undone(FoldLeft(LAMBDA r, id : Restore(r, id, Show(refs, UndoBranch(id), id)),
                              [disk |-> disk, recs |-> recs, refs |-> refs], order))

\* Mode 2: the branch of every target is set to the commit first.
RewindOne(r, id, tree) ==
  LET b == UndoBranch(id) IN
  IF \E c \in DOMAIN r.refs : Clash(b, c) THEN r
  ELSE Restore([r EXCEPT !.refs = Over([c \in {b} |-> tree], @)], id, IF id \in DOMAIN tree THEN tree[id] ELSE Gone)

RewindCmd(tree, ids) ==
  /\ "rewind" \in Commands /\ ids # {}
  /\ \E order \in SetToSeqs(ids) :
       Undone(FoldLeft(LAMBDA r, id : RewindOne(r, id, tree),
                              [disk |-> disk, recs |-> recs, refs |-> refs], order))

-----------------------------------------------------------------------------
(* sysfig deploy --host: records, those of other servers as well, are      *)
(* written to the host one by one; some writes may fail.                   *)

DeployOne(d, id, host) ==
  IF Readable(id) THEN [d EXCEPT ![<<host, PathOf(id)>>] = Text(id)] ELSE d

RemoteDeploy(host, ids) ==
  /\ "deploy" \in Commands
  /\ \A id \in ids : recs[id].mode \notin {"local", "hash"}
  /\ \E order \in SetToSeqs(ids) :
       disk' = FoldLeft(LAMBDA d, id : DeployOne(d, id, host), disk, order)
  /\ OnlyDisk /\ UNCHANGED edits

\* deploy --from --profile --host: a profile of a repository that is fetched for
\* the purpose is rendered, texts nobody has seen yet.
RenderProfileFromRepo == Raw(edits + 1)

\* The files whose write did not fail.
RemoteDeployRendered(ids) == Write(ids, RenderProfileFromRepo)

\* Records, and what this machine knows of the host, stay as they are.
DeployFrom(host, paths) ==
  /\ "deploy" \in Commands
  /\ RemoteDeployRendered({<<host, p>> : p \in paths})

-----------------------------------------------------------------------------
Init ==
  /\ disk = [id \in Ids |-> IF id \in Present THEN Raw(0) ELSE Gone]
  /\ recs = <<>> /\ excludes = {} /\ refs = <<>> /\ commits = {} /\ manifest = {}
  /\ steps = 0 /\ edits = 0 /\ settled = FALSE

Command ==
  \/ \E id \in Ids : Edit(id) \/ Delete(id)
  \/ \E up \in {{}, Servers} :
       \/ \E t \in FileTracks : TrackCmd(<<t[1], t[2]>>, t[3], up)
       \/ \E t \in DirTracks, skip, unreadable \in {{}} \cup {{p} : p \in Arguments} :
            TrackDir(t[1], t[2], t[3], skip, unreadable, up)
       \/ SyncAll(up)
       \/ \E host \in Servers \cup {None} :
            \/ \E id \in DOMAIN recs : SyncId(id, host, up)
            \/ \E target \in Arguments, named \in BOOLEAN : SyncTarget(target, named, host, up)
  \/ \E id \in DOMAIN recs : UntrackId(id)
  \/ \E arg \in Arguments, host \in Servers \cup {None} : Untrack(arg, host)
  \/ \E ids \in SUBSET DOMAIN recs, force \in BOOLEAN : ApplyCmd(ids, force)
  \/ \E ids \in Targets :
       \/ UndoCmd(ids)
       \/ \E tree \in commits : RewindCmd(tree, ids)
  \/ \E host \in Servers :
       \/ \E ids \in SUBSET DOMAIN recs : RemoteDeploy(host, ids)
       \/ \E paths \in SUBSET Paths : paths # {} /\ DeployFrom(host, paths)

Next == steps < MaxSteps /\ steps' = steps + 1 /\ Command

Spec == Init /\ [][Next]_vars

-----------------------------------------------------------------------------
(* What the reading commands say.                                          *)

\* status, of what is live against the branch and the record; what was never
\* committed is compared with the record alone.
ThreeWay(id) ==
  LET repoHash == IF Blob(id) = Gone THEN recs[id].hash ELSE Blob(id) IN
  CASE disk[id] = repoHash -> "SYNCED"
    [] disk[id] # repoHash /\ repoHash # recs[id].hash -> "PENDING"
    [] OTHER -> "DIRTY"

Status(id, fetch) ==
  CASE HostOf(id) # Here /\ ~fetch -> "STALE"
    [] HostOf(id) = Here /\ recs[id].mode = "encrypt" -> "ENCRYPTED"
    [] disk[id] = Gone /\ (HostOf(id) # Here => fetch)
         /\ (HostOf(id) = Here => recs[id].mode # "encrypt") -> "MISSING"
    [] HostOf(id) = Here /\ recs[id].mode = "hash" /\ disk[id] # Gone ->
         IF disk[id] = recs[id].hash THEN "SYNCED" ELSE "TAMPERED"
    [] OTHER -> ThreeWay(id)

New == UNION {Walked(recs, d) : d \in GroupDirs(recs)}

\* diff shows what differs, and gives up, for all files, at the first whose
\* branch has no content of it.
Differs   == {id \in DOMAIN recs : Status(id, TRUE) \in {"DIRTY", "PENDING"}}
DiffFails == \E id \in Differs : Blob(id) = Gone

\* status exits with 1, and log --dirty shows the branches of what is not as it
\* should be.
StatusFails   == New # {} \/ \E id \in DOMAIN recs : Status(id, FALSE) \in {"DIRTY", "PENDING", "MISSING"}
DirtyBranches ==
  {recs[id].branch : id \in {i \in DOMAIN recs :
     Status(i, FALSE) \in {"DIRTY", "PENDING", "MISSING", "TAMPERED"}}} \ {None}

\* doctor: records the manifest does not list, and records without content.
Unlisted    == DOMAIN recs \ manifest
MissingBlob == {id \in DOMAIN recs : Show(refs, UndoBranch(id), id) = Gone}

\* audit of the local files.
Drifted == {id \in DOMAIN recs : recs[id].mode = "local" /\ Status(id, FALSE) # "SYNCED"}

-----------------------------------------------------------------------------
(* Properties.                                                             *)

\* Records, branches and contents are of their types, and no two branches are
\* in each other's way.
TypeOK ==
  /\ disk \in [Ids -> Contents \cup {Gone}]
  /\ DOMAIN recs \subseteq Ids
  /\ \A id \in DOMAIN recs :
       /\ recs[id].hash \in Contents /\ recs[id].mode \in Modes
       /\ recs[id].group \in Dirs \cup {None}
       /\ recs[id].branch = None <=> recs[id].mode = "hash"
  /\ excludes \subseteq Arguments /\ manifest \subseteq Ids
  /\ \A b \in DOMAIN refs : refs[b] \in commits /\ \A c \in DOMAIN refs : ~Clash(b, c)
  /\ \A t \in commits : DOMAIN t \subseteq Ids /\ \A id \in DOMAIN t : t[id] \in Contents

\* The look-up of the branches has answered for the new record of id.
LookedUp(id) ==
  recs'[id].branch = BranchFor(DOMAIN refs, id, recs'[id].group, recs'[id].mode)

\* track of the files new: of one, or of those of a directory when all can be
\* read; with the server in reach.
TracksAll(new) ==
  \/ \E t \in FileTracks : new = {<<t[1], t[2]>>} /\ TrackCmd(<<t[1], t[2]>>, t[3], Servers)
  \/ \E t \in DirTracks, skip \in {{}} \cup {{p} : p \in Arguments} :
       new = Listed(t[1], t[2], t[3], skip) /\ TrackDir(t[1], t[2], t[3], skip, {}, Servers)

\* What the user tracks for the repository is in it when track returns, on the
\* branch of its record, however the branches that sync, undo, rewind and
\* earlier tracks have left stand to its name, unless a look-up of the branches
\* did not answer (git.go:26) or a git process fails (resolveTrackBranch and
\* the Sync at the end of track).
TrackStores ==
  [][LET new == DOMAIN recs' \ DOMAIN recs IN
     /\ new # {} /\ \A id \in new : recs'[id].mode \notin {"local", "hash"} /\ LookedUp(id)
     /\ TracksAll(new)
     => \A id \in new : Show(refs', recs'[id].branch, id) = Data(id, recs'[id])]_vars

\* The files of one directory tracked for the repository have one branch: Sync
\* commits them all to the branch of one of them (sync.go:552).
GroupsStayTogether ==
  \A i, j \in DOMAIN recs :
    /\ recs[i].group # None /\ GroupKey(i, recs[i]) = GroupKey(j, recs[j])
    /\ {recs[i].mode, recs[j].mode} \cap {"local", "hash"} = {}
    /\ {recs[i].branch, recs[j].branch} \subseteq DOMAIN refs
    => recs[i].branch = recs[j].branch

\* Records that track or the walk of Sync has made put no content of a path on
\* the denylist into a commit, in whatever order files and directories, here
\* and on servers, are tracked, untracked, found new, restored and synced: such
\* a path is passed over or hash-only (track.go, autoTrackNewInTarget, Sync).
\* It does not hold of records seeded from a manifest, which come back without
\* --hash-only (clone.go:263), nor of what source render commits.
TrackKeepsDeniedOut == \A t \in commits : \A id \in DOMAIN t : PathOf(id) \notin Denied

\* After a Sync of all files that reported no error nothing is left for the
\* other commands to complain of: no file is NEW but the denied, the others
\* are SYNCED (or were not there to fetch), diff answers, audit of local files
\* is clean, log --dirty is empty, and doctor misses no record in the manifest
\* and no content but of hash-only files, wherever the files of a directory
\* share a branch.
SyncCures ==
  settled =>
    LET Whole == {id \in DOMAIN recs :
                    /\ recs[id].mode # "hash"
                    /\ \A j \in DOMAIN recs : GroupKey(j, recs[j]) = GroupKey(id, recs[id])
                                                => recs[j].branch \in {recs[id].branch, None}}
    IN /\ New \subseteq Denied
       /\ \A id \in Whole :
            Status(id, TRUE) \in IF HostOf(id) # Here THEN {"SYNCED", "MISSING"} ELSE {"SYNCED", "ENCRYPTED"}
       /\ Whole \cap (MissingBlob \cup Drifted) = {id \in Whole : HostOf(id) # Here /\ disk[id] = Gone /\ id \in MissingBlob}
       /\ ~DiffFails /\ Unlisted = {}
       /\ DirtyBranches \cap {recs[id].branch : id \in Whole} = {}
       /\ StatusFails => New # {} \/ Whole # DOMAIN recs

\* The repository stores the raw template, never a rendered copy of it
\* (docs/commands.md:351).
RepoKeepsTemplate == \A t \in commits : \A id \in DOMAIN t : ~t[id].filled

\* status compares no content of a file that is encrypted: "ENCRYPTED |
\* Encrypted file - content comparison skipped" (docs/commands.md:601).
EncryptedNotCompared ==
  \A id \in DOMAIN recs : recs[id].mode = "encrypt" => Status(id, TRUE) \in {"ENCRYPTED", "MISSING"}
=============================================================================
