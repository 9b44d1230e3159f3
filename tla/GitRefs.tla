------------------------------ MODULE GitRefs ------------------------------
(***************************************************************************)
(* gitCommitToBranch (internal/core/git.go) step by step: look the tip of  *)
(* the branch up, seed a private index from it, add the blobs, take the    *)
(* deleted paths out, write tree and commit, move the ref.  Every step is  *)
(* a git process of its own and may fail; nothing holds a lock, so another *)
(* sysfig may move the same ref between any two of them.                   *)
(*                                                                         *)
(* The callers are Syncs of one group: they commit what differs between    *)
(* the disk and the tip and then settle the records, in the order of       *)
(* Sync.  SyncApply models the rest of Sync with the commit as one step.   *)
(*                                                                         *)
(* A commit is its tree, the tree of its parent and the paths its caller   *)
(* asked to change; every edit writes a content of its own.                *)
(***************************************************************************)
EXTENDS Naturals, FiniteSets

CONSTANTS
  Committers,   (* sysfig processes that sync                              *)
  Branches,     (* branches of the bare repository                         *)
  Files,        (* tracked files                                           *)
  BranchOf,     (* [Files -> Branches]                                     *)
  QuotedPaths,  (* files whose path git prints in quotes (non-ASCII, tab)  *)
  MaxOps,       (* bound: edits and deletions                              *)
  MaxFailures,  (* bound: failed git commands and killed processes         *)
  Gone,         (* no such file on disk, or no entry in a tree             *)
  NoCommit,     (* the branch does not exist                               *)
  NoCall        (* the abstract "no commit in progress"                    *)

Contents == 0..MaxOps
Trees    == [Files -> Contents \cup {Gone}]
Empty    == [f \in Files |-> Gone]
Commits  == [tree : Trees, parent : Trees, changed : SUBSET Files]
Calls    == [branch : Branches, blobs : Trees, dels : SUBSET Files, bases : SUBSET Trees]

ASSUME GitAssumption ==
  /\ Branches # {} /\ BranchOf \in [Files -> Branches] /\ QuotedPaths \subseteq Files
  /\ MaxOps \in Nat /\ MaxFailures \in Nat /\ Gone \notin Nat
  /\ NoCommit \notin Commits /\ NoCall \notin Calls

VARIABLES
  refs,       (* refs/heads                                                *)
  disk,       (* content of every tracked file                             *)
  recorded,   (* CurrentHash of the record; Gone: no record                *)
  work,       (* the locals of every committer                             *)
  ops, failures

vars == <<refs, disk, recorded, work, ops, failures>>

TreeOf(r) == IF r = NoCommit THEN Empty ELSE r.tree
Tip(b)    == TreeOf(refs[b])

Idle ==
  [pc |-> "idle", branch |-> CHOOSE b \in Branches : TRUE, blobs |-> Empty, dels |-> {},
   parent |-> NoCommit, index |-> Empty, new |-> NoCommit, bases |-> {}]

\* The overlay an index makes of a tree.
Overlay(base, blobs, dels) ==
  [f \in Files |-> IF blobs[f] # Gone THEN blobs[f]
                   ELSE IF f \in dels THEN Gone ELSE base[f]]

Added(c)   == {f \in Files : work[c].blobs[f] # Gone}
Changed(c) == Added(c) \cup work[c].dels

-----------------------------------------------------------------------------
(* The user.                                                               *)

Write(f, content) ==
  /\ ops < MaxOps /\ ops' = ops + 1
  /\ disk' = [disk EXCEPT ![f] = content]
  /\ UNCHANGED <<refs, recorded, work, failures>>

Edit(f)   == Write(f, ops + 1)
Delete(f) == disk[f] # Gone /\ Write(f, Gone)

-----------------------------------------------------------------------------
(* gitCommitToBranch.                                                      *)

At(c, l) == work[c].pc = l

Goto(c, l) == work' = [work EXCEPT ![c].pc = l]

InCall(c) == work[c].pc \in {"resolve", "seed", "rebuild", "write", "update"}

\* Mutant: a file is committed when its recorded hash is not that on disk.
DiffersFromRecord(f) == recorded[f] # Gone /\ disk[f] \notin {Gone, recorded[f]}

\* A tracked file that is to be committed, and one that is to be taken out.
Differs(f) == recorded[f] # Gone /\ disk[f] \notin {Gone, Tip(BranchOf[f])[f]}
Missing(f) == recorded[f] # Gone /\ disk[f] = Gone

\* Sync has read the files of a group and calls gitCommitToBranch.
Begin(c, b) ==
  LET blobs == [f \in Files |-> IF BranchOf[f] = b /\ Differs(f) THEN disk[f] ELSE Gone]
      dels  == {f \in Files : BranchOf[f] = b /\ Missing(f)}
  IN
  /\ At(c, "idle") /\ (blobs # Empty \/ dels # {})
  /\ work' = [work EXCEPT ![c] = [Idle EXCEPT !.pc = "resolve", !.branch = b,
                !.blobs = blobs, !.dels = dels, !.bases = {Tip(b)}]]
  /\ UNCHANGED <<refs, disk, recorded, ops, failures>>

\* git rev-parse --verify refs/heads/<branch>
ResolveParent(c) ==
  /\ At(c, "resolve")
  /\ work' = [work EXCEPT ![c].pc = "seed", ![c].parent = refs[work[c].branch]]
  /\ UNCHANGED <<refs, disk, recorded, ops, failures>>

\* It fails or takes more than 5 s: the error is dropped, as if there were
\* no such branch.
LookupFails(c) ==
  /\ At(c, "resolve") /\ failures < MaxFailures /\ failures' = failures + 1
  /\ work' = [work EXCEPT ![c].pc = "seed", ![c].parent = NoCommit]
  /\ UNCHANGED <<refs, disk, recorded, ops>>

\* git read-tree, of the parent or --empty, into the private index; then
\* git update-index --add --cacheinfo for every blob.
SeedIndex(c) ==
  /\ At(c, "seed")
  /\ work' = [work EXCEPT ![c].pc = IF work[c].dels = {} THEN "write" ELSE "rebuild",
                          ![c].index = Overlay(TreeOf(work[c].parent), work[c].blobs, {})]
  /\ UNCHANGED <<refs, disk, recorded, ops, failures>>

\* Mutant: the blobs are not added again after the index is cleared.
RebuildForgetsBlobs(c) ==
  /\ At(c, "rebuild")
  /\ work' = [work EXCEPT ![c].pc = "write",
       ![c].index = [f \in Files |-> IF f \in Changed(c) THEN Gone ELSE @[f]]]
  /\ UNCHANGED <<refs, disk, recorded, ops, failures>>

\* The index is listed, cleared, and filled again with every path that is
\* not deleted, and with the blobs.  git ls-files prints an unusual path in
\* quotes; with the quotes it is never in the set of deletions, and it comes
\* back under a name no file has.
Rebuild(c) ==
  /\ At(c, "rebuild")
  /\ work' = [work EXCEPT ![c].pc = "write",
       ![c].index = Overlay(@, work[c].blobs, work[c].dels \cup QuotedPaths)]
  /\ UNCHANGED <<refs, disk, recorded, ops, failures>>

\* Mutant: the parent is looked up again for the commit.
CommitTreeLooksAgain(c) ==
  /\ At(c, "write")
  /\ work' = [work EXCEPT ![c].pc = "update", ![c].parent = NoCommit, ![c].index = Empty,
       ![c].new = [tree |-> work[c].index, parent |-> Tip(work[c].branch), changed |-> Changed(c)]]
  /\ UNCHANGED <<refs, disk, recorded, ops, failures>>

\* Mutant: the commit is made without -p.
CommitTreeOrphan(c) ==
  /\ At(c, "write")
  /\ work' = [work EXCEPT ![c].pc = "update", ![c].parent = NoCommit, ![c].index = Empty,
       ![c].new = [tree |-> work[c].index, parent |-> NoCommit, changed |-> Changed(c)]]
  /\ UNCHANGED <<refs, disk, recorded, ops, failures>>

\* git write-tree and commit-tree, on the parent looked up at the start
CommitTree(c) ==
  /\ At(c, "write")
  /\ work' = [work EXCEPT ![c].pc = "update", ![c].parent = NoCommit, ![c].index = Empty,
       ![c].new = [tree |-> work[c].index, parent |-> TreeOf(work[c].parent), changed |-> Changed(c)]]
  /\ UNCHANGED <<refs, disk, recorded, ops, failures>>

\* git update-ref, without the old value.  (bases is history: the tips that
\* a branch had while a commit to it was under way.)
UpdateRef(c) ==
  LET b == work[c].branch IN
  /\ At(c, "update")
  /\ refs' = [refs EXCEPT ![b] = work[c].new]
  /\ work' = [d \in Committers |->
       IF d = c THEN [work[c] EXCEPT !.pc = "record", !.new = NoCommit, !.bases = {}]
       ELSE IF InCall(d) /\ work[d].branch = b
       THEN [work[d] EXCEPT !.bases = @ \cup {work[c].new.tree}] ELSE work[d]]
  /\ UNCHANGED <<disk, recorded, ops, failures>>

\* A git command fails or the process is killed; the private index is lost.
Fails(c) ==
  /\ ~At(c, "idle") /\ failures < MaxFailures /\ failures' = failures + 1
  /\ work' = [work EXCEPT ![c] = Idle]
  /\ UNCHANGED <<refs, disk, recorded, ops>>

-----------------------------------------------------------------------------
(* After the commit: Sync settles the records, one by one.                 *)

\* The hash on disk is recorded if the branch holds it; a record that was
\* deleted meanwhile is dereferenced, and Sync panics.
Record(c, f) ==
  LET new == disk[f] # Gone /\ disk[f] = Tip(work[c].branch)[f] IN
  /\ At(c, "record") /\ f \in Added(c)
  /\ IF new /\ recorded[f] = Gone
     THEN work' = [work EXCEPT ![c] = Idle] /\ UNCHANGED recorded
     ELSE /\ recorded' = IF new THEN [recorded EXCEPT ![f] = disk[f]] ELSE recorded
          /\ work' = [work EXCEPT ![c].blobs[f] = Gone]
  /\ UNCHANGED <<refs, disk, ops, failures>>

\* The deleted files are untracked.
Untrack(c) ==
  /\ At(c, "record") /\ Added(c) = {}
  /\ recorded' = [f \in Files |-> IF f \in work[c].dels THEN Gone ELSE recorded[f]]
  /\ work' = [work EXCEPT ![c] = Idle]
  /\ UNCHANGED <<refs, disk, ops, failures>>

-----------------------------------------------------------------------------
\* Track has written the records; nothing is committed before the first Sync.
Init ==
  /\ refs = [b \in Branches |-> NoCommit]
  /\ disk = [f \in Files |-> 0] /\ recorded = [f \in Files |-> 0]
  /\ work = [c \in Committers |-> Idle]
  /\ ops = 0 /\ failures = 0

Step(c) ==
  \/ ResolveParent(c) \/ SeedIndex(c) \/ Rebuild(c) \/ CommitTree(c)
  \/ UpdateRef(c) \/ Untrack(c) \/ \E f \in Files : Record(c, f)

Next ==
  \/ \E f \in Files : Edit(f) \/ Delete(f)
  \/ \E c \in Committers :
       \/ Step(c) \/ LookupFails(c) \/ Fails(c)
       \/ \E b \in Branches : Begin(c, b)

Spec == Init /\ [][Next]_vars

\* A running process goes on, and Sync is run again.
Fairness ==
  \A c \in Committers : WF_vars(Step(c)) /\ \A b \in Branches : WF_vars(Begin(c, b))

FairSpec == Spec /\ Fairness

-----------------------------------------------------------------------------
(* Properties.                                                             *)

Locals ==
  [pc : {"idle", "resolve", "seed", "rebuild", "write", "update", "record"},
   branch : Branches, blobs : Trees, dels : SUBSET Files, parent : Commits \cup {NoCommit},
   index : Trees, new : Commits \cup {NoCommit}, bases : SUBSET Trees]

TypeOK ==
  /\ refs \in [Branches -> Commits \cup {NoCommit}]
  /\ disk \in Trees /\ recorded \in Trees
  /\ work \in [Committers -> Locals]
  /\ ops \in 0..MaxOps /\ failures \in 0..MaxFailures

\* A commit differs from its parent in the paths its caller asked for and in
\* no other, however many commits to the branch overlapped: the index and the
\* parent come from one look-up, so history never shows a change nobody made.
HistoryHonest ==
  \A b \in Branches : refs[b] # NoCommit =>
    \A f \in Files \ refs[b].changed : refs[b].tree[f] = refs[b].parent[f]

\* Every commit is the atomic step BranchStore describes, or changes nothing.
Store == INSTANCE BranchStore WITH
  Callers <- Committers,
  tips  <- [b \in Branches |-> Tip(b)],
  calls <- [c \in Committers |->
              IF InCall(c) THEN [branch |-> work[c].branch, blobs |-> work[c].blobs,
                                 dels |-> work[c].dels, bases |-> work[c].bases]
              ELSE NoCall]

Implements == Store!Spec

\* Commits that overlap may undo each other, and a failed look-up drops
\* everything else in the branch; but Sync compares with the tip and not
\* with the records, so what is tracked ends up committed all the same.
Heals ==
  <>[](\A f \in Files : recorded[f] # Gone => Tip(BranchOf[f])[f] = disk[f])

\* Files not included in a commit are preserved in the tree.
PreservesOthers ==
  [][\A b \in Branches : refs'[b] # refs[b] =>
       \A f \in Files \ refs'[b].changed : TreeOf(refs'[b])[f] = Tip(b)[f]]_vars

-----------------------------------------------------------------------------
(* The inductive invariant behind HistoryHonest and Implements.            *)

\* What a committer has built so far, from the parent it looked up.
BuildInv ==
  \A c \in Committers :
    LET w == work[c] base == TreeOf(w.parent) IN
    /\ w.pc \in {"seed", "rebuild", "write"} => base \in w.bases \cup {Empty}
    /\ w.pc = "rebuild" => w.index = Overlay(base, w.blobs, {})
    /\ w.pc = "write"   => w.index = Overlay(base, w.blobs, w.dels)
    /\ w.pc = "update"  => /\ w.new # NoCommit /\ w.new.parent \in w.bases \cup {Empty}
                           /\ w.new.tree = Overlay(w.new.parent, w.blobs, w.dels)
                           /\ w.new.changed = Changed(c)

\* A committer that still looks for its parent knows the tip.
BasesInv ==
  \A c \in Committers : InCall(c) => Tip(work[c].branch) \in work[c].bases

IInv == TypeOK /\ HistoryHonest /\ BuildInv /\ BasesInv
=============================================================================
