--------------------------- MODULE GitRefsProofs ---------------------------
(***************************************************************************)
(* Proofs about GitRefs, for any committers, branches, files and bounds,   *)
(* as long as git quotes none of the paths.                                *)
(*                                                                         *)
(* IInv is inductive.  What a committer has built is the overlay of the    *)
(* tree of its parent (BuildInv), and that parent is a tip the branch had  *)
(* since the call began, or nothing (BasesInv, BuildInv).  HistoryHonest   *)
(* and the refinement of BranchStore follow: update-ref is its Commit.     *)
(***************************************************************************)
EXTENDS GitRefs, TLAPS

-----------------------------------------------------------------------------
(* The operators on trees.                                                 *)

\* An overlay of trees is a tree.
LEMMA OverlayTypes ==
  ASSUME NEW base \in Trees, NEW blobs \in Trees, NEW dels
  PROVE  Overlay(base, blobs, dels) \in Trees
BY DEF Overlay, Trees

\* Adding the blobs again after the deletions changes nothing else.
LEMMA OverlayAgain ==
  ASSUME NEW base, NEW blobs, NEW dels
  PROVE  Overlay(Overlay(base, blobs, {}), blobs, dels) = Overlay(base, blobs, dels)
BY DEF Overlay

\* An overlay leaves every other path alone.
LEMMA OverlayOthers ==
  ASSUME NEW base, NEW blobs, NEW dels, NEW f \in Files, blobs[f] = Gone, f \notin dels
  PROVE  Overlay(base, blobs, dels)[f] = base[f]
BY DEF Overlay

\* The empty tree, the idle locals, and the tree of a commit are well typed.
LEMMA Types ==
  /\ Empty \in Trees /\ Idle \in Locals
  /\ \A r \in Commits \cup {NoCommit} : TreeOf(r) \in Trees
<1>1. Empty \in Trees BY DEF Empty, Trees
<1>2. (CHOOSE b \in Branches : TRUE) \in Branches BY GitAssumption
<1>3. Idle \in Locals BY <1>1, <1>2 DEF Idle, Locals
<1>4. \A r \in Commits \cup {NoCommit} : TreeOf(r) \in Trees
  BY <1>1, GitAssumption DEF TreeOf, Commits
<1> QED BY <1>1, <1>3, <1>4

\* The tip of a branch is a tree.
LEMMA TipTypes ==
  ASSUME TypeOK, NEW b \in Branches
  PROVE  Tip(b) \in Trees
BY Types DEF TypeOK, Tip

-----------------------------------------------------------------------------
(* Type correctness.                                                       *)

\* Every step keeps the types.
LEMMA TypeStep ==
  ASSUME TypeOK, BuildInv, [Next]_vars
  PROVE  TypeOK'
<1> USE Types, GitAssumption
<1>0. /\ refs \in [Branches -> Commits \cup {NoCommit}] /\ disk \in Trees /\ recorded \in Trees
      /\ work \in [Committers -> Locals] /\ ops \in 0..MaxOps /\ failures \in 0..MaxFailures
  BY DEF TypeOK
<1>1. ASSUME NEW f \in Files, Edit(f) \/ Delete(f) PROVE TypeOK'
  <2>1. disk' \in Trees /\ ops' \in 0..MaxOps
    BY <1>0, <1>1 DEF Edit, Delete, Write, Trees, Contents
  <2>2. UNCHANGED <<refs, recorded, work, failures>> BY <1>1 DEF Edit, Delete, Write
  <2> QED BY <1>0, <2>1, <2>2 DEF TypeOK
<1>2. ASSUME NEW c \in Committers, NEW b \in Branches, Begin(c, b) PROVE TypeOK'
  <2> DEFINE blobs == [f \in Files |-> IF BranchOf[f] = b /\ Differs(f) THEN disk[f] ELSE Gone]
             dels  == {f \in Files : BranchOf[f] = b /\ Missing(f)}
  <2>1. blobs \in Trees /\ dels \subseteq Files BY <1>0 DEF Trees
  <2>2. work' = [work EXCEPT ![c] = [Idle EXCEPT !.pc = "resolve", !.branch = b,
                !.blobs = blobs, !.dels = dels, !.bases = {Tip(b)}]]
    BY <1>2 DEF Begin
  <2> HIDE DEF blobs, dels
  <2>3. [Idle EXCEPT !.pc = "resolve", !.branch = b, !.blobs = blobs, !.dels = dels,
                     !.bases = {Tip(b)}] \in Locals
    BY <2>1, TipTypes DEF Locals
  <2>4. work' \in [Committers -> Locals] BY <1>0, <2>2, <2>3
  <2>5. UNCHANGED <<refs, disk, recorded, ops, failures>> BY <1>2 DEF Begin
  <2> QED BY <1>0, <2>4, <2>5 DEF TypeOK
<1>3. ASSUME NEW c \in Committers, ResolveParent(c) \/ LookupFails(c) PROVE TypeOK'
  <2>1. work[c] \in Locals /\ refs[work[c].branch] \in Commits \cup {NoCommit} BY <1>0 DEF Locals
  <2>2. PICK p \in Commits \cup {NoCommit} :
          work' = [work EXCEPT ![c].pc = "seed", ![c].parent = p]
    BY <1>3, <2>1 DEF ResolveParent, LookupFails
  <2>3. work' \in [Committers -> Locals] BY <1>0, <2>1, <2>2 DEF Locals
  <2>4. UNCHANGED <<refs, disk, recorded, ops>> /\ failures' \in 0..MaxFailures
    BY <1>0, <1>3 DEF ResolveParent, LookupFails
  <2> QED BY <1>0, <2>3, <2>4 DEF TypeOK
<1>4. ASSUME NEW c \in Committers, SeedIndex(c) \/ Rebuild(c) \/ CommitTree(c) PROVE TypeOK'
  <2>1. work[c] \in Locals /\ TreeOf(work[c].parent) \in Trees BY <1>0 DEF Locals
  <2>2. \A base \in Trees : \A dels : Overlay(base, work[c].blobs, dels) \in Trees
    BY <2>1, OverlayTypes DEF Locals
  <2>3. Changed(c) \subseteq Files BY <2>1 DEF Changed, Added, Locals
  <2>4. CASE SeedIndex(c) \/ Rebuild(c)
    <3>1. PICK l \in {"rebuild", "write"}, t \in Trees :
            work' = [work EXCEPT ![c].pc = l, ![c].index = t]
      BY <2>1, <2>2, <2>4 DEF SeedIndex, Rebuild, Locals
    <3> QED BY <1>0, <2>1, <2>4, <3>1 DEF SeedIndex, Rebuild, TypeOK, Locals
  <2>5. CASE CommitTree(c)
    <3>1. PICK n \in Commits : work' = [work EXCEPT ![c].pc = "update", ![c].parent = NoCommit,
                                          ![c].index = Empty, ![c].new = n]
      BY <2>1, <2>3, <2>5 DEF CommitTree, Locals, Commits
    <3>2. [work[c] EXCEPT !.pc = "update", !.parent = NoCommit, !.index = Empty, !.new = n] \in Locals
      BY <2>1 DEF Locals
    <3>3. work' \in [Committers -> Locals] BY <1>0, <3>1, <3>2
    <3> QED BY <1>0, <2>5, <3>3 DEF CommitTree, TypeOK
  <2> QED BY <1>4, <2>4, <2>5
<1>5. ASSUME NEW c \in Committers, UpdateRef(c) PROVE TypeOK'
  <2>1. work[c] \in Locals /\ work[c].new \in Commits BY <1>0, <1>5 DEF Locals, UpdateRef, At, BuildInv
  <2>2. refs' \in [Branches -> Commits \cup {NoCommit}] BY <1>0, <1>5, <2>1 DEF UpdateRef
  <2>3. ASSUME NEW d \in Committers PROVE work'[d] \in Locals
    <3>1. work[d] \in Locals BY <1>0
    <3>2. work[c].new.tree \in Trees BY <2>1 DEF Commits
    <3>3. \/ work'[d] = [work[c] EXCEPT !.pc = "record", !.new = NoCommit, !.bases = {}]
          \/ work'[d] = [work[d] EXCEPT !.bases = @ \cup {work[c].new.tree}]
          \/ work'[d] = work[d]
      BY <1>5 DEF UpdateRef
    <3>4. [work[c] EXCEPT !.pc = "record", !.new = NoCommit, !.bases = {}] \in Locals
      BY <2>1 DEF Locals
    <3>5. [work[d] EXCEPT !.bases = @ \cup {work[c].new.tree}] \in Locals
      BY <3>1, <3>2 DEF Locals
    <3> QED BY <3>1, <3>3, <3>4, <3>5
  <2>4. work' = [d \in Committers |-> work'[d]] BY <1>5 DEF UpdateRef
  <2>5. UNCHANGED <<disk, recorded, ops, failures>> BY <1>5 DEF UpdateRef
  <2> QED BY <1>0, <2>2, <2>3, <2>4, <2>5 DEF TypeOK
<1>6. ASSUME NEW c \in Committers, Fails(c) PROVE TypeOK'
  BY <1>0, <1>6 DEF Fails, TypeOK
<1>7. ASSUME NEW c \in Committers, NEW f \in Files, Record(c, f) PROVE TypeOK'
  <2>1. work[c] \in Locals BY <1>0
  <2>2. work' = [work EXCEPT ![c] = Idle] \/ work' = [work EXCEPT ![c].blobs[f] = Gone]
    BY <1>7 DEF Record
  <2>3. [work[c].blobs EXCEPT ![f] = Gone] \in Trees BY <2>1 DEF Locals, Trees
  <2>4. work' \in [Committers -> Locals]
    <3>1. [work[c] EXCEPT !.blobs[f] = Gone] \in Locals BY <2>1, <2>3 DEF Locals
    <3> QED BY <1>0, <2>2, <3>1
  <2>5. recorded' = recorded \/ recorded' = [recorded EXCEPT ![f] = disk[f]] BY <1>7 DEF Record
  <2>6. recorded' \in Trees BY <1>0, <2>5 DEF Trees
  <2>7. UNCHANGED <<refs, disk, ops, failures>> BY <1>7 DEF Record
  <2> QED BY <1>0, <2>4, <2>6, <2>7 DEF TypeOK
<1>8. ASSUME NEW c \in Committers, Untrack(c) PROVE TypeOK'
  <2>1. recorded' \in Trees BY <1>0, <1>8 DEF Untrack, Trees
  <2>2. work' \in [Committers -> Locals] BY <1>0, <1>8 DEF Untrack
  <2> QED BY <1>0, <1>8, <2>1, <2>2 DEF Untrack, TypeOK
<1>9. CASE UNCHANGED vars BY <1>9 DEF vars, TypeOK
<1> QED BY <1>1, <1>2, <1>3, <1>4, <1>5, <1>6, <1>7, <1>8, <1>9 DEF Next, Step

-----------------------------------------------------------------------------
(* What committers build.                                                  *)

\* The part of BuildInv about one committer, of its locals alone.
BuildOK(w) ==
  LET base == TreeOf(w.parent) IN
  /\ w.pc \in {"seed", "rebuild", "write"} => base \in w.bases \cup {Empty}
  /\ w.pc = "rebuild" => w.index = Overlay(base, w.blobs, {})
  /\ w.pc = "write"   => w.index = Overlay(base, w.blobs, w.dels)
  /\ w.pc = "update"  => /\ w.new # NoCommit /\ w.new.parent \in w.bases \cup {Empty}
                         /\ w.new.tree = Overlay(w.new.parent, w.blobs, w.dels)
                         /\ w.new.changed = {f \in Files : w.blobs[f] # Gone} \cup w.dels

LEMMA BuildDef ==
  /\ BuildInv <=> \A c \in Committers : BuildOK(work[c])
  /\ BuildInv' <=> \A c \in Committers : BuildOK(work'[c])
BY DEF BuildInv, BuildOK, Changed, Added

\* Every step keeps what is built in line with its parent.
LEMMA BuildStep ==
  ASSUME QuotedPaths = {}, TypeOK, BuildInv, BasesInv, [Next]_vars
  PROVE  BuildInv'
<1> SUFFICES ASSUME NEW d \in Committers PROVE BuildOK(work'[d]) BY BuildDef
<1>0. work \in [Committers -> Locals] /\ BuildOK(work[d]) BY BuildDef DEF TypeOK
<1>i. BuildOK(Idle) BY DEF BuildOK, Idle
<1>1. ASSUME NEW c \in Committers, NEW b \in Branches, Begin(c, b) PROVE BuildOK(work'[d])
  <2>1. work'[d] = work[d] \/ work'[d].pc = "resolve" BY <1>0, <1>1, Types DEF Begin, Idle
  <2> QED BY <1>0, <2>1 DEF BuildOK
<1>2. ASSUME NEW c \in Committers, ResolveParent(c) \/ LookupFails(c) PROVE BuildOK(work'[d])
  <2>1. work[c] \in Locals BY <1>0
  <2>2. PICK p : /\ work' = [work EXCEPT ![c].pc = "seed", ![c].parent = p]
                 /\ TreeOf(p) \in work[c].bases \cup {Empty}
    BY <1>2 DEF ResolveParent, LookupFails, At, InCall, BasesInv, Tip, TreeOf
  <2>3. work'[c].pc = "seed" /\ work'[c].parent = p /\ work'[c].bases = work[c].bases
    BY <1>0, <2>1, <2>2 DEF Locals
  <2>4. BuildOK(work'[c]) BY <2>2, <2>3 DEF BuildOK
  <2> QED BY <1>0, <2>2, <2>4
<1>3. ASSUME NEW c \in Committers, SeedIndex(c) PROVE BuildOK(work'[d])
  <2>1. work[c] \in Locals BY <1>0
  <2>2. work' = [work EXCEPT ![c].pc = IF work[c].dels = {} THEN "write" ELSE "rebuild",
                   ![c].index = Overlay(TreeOf(work[c].parent), work[c].blobs, {})]
    BY <1>3 DEF SeedIndex
  <2>3. /\ work'[c].pc = IF work[c].dels = {} THEN "write" ELSE "rebuild"
        /\ work'[c].index = Overlay(TreeOf(work[c].parent), work[c].blobs, {})
        /\ work'[c].parent = work[c].parent /\ work'[c].bases = work[c].bases
        /\ work'[c].blobs = work[c].blobs /\ work'[c].dels = work[c].dels
    BY <1>0, <2>1, <2>2 DEF Locals
  <2>4. TreeOf(work[c].parent) \in work[c].bases \cup {Empty}
    BY <1>3, BuildDef DEF SeedIndex, At, BuildOK
  <2>5. BuildOK(work'[c]) BY <2>3, <2>4 DEF BuildOK
  <2> QED BY <1>0, <2>2, <2>5
<1>4. ASSUME NEW c \in Committers, Rebuild(c) PROVE BuildOK(work'[d])
  <2>1. work[c] \in Locals BY <1>0
  <2>2. work' = [work EXCEPT ![c].pc = "write",
                   ![c].index = Overlay(@, work[c].blobs, work[c].dels)]
    BY <1>4 DEF Rebuild
  <2>3. /\ work'[c].pc = "write"
        /\ work'[c].index = Overlay(work[c].index, work[c].blobs, work[c].dels)
        /\ work'[c].parent = work[c].parent /\ work'[c].bases = work[c].bases
        /\ work'[c].blobs = work[c].blobs /\ work'[c].dels = work[c].dels
    BY <1>0, <2>1, <2>2 DEF Locals
  <2>4. /\ TreeOf(work[c].parent) \in work[c].bases \cup {Empty}
        /\ work[c].index = Overlay(TreeOf(work[c].parent), work[c].blobs, {})
    BY <1>4, BuildDef DEF Rebuild, At, BuildOK
  <2>5. work'[c].index = Overlay(TreeOf(work[c].parent), work[c].blobs, work[c].dels)
    BY <2>3, <2>4, OverlayAgain
  <2>6. BuildOK(work'[c]) BY <2>3, <2>4, <2>5 DEF BuildOK
  <2> QED BY <1>0, <2>2, <2>6
<1>5. ASSUME NEW c \in Committers, CommitTree(c) PROVE BuildOK(work'[d])
  <2>1. work[c] \in Locals BY <1>0
  <2> DEFINE n == [tree |-> work[c].index, parent |-> TreeOf(work[c].parent), changed |-> Changed(c)]
  <2>2. work' = [work EXCEPT ![c].pc = "update", ![c].parent = NoCommit,
                             ![c].index = Empty, ![c].new = n]
    BY <1>5 DEF CommitTree
  <2>3. /\ TreeOf(work[c].parent) \in work[c].bases \cup {Empty}
        /\ work[c].index = Overlay(TreeOf(work[c].parent), work[c].blobs, work[c].dels)
    BY <1>5, BuildDef DEF CommitTree, At, BuildOK
  <2>4. /\ n.parent \in work[c].bases \cup {Empty}
        /\ n.tree = Overlay(n.parent, work[c].blobs, work[c].dels)
        /\ n.changed = {f \in Files : work[c].blobs[f] # Gone} \cup work[c].dels
    BY <2>3 DEF Changed, Added
  <2>5. n # NoCommit
    <3>1. work[c].index \in Trees /\ TreeOf(work[c].parent) \in Trees /\ Changed(c) \subseteq Files
      BY <2>1, Types DEF Locals, Changed, Added
    <3> QED BY <3>1, GitAssumption DEF Commits
  <2> HIDE DEF n
  <2>6. /\ work'[c].pc = "update" /\ work'[c].new = n /\ work'[c].bases = work[c].bases
        /\ work'[c].blobs = work[c].blobs /\ work'[c].dels = work[c].dels
    BY <1>0, <2>1, <2>2 DEF Locals
  <2>7. BuildOK(work'[c]) BY <2>4, <2>5, <2>6 DEF BuildOK
  <2> QED BY <1>0, <2>2, <2>7
<1>6. ASSUME NEW c \in Committers, UpdateRef(c) PROVE BuildOK(work'[d])
  <2>1. work[c] \in Locals /\ work[d] \in Locals BY <1>0
  <2>2. \/ work'[d] = [work[c] EXCEPT !.pc = "record", !.new = NoCommit, !.bases = {}]
        \/ work'[d] = [work[d] EXCEPT !.bases = @ \cup {work[c].new.tree}]
        \/ work'[d] = work[d]
    BY <1>6 DEF UpdateRef
  <2>3. CASE work'[d] = [work[c] EXCEPT !.pc = "record", !.new = NoCommit, !.bases = {}]
    BY <2>1, <2>3 DEF BuildOK, Locals
  <2>4. CASE work'[d] = [work[d] EXCEPT !.bases = @ \cup {work[c].new.tree}]
    <3>1. /\ work'[d].pc = work[d].pc /\ work'[d].parent = work[d].parent
          /\ work'[d].index = work[d].index /\ work'[d].new = work[d].new
          /\ work'[d].blobs = work[d].blobs /\ work'[d].dels = work[d].dels
          /\ work[d].bases \subseteq work'[d].bases
      BY <2>1, <2>4 DEF Locals
    <3> QED BY <1>0, <3>1 DEF BuildOK
  <2> QED BY <1>0, <2>2, <2>3, <2>4
<1>7. ASSUME NEW c \in Committers, Fails(c) \/ Untrack(c) PROVE BuildOK(work'[d])
  BY <1>0, <1>7, <1>i DEF Fails, Untrack
<1>8. ASSUME NEW c \in Committers, NEW f \in Files, Record(c, f) PROVE BuildOK(work'[d])
  <2>1. work[c] \in Locals /\ work[c].pc = "record" BY <1>0, <1>8 DEF Record, At
  <2>2. work' = [work EXCEPT ![c] = Idle] \/ work' = [work EXCEPT ![c].blobs[f] = Gone]
    BY <1>8 DEF Record
  <2>3. CASE work' = [work EXCEPT ![c] = Idle] BY <1>0, <1>i, <2>3
  <2>4. CASE work' = [work EXCEPT ![c].blobs[f] = Gone]
    <3>1. work'[c].pc = "record" BY <1>0, <2>1, <2>4 DEF Locals
    <3>2. BuildOK(work'[c]) BY <3>1 DEF BuildOK
    <3> QED BY <1>0, <2>4, <3>2
  <2> QED BY <2>2, <2>3, <2>4
<1>9. CASE UNCHANGED work BY <1>0, <1>9
<1>10. ASSUME NEW f \in Files, Edit(f) \/ Delete(f) PROVE UNCHANGED work
  BY <1>10 DEF Edit, Delete, Write
<1> QED BY <1>1, <1>2, <1>3, <1>4, <1>5, <1>6, <1>7, <1>8, <1>9, <1>10 DEF Next, Step, vars

\* A committer always knows the tip of its branch: only UpdateRef moves it,
\* and it tells the others.
LEMMA BasesStep ==
  ASSUME TypeOK, BuildInv, BasesInv, [Next]_vars
  PROVE  BasesInv'
<1> SUFFICES ASSUME NEW d \in Committers, InCall(d)'
             PROVE  TreeOf(refs'[work'[d].branch]) \in work'[d].bases
  BY DEF BasesInv, Tip
<1>0. work \in [Committers -> Locals] /\ work[d] \in Locals BY DEF TypeOK
<1>i. Idle.pc = "idle" BY DEF Idle
<1> DEFINE Goal == TreeOf(refs'[work'[d].branch]) \in work'[d].bases
           Same == /\ work'[d].branch = work[d].branch /\ work'[d].bases = work[d].bases
                   /\ InCall(d)
<1>1. ASSUME refs' = refs, Same PROVE Goal BY <1>1 DEF BasesInv, Tip
<1>2. ASSUME NEW c \in Committers, NEW b \in Branches, Begin(c, b) PROVE Goal
  <2>1. CASE c = d
    <3>1. work'[d].branch = b /\ work'[d].bases = {Tip(b)} /\ refs' = refs
      BY <1>0, <1>2, <2>1, Types DEF Begin, Locals
    <3> QED BY <3>1 DEF Tip
  <2>2. CASE c # d
    <3>1. work'[d] = work[d] /\ refs' = refs BY <1>0, <1>2, <2>2 DEF Begin
    <3> QED BY <1>1, <3>1 DEF InCall
  <2> QED BY <2>1, <2>2
<1>3. ASSUME NEW c \in Committers,
             ResolveParent(c) \/ LookupFails(c) \/ SeedIndex(c) \/ Rebuild(c) \/ CommitTree(c)
      PROVE  Goal
  <2>1. work[c] \in Locals /\ InCall(c) /\ refs' = refs
    BY <1>0, <1>3 DEF InCall, At, ResolveParent, LookupFails, SeedIndex, Rebuild, CommitTree
  <2>2. work'[d].branch = work[d].branch /\ work'[d].bases = work[d].bases
    BY <1>0, <1>3 DEF ResolveParent, LookupFails, SeedIndex, Rebuild, CommitTree, Locals
  <2>3. c # d => work'[d] = work[d]
    BY <1>0, <1>3 DEF ResolveParent, LookupFails, SeedIndex, Rebuild, CommitTree
  <2> QED BY <1>1, <2>1, <2>2, <2>3 DEF InCall
<1>4. ASSUME NEW c \in Committers, UpdateRef(c) PROVE Goal
  <2> DEFINE b == work[c].branch
  <2>1. b \in Branches /\ refs' = [refs EXCEPT ![b] = work[c].new] BY <1>0, <1>4 DEF UpdateRef, Locals
  <2>2. work'[d] = IF d = c THEN [work[c] EXCEPT !.pc = "record", !.new = NoCommit, !.bases = {}]
                   ELSE IF InCall(d) /\ work[d].branch = b
                   THEN [work[d] EXCEPT !.bases = @ \cup {work[c].new.tree}] ELSE work[d]
    BY <1>4 DEF UpdateRef
  <2>3. d # c BY <1>0, <2>2 DEF InCall, Locals
  <2>4. CASE InCall(d) /\ work[d].branch = b
    <3>1. work'[d].branch = b /\ work[c].new.tree \in work'[d].bases
      BY <1>0, <2>2, <2>3, <2>4 DEF Locals
    <3>2. work[c].new # NoCommit BY <1>4 DEF UpdateRef, At, BuildInv
    <3>3. refs'[b] = work[c].new BY <2>1 DEF TypeOK
    <3> QED BY <3>1, <3>2, <3>3 DEF TreeOf
  <2>5. CASE ~(InCall(d) /\ work[d].branch = b)
    <3>1. work'[d] = work[d] BY <2>2, <2>3, <2>5
    <3>2. InCall(d) /\ work[d].branch # b BY <2>5, <3>1 DEF InCall
    <3>3. refs'[work[d].branch] = refs[work[d].branch] BY <2>1, <3>2 DEF TypeOK
    <3> QED BY <3>1, <3>2, <3>3 DEF BasesInv, Tip
  <2> QED BY <2>4, <2>5
<1>5. ASSUME NEW c \in Committers, Fails(c) \/ Untrack(c) PROVE Goal
  <2>1. refs' = refs /\ work' = [work EXCEPT ![c] = Idle] BY <1>5 DEF Fails, Untrack
  <2>2. c # d BY <1>0, <1>i, <2>1 DEF InCall
  <2> QED BY <1>0, <1>1, <2>1, <2>2 DEF InCall
<1>6. ASSUME NEW c \in Committers, NEW f \in Files, Record(c, f) PROVE Goal
  <2>1. work[c].pc = "record" /\ refs' = refs BY <1>6 DEF Record, At
  <2>2. work' = [work EXCEPT ![c] = Idle] \/ work' = [work EXCEPT ![c].blobs[f] = Gone]
    BY <1>6 DEF Record
  <2>3. c # d BY <1>0, <1>i, <2>1, <2>2 DEF InCall, Locals
  <2> QED BY <1>0, <1>1, <2>1, <2>2, <2>3 DEF InCall
<1>7. ASSUME UNCHANGED <<refs, work>> PROVE Goal BY <1>1, <1>7 DEF InCall
<1>8. ASSUME NEW f \in Files, Edit(f) \/ Delete(f) PROVE UNCHANGED <<refs, work>>
  BY <1>8 DEF Edit, Delete, Write
<1> HIDE DEF Goal
<1>9. Goal BY <1>2, <1>3, <1>4, <1>5, <1>6, <1>7, <1>8 DEF Next, Step, vars
<1> QED BY <1>9 DEF Goal

\* The commit a branch moves to is the overlay its caller asked for.
LEMMA HistoryStep ==
  ASSUME TypeOK, BuildInv, HistoryHonest, [Next]_vars
  PROVE  HistoryHonest'
<1> SUFFICES ASSUME NEW b \in Branches, refs'[b] # NoCommit, NEW f \in Files \ refs'[b].changed
             PROVE  refs'[b].tree[f] = refs'[b].parent[f]
  BY DEF HistoryHonest
<1>1. CASE UNCHANGED refs BY <1>1 DEF HistoryHonest
<1>2. ASSUME NEW c \in Committers, UpdateRef(c) PROVE refs'[b].tree[f] = refs'[b].parent[f]
  <2>1. refs' = [refs EXCEPT ![work[c].branch] = work[c].new] BY <1>2 DEF UpdateRef
  <2>2. refs'[b] = refs[b] \/ refs'[b] = work[c].new BY <2>1 DEF TypeOK
  <2>3. CASE refs'[b] = work[c].new
    <3>1. /\ work[c].new.tree = Overlay(work[c].new.parent, work[c].blobs, work[c].dels)
          /\ work[c].new.changed = Changed(c)
      BY <1>2 DEF UpdateRef, At, BuildInv
    <3>2. work[c].blobs[f] = Gone /\ f \notin work[c].dels BY <2>3, <3>1 DEF Changed, Added
    <3> QED BY <2>3, <3>1, <3>2, OverlayOthers
  <2> QED BY <2>2, <2>3 DEF HistoryHonest
<1>3. ASSUME NEW c \in Committers,
             \/ ResolveParent(c) \/ LookupFails(c) \/ SeedIndex(c) \/ Rebuild(c) \/ CommitTree(c)
             \/ Fails(c) \/ Untrack(c) \/ \E h \in Files : Record(c, h)
             \/ \E h \in Branches : Begin(c, h)
      PROVE  UNCHANGED refs
  BY <1>3 DEF ResolveParent, LookupFails, SeedIndex, Rebuild, CommitTree, Fails, Untrack,
    Record, Begin
<1>4. ASSUME NEW h \in Files, Edit(h) \/ Delete(h) PROVE UNCHANGED refs
  BY <1>4 DEF Edit, Delete, Write
<1> QED BY <1>1, <1>2, <1>3, <1>4 DEF Next, Step, vars

\* IInv holds initially.
LEMMA InitIInv == Init => IInv
<1> SUFFICES ASSUME Init PROVE IInv OBVIOUS
<1>0. work = [c \in Committers |-> Idle] /\ Idle.pc = "idle" BY DEF Init, Idle
<1>1. TypeOK BY Types, GitAssumption DEF Init, TypeOK, Trees, Contents
<1>2. HistoryHonest BY DEF Init, HistoryHonest
<1>3. BuildInv BY <1>0 DEF BuildInv
<1>4. BasesInv BY <1>0 DEF BasesInv, InCall
<1> QED BY <1>1, <1>2, <1>3, <1>4 DEF IInv

\* IInv is an invariant when git quotes no path.
THEOREM Inductive == QuotedPaths = {} => (Spec => []IInv)
<1> SUFFICES ASSUME QuotedPaths = {} PROVE Spec => []IInv OBVIOUS
<1>1. IInv /\ [Next]_vars => IInv'
  BY TypeStep, BuildStep, BasesStep, HistoryStep DEF IInv
<1> QED BY <1>1, InitIInv, PTL DEF Spec

\* Every variable keeps its type.
THEOREM TypeCorrect == QuotedPaths = {} => (Spec => []TypeOK)
BY Inductive, PTL DEF IInv

\* A commit never shows a change that its caller did not ask for, however
\* the look-ups and the ref updates of several committers interleave.
THEOREM HistoryIsHonest == QuotedPaths = {} => (Spec => []HistoryHonest)
BY Inductive, PTL DEF IInv

-----------------------------------------------------------------------------
(* The refinement of BranchStore.                                          *)

\* The abstract call of a committer.
AbstractCall(c) ==
  IF InCall(c) THEN [branch |-> work[c].branch, blobs |-> work[c].blobs,
                     dels |-> work[c].dels, bases |-> work[c].bases]
  ELSE NoCall

AbstractTips  == [b \in Branches |-> Tip(b)]
AbstractCalls == [c \in Committers |-> AbstractCall(c)]

\* A call in progress is a record, so it is not NoCall.
LEMMA InCallIsCall ==
  ASSUME TypeOK, NEW c \in Committers, InCall(c)
  PROVE  AbstractCall(c) # NoCall
<1>1. work[c] \in Locals BY DEF TypeOK
<1>2. AbstractCall(c) \in Calls BY <1>1 DEF AbstractCall, Calls, Locals
<1> QED BY <1>2, GitAssumption

\* Begin is the abstract Call.
LEMMA BeginRefines ==
  ASSUME TypeOK, NEW c \in Committers, NEW b \in Branches, Begin(c, b)
  PROVE  Store!Call(c)
<1> DEFINE blobs == [f \in Files |-> IF BranchOf[f] = b /\ Differs(f) THEN disk[f] ELSE Gone]
           dels  == {f \in Files : BranchOf[f] = b /\ Missing(f)}
           r     == [branch |-> b, blobs |-> blobs, dels |-> dels, bases |-> {Tip(b)}]
<1>1. blobs \in Trees /\ dels \in SUBSET Files BY DEF TypeOK, Trees
<1>2. work' = [work EXCEPT ![c] = [Idle EXCEPT !.pc = "resolve", !.branch = b,
                 !.blobs = blobs, !.dels = dels, !.bases = {Tip(b)}]]
  BY DEF Begin
<1>3. work[c].pc = "idle" /\ refs' = refs BY DEF Begin, At
<1> HIDE DEF blobs, dels
<1>4. work \in [Committers -> Locals] /\ Idle \in Locals BY Types DEF TypeOK
<1>5. /\ work'[c].pc = "resolve" /\ work'[c].branch = b /\ work'[c].blobs = blobs
      /\ work'[c].dels = dels /\ work'[c].bases = {Tip(b)}
  BY <1>2, <1>4 DEF Locals
<1>6. AbstractCalls[c] = NoCall BY <1>3 DEF AbstractCalls, AbstractCall, InCall
<1>7. AbstractCall(c)' = r BY <1>5 DEF AbstractCall, InCall
<1>8. \A d \in Committers : d # c => AbstractCall(d)' = AbstractCall(d)
  BY <1>2, <1>4 DEF AbstractCall, InCall
<1>9. AbstractCalls' = [AbstractCalls EXCEPT ![c] = r] BY <1>7, <1>8 DEF AbstractCalls
<1>10. AbstractTips' = AbstractTips /\ AbstractTips[b] = Tip(b) BY <1>3 DEF AbstractTips, Tip
<1> HIDE DEF r
<1> QED BY <1>1, <1>6, <1>9, <1>10
        DEF Store!Call, AbstractTips, AbstractCalls, AbstractCall, Store!Trees, Trees, r

\* UpdateRef is the abstract Commit, on the parent looked up.
LEMMA UpdateRefRefines ==
  ASSUME TypeOK, BuildInv, NEW c \in Committers, UpdateRef(c)
  PROVE  Store!Commit(c)
<1> DEFINE b == work[c].branch
           r == AbstractCalls[c]
           base == work[c].new.parent
           new == Overlay(base, work[c].blobs, work[c].dels)
<1>1. work \in [Committers -> Locals] /\ work[c] \in Locals /\ b \in Branches BY DEF TypeOK, Locals
<1>2. work[c].pc = "update" /\ InCall(c) BY DEF UpdateRef, At, InCall
<1>3. work[c].new # NoCommit /\ base \in work[c].bases \cup {Empty} /\ work[c].new.tree = new
  BY <1>2 DEF BuildInv
<1>4. r = [branch |-> b, blobs |-> work[c].blobs, dels |-> work[c].dels, bases |-> work[c].bases]
  BY <1>2 DEF AbstractCalls, AbstractCall
<1>5. refs' = [refs EXCEPT ![b] = work[c].new] BY DEF UpdateRef
<1>6. AbstractTips' = [AbstractTips EXCEPT ![b] = new]
  <2>1. \A h \in Branches : Tip(h)' = IF h = b THEN new ELSE Tip(h)
    BY <1>1, <1>3, <1>5 DEF TypeOK, Tip, TreeOf
  <2> QED BY <1>1, <2>1 DEF AbstractTips
<1>7. ASSUME NEW d \in Committers
      PROVE  AbstractCall(d)' = IF d = c THEN NoCall
               ELSE IF AbstractCalls[d] # NoCall /\ AbstractCalls[d].branch = b
               THEN [AbstractCalls[d] EXCEPT !.bases = @ \cup {new}] ELSE AbstractCalls[d]
  <2>1. work'[d] = IF d = c THEN [work[c] EXCEPT !.pc = "record", !.new = NoCommit, !.bases = {}]
                   ELSE IF InCall(d) /\ work[d].branch = b
                   THEN [work[d] EXCEPT !.bases = @ \cup {new}] ELSE work[d]
    BY <1>3 DEF UpdateRef
  <2>2. work[d] \in Locals BY <1>1
  <2>3. CASE d = c BY <1>1, <2>1, <2>3 DEF AbstractCall, InCall, Locals
  <2>4. CASE d # c /\ InCall(d)
    <3>1. AbstractCalls[d] = [branch |-> work[d].branch, blobs |-> work[d].blobs,
                              dels |-> work[d].dels, bases |-> work[d].bases]
      BY <2>4 DEF AbstractCalls, AbstractCall
    <3>2. AbstractCalls[d] # NoCall BY <2>4, InCallIsCall DEF AbstractCalls
    <3>3. CASE work[d].branch = b
      <4>1. work'[d] = [work[d] EXCEPT !.bases = @ \cup {new}] BY <2>1, <2>4, <3>3
      <4>2. AbstractCall(d)' = [branch |-> work[d].branch, blobs |-> work[d].blobs,
                                dels |-> work[d].dels, bases |-> work[d].bases \cup {new}]
        BY <2>2, <2>4, <4>1 DEF AbstractCall, InCall, Locals
      <4>3. AbstractCalls[d].branch = b BY <3>1, <3>3
      <4> HIDE DEF b, new
      <4>4. [AbstractCalls[d] EXCEPT !.bases = @ \cup {new}]
              = [branch |-> work[d].branch, blobs |-> work[d].blobs,
                 dels |-> work[d].dels, bases |-> work[d].bases \cup {new}]
        BY <3>1
      <4> QED BY <2>4, <3>2, <4>2, <4>3, <4>4
    <3>4. CASE work[d].branch # b
      <4>1. work'[d] = work[d] BY <2>1, <2>4, <3>4
      <4>2. AbstractCall(d)' = AbstractCalls[d] BY <4>1 DEF AbstractCall, AbstractCalls, InCall
      <4> QED BY <2>4, <3>1, <3>4, <4>2
    <3> QED BY <3>3, <3>4
  <2>5. CASE d # c /\ ~InCall(d)
    <3>1. work'[d] = work[d] BY <2>1, <2>5
    <3>2. AbstractCall(d)' = NoCall /\ AbstractCalls[d] = NoCall
      BY <2>5, <3>1 DEF AbstractCall, AbstractCalls, InCall
    <3> QED BY <2>5, <3>2
  <2> QED BY <2>3, <2>4, <2>5
<1>8. AbstractCalls[c] # NoCall BY <1>2, InCallIsCall DEF AbstractCalls
<1>9. Store!Overlay(base, r.blobs, r.dels) = new BY <1>4 DEF Store!Overlay, Overlay
<1>10. base \in r.bases \cup {Store!Empty} BY <1>3, <1>4 DEF Store!Empty, Empty
<1>11. AbstractTips' = [AbstractTips EXCEPT ![r.branch] = Store!Overlay(base, r.blobs, r.dels)]
  <2>1. r.branch = b BY <1>4
  <2> HIDE DEF r, new, b, base
  <2> QED BY <1>6, <1>9, <2>1
<1>12. AbstractCalls' = [d \in Committers |->
          IF d = c THEN NoCall
          ELSE IF AbstractCalls[d] # NoCall /\ AbstractCalls[d].branch = r.branch
          THEN [AbstractCalls[d] EXCEPT !.bases = @ \cup {Store!Overlay(base, r.blobs, r.dels)}]
          ELSE AbstractCalls[d]]
  <2>1. AbstractCalls' = [d \in Committers |-> AbstractCall(d)'] BY DEF AbstractCalls
  <2>2. r.branch = b BY <1>4
  <2> HIDE DEF r, new, b
  <2> QED BY <1>7, <1>9, <2>1, <2>2
<1> HIDE DEF r, new, b, base
<1>13. /\ AbstractCalls[c] # NoCall
       /\ \E x \in r.bases \cup {Store!Empty} :
            /\ AbstractTips' = [AbstractTips EXCEPT ![r.branch] = Store!Overlay(x, r.blobs, r.dels)]
            /\ AbstractCalls' = [d \in Committers |->
                 IF d = c THEN NoCall
                 ELSE IF AbstractCalls[d] # NoCall /\ AbstractCalls[d].branch = r.branch
                 THEN [AbstractCalls[d] EXCEPT !.bases = @ \cup {Store!Overlay(x, r.blobs, r.dels)}]
                 ELSE AbstractCalls[d]]
  BY <1>8, <1>10, <1>11, <1>12
<1> QED BY <1>13 DEF Store!Commit, AbstractTips, AbstractCalls, AbstractCall, r

\* A step of gitCommitToBranch before update-ref, of Sync after it, or of the
\* user changes nothing of the abstract state; a failure is the abstract Fail.
LEMMA OtherStepsRefine ==
  ASSUME TypeOK, NEW c \in Committers
  PROVE  /\ \/ ResolveParent(c) \/ LookupFails(c) \/ SeedIndex(c) \/ Rebuild(c) \/ CommitTree(c)
            \/ Untrack(c) \/ \E f \in Files : Record(c, f)
            => AbstractTips' = AbstractTips /\ AbstractCalls' = AbstractCalls
         /\ Fails(c) => Store!Fail(c) \/ (AbstractTips' = AbstractTips /\ AbstractCalls' = AbstractCalls)
<1>0. work \in [Committers -> Locals] /\ work[c] \in Locals BY DEF TypeOK
<1>i. Idle.pc = "idle" BY DEF Idle
<1>1. ASSUME UNCHANGED refs, \A d \in Committers : AbstractCall(d)' = AbstractCall(d)
      PROVE  AbstractTips' = AbstractTips /\ AbstractCalls' = AbstractCalls
  BY <1>1 DEF AbstractTips, AbstractCalls, Tip
<1>2. ASSUME ResolveParent(c) \/ LookupFails(c) \/ SeedIndex(c) \/ Rebuild(c) \/ CommitTree(c)
      PROVE  UNCHANGED refs /\ \A d \in Committers : AbstractCall(d)' = AbstractCall(d)
  <2>1. UNCHANGED refs /\ InCall(c) /\ \A d \in Committers : d # c => work'[d] = work[d]
    BY <1>0, <1>2 DEF ResolveParent, LookupFails, SeedIndex, Rebuild, CommitTree, InCall, At
  <2>2. /\ work'[c].branch = work[c].branch /\ work'[c].blobs = work[c].blobs
        /\ work'[c].dels = work[c].dels /\ work'[c].bases = work[c].bases
        /\ work'[c].pc \in {"resolve", "seed", "rebuild", "write", "update"}
    BY <1>0, <1>2 DEF ResolveParent, LookupFails, SeedIndex, Rebuild, CommitTree, Locals
  <2> QED BY <2>1, <2>2 DEF AbstractCall, InCall
<1>3. ASSUME Untrack(c) \/ \E f \in Files : Record(c, f)
      PROVE  UNCHANGED refs /\ \A d \in Committers : AbstractCall(d)' = AbstractCall(d)
  <2>1. UNCHANGED refs /\ ~InCall(c) /\ \A d \in Committers : d # c => work'[d] = work[d]
    BY <1>0, <1>3 DEF Untrack, Record, InCall, At
  <2>2. work'[c].pc \in {"idle", "record"}
    <3>1. ASSUME NEW f \in Files, Record(c, f) PROVE work'[c].pc \in {"idle", "record"}
      BY <1>0, <1>i, <3>1 DEF Record, At, Locals
    <3> QED BY <1>0, <1>i, <1>3, <3>1 DEF Untrack
  <2> QED BY <2>1, <2>2 DEF AbstractCall, InCall
<1>4. ASSUME Fails(c)
      PROVE  Store!Fail(c) \/ (AbstractTips' = AbstractTips /\ AbstractCalls' = AbstractCalls)
  <2>1. UNCHANGED refs /\ work' = [work EXCEPT ![c] = Idle] BY <1>4 DEF Fails
  <2>2. AbstractCall(c)' = NoCall BY <1>0, <1>i, <2>1 DEF AbstractCall, InCall
  <2>3. \A d \in Committers : d # c => AbstractCall(d)' = AbstractCall(d)
    BY <1>0, <2>1 DEF AbstractCall, InCall
  <2>4. AbstractTips' = AbstractTips BY <2>1 DEF AbstractTips, Tip
  <2>5. AbstractCalls' = [AbstractCalls EXCEPT ![c] = NoCall] BY <2>2, <2>3 DEF AbstractCalls
  <2>6. CASE InCall(c)
    <3>1. AbstractCalls[c] # NoCall BY <2>6, InCallIsCall DEF AbstractCalls
    <3> QED BY <2>4, <2>5, <3>1 DEF Store!Fail, AbstractTips, AbstractCalls, AbstractCall
  <2>7. CASE ~InCall(c)
    <3>1. AbstractCall(c) = NoCall BY <2>7 DEF AbstractCall
    <3> QED BY <1>1, <2>1, <2>2, <2>3, <3>1
  <2> QED BY <2>6, <2>7
<1> QED BY <1>1, <1>2, <1>3, <1>4

\* gitCommitToBranch implements BranchStore: a commit takes effect at once,
\* on a tip its branch had during the call or on the empty tree, or never.
THEOREM CommitsAreAtomic == QuotedPaths = {} => (Spec => Implements)
<1> SUFFICES ASSUME QuotedPaths = {} PROVE Spec => Store!Spec BY DEF Implements
<1>1. Init => Store!Init
  <2> SUFFICES ASSUME Init PROVE Store!Init OBVIOUS
  <2>1. work = [c \in Committers |-> Idle] /\ Idle.pc = "idle" BY DEF Init, Idle
  <2>2. \A b \in Branches : Tip(b) = Empty BY DEF Init, Tip, TreeOf
  <2> QED BY <2>1, <2>2 DEF Store!Init, Store!Empty, Empty, InCall
<1>2. IInv /\ [Next]_vars => [Store!Next]_(Store!avars)
  <2> SUFFICES ASSUME IInv, [Next]_vars
               PROVE  (\E c \in Committers : Store!Call(c) \/ Store!Commit(c) \/ Store!Fail(c))
                        \/ (AbstractTips' = AbstractTips /\ AbstractCalls' = AbstractCalls)
    BY DEF Store!Next, Store!avars, AbstractTips, AbstractCalls, AbstractCall
  <2>1. CASE UNCHANGED <<refs, work>>
    BY <2>1 DEF AbstractTips, AbstractCalls, AbstractCall, Tip, InCall
  <2>2. ASSUME NEW f \in Files, Edit(f) \/ Delete(f) PROVE UNCHANGED <<refs, work>>
    BY <2>2 DEF Edit, Delete, Write
  <2>3. ASSUME NEW c \in Committers, NEW b \in Branches, Begin(c, b) PROVE Store!Call(c)
    BY <2>3, BeginRefines DEF IInv
  <2>4. ASSUME NEW c \in Committers, UpdateRef(c) PROVE Store!Commit(c)
    BY <2>4, UpdateRefRefines DEF IInv
  <2> QED BY <2>1, <2>2, <2>3, <2>4, OtherStepsRefine DEF Next, Step, vars, IInv
<1> QED BY <1>1, <1>2, Inductive, PTL DEF Spec, Store!Spec
=============================================================================
