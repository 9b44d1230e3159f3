-------------------------- MODULE SyncApplyProofs --------------------------
(***************************************************************************)
(* Proofs about SyncApply, for any files, groups, commands and bounds: the *)
(* parts of IInv are preserved by every action, and from them follows that *)
(* no Apply destroys a content it came across.  On top of it: what Sync    *)
(* dropped stays gone, and what an undisturbed Sync or Apply leaves behind *)
(* agrees on disk, in the records and on the branch.                       *)
(***************************************************************************)
EXTENDS SyncApply, TLAPS

USE SyncAssumption DEF Contents, Seconds, Branches


\* The records of the two local states, and what their idle values are.
LEMMA IdleTypes == IdleSync \in SyncLocals /\ IdleApply \in ApplyLocals
BY DEF IdleSync, IdleApply, SyncLocals, ApplyLocals, NoRecords, NoFile

-----------------------------------------------------------------------------
(* Type correctness.                                                       *)

\* A Sync commits to a branch that one of its records names.
LEMMA GroupBranchTypes ==
  ASSUME TypeOK, SnapInv, NEW s \in Syncers, sync[s].pc # "walk",
         NEW ents \in SUBSET Pending(s), NEW dels \in SUBSET Pending(s)
  PROVE  GroupBranches(s, ents, dels) \subseteq Branches
<1>1. sync[s].snap \in [Files -> Records \cup {NoRec}] BY DEF TypeOK, SyncLocals
<1>2. Pending(s) \subseteq TrackedIn(sync[s].snap) BY DEF SnapInv
<1>3. \A f \in Pending(s) : sync[s].snap[f] \in Records BY <1>1, <1>2 DEF TrackedIn
<1> QED BY <1>3 DEF GroupBranches, Records

\* Every step leaves the local state of every Sync well typed.
LEMMA SyncTypeStep ==
  ASSUME TypeOK, SnapInv, [Next]_vars
  PROVE  sync' \in [Syncers -> SyncLocals]
<1> sync \in [Syncers -> SyncLocals] /\ recs \in [Files -> Records \cup {NoRec}]
  /\ disk \in [Files -> Contents \cup {Gone}] /\ tree \in [Branches -> [Files -> Contents \cup {Gone}]]
  BY DEF TypeOK
<1>1. ASSUME NEW s \in Syncers, SyncLoad(s) PROVE sync' \in [Syncers -> SyncLocals]
  <2>1. NewFiles(recs) \subseteq Files /\ TrackedIn(recs) \subseteq Files
    BY DEF NewFiles, TrackedIn
  <2>2. PICK args \in Arguments : sync' = [sync EXCEPT ![s] = IF args = {}
          THEN [IdleSync EXCEPT !.pc = "walk", !.snap = recs, !.todo = NewFiles(recs)]
          ELSE [IdleSync EXCEPT !.pc = "scan", !.snap = recs,
                  !.todo = args \cap TrackedIn(recs), !.scope = args \cap TrackedIn(recs)]]
    BY <1>1 DEF SyncLoad
  <2>3. [IdleSync EXCEPT !.pc = "walk", !.snap = recs, !.todo = NewFiles(recs)] \in SyncLocals
    BY <2>1, IdleTypes DEF SyncLocals
  <2>4. [IdleSync EXCEPT !.pc = "scan", !.snap = recs,
            !.todo = args \cap TrackedIn(recs), !.scope = args \cap TrackedIn(recs)] \in SyncLocals
    BY <2>1, IdleTypes DEF SyncLocals
  <2> QED BY <2>2, <2>3, <2>4
<1>2. ASSUME NEW s \in Syncers, NEW f \in Files, SyncAutoTrack(s, f) PROVE sync' \in [Syncers -> SyncLocals]
  <2>1. sync[s] \in SyncLocals OBVIOUS
  <2>2. sync'[s] \in SyncLocals BY <1>2, <2>1 DEF SyncAutoTrack, SyncLocals
  <2> QED BY <1>2, <2>2 DEF SyncAutoTrack
<1>3. ASSUME NEW s \in Syncers, SyncReload(s) PROVE sync' \in [Syncers -> SyncLocals]
  <2>1. sync[s] \in SyncLocals OBVIOUS
  <2>2. sync'[s] \in SyncLocals BY <1>3, <2>1 DEF SyncReload, SyncLocals, TrackedIn
  <2> QED BY <1>3, <2>2 DEF SyncReload
<1>4. ASSUME NEW s \in Syncers, NEW f \in Files, SyncScan(s, f) PROVE sync' \in [Syncers -> SyncLocals]
  <2>1. sync[s] \in SyncLocals /\ disk[f] \in Contents \cup {Gone} OBVIOUS
  <2>2. CASE sync' = [sync EXCEPT ![s].todo = @ \ {f}, ![s].dels = @ \cup {f}]
    <3>1. sync'[s] \in SyncLocals BY <2>1, <2>2 DEF SyncLocals
    <3> QED BY <2>2, <3>1
  <2>3. CASE sync' = [sync EXCEPT ![s].todo = @ \ {f}, ![s].pc = "refresh", ![s].batch = {f}]
    <3>1. sync'[s] \in SyncLocals BY <2>1, <2>3 DEF SyncLocals
    <3> QED BY <2>3, <3>1
  <2>4. CASE sync' = [sync EXCEPT ![s].todo = @ \ {f}, ![s].data = [@ EXCEPT ![f] = disk[f]]]
    <3>1. sync'[s] \in SyncLocals BY <2>1, <2>4 DEF SyncLocals
    <3> QED BY <2>4, <3>1
  <2> QED BY <1>4, <2>2, <2>3, <2>4 DEF SyncScan
<1>5. ASSUME NEW s \in Syncers, NEW f \in Files, SyncReadError(s, f) PROVE sync' \in [Syncers -> SyncLocals]
  <2>1. sync[s] \in SyncLocals OBVIOUS
  <2>2. sync'[s] \in SyncLocals BY <1>5, <2>1 DEF SyncReadError, SyncLocals
  <2> QED BY <1>5, <2>2 DEF SyncReadError
<1>6. ASSUME NEW s \in Syncers, SyncRefresh(s) PROVE sync' \in [Syncers -> SyncLocals]
  <2>1. sync[s] \in SyncLocals OBVIOUS
  <2>2. CASE sync' = [sync EXCEPT ![s] = IdleSync] BY <2>2, IdleTypes
  <2>3. CASE sync' = [sync EXCEPT ![s].pc = "scan", ![s].batch = {}]
    <3>1. sync'[s] \in SyncLocals BY <2>1, <2>3 DEF SyncLocals
    <3> QED BY <2>3, <3>1
  <2> QED BY <1>6, <2>2, <2>3 DEF SyncRefresh
<1>7. ASSUME NEW s \in Syncers, SyncScanned(s) PROVE sync' \in [Syncers -> SyncLocals]
  <2>1. sync[s] \in SyncLocals OBVIOUS
  <2>2. sync'[s] \in SyncLocals BY <1>7, <2>1 DEF SyncScanned, SyncLocals
  <2> QED BY <1>7, <2>2 DEF SyncScanned
<1>8. ASSUME NEW s \in Syncers, NEW g \in Groups, SyncCommit(s, g) PROVE sync' \in [Syncers -> SyncLocals]
  <2>1. sync[s] \in SyncLocals OBVIOUS
  <2> DEFINE ents == {f \in GroupFiles(g) : sync[s].data[f] # Gone}
             dels == sync[s].dels \cap GroupFiles(g)
             rest == [f \in Files |-> IF f \in ents THEN Gone ELSE sync[s].data[f]]
  <2>2. ents \subseteq Files /\ dels \subseteq Files /\ rest \in [Files -> Contents \cup {Gone}]
    BY <2>1 DEF GroupFiles, SyncLocals
  <2>3. PICK b \in GroupBranches(s, ents, dels) :
          sync' = [sync EXCEPT ![s].branch = b, ![s].batch = ents, ![s].unlink = dels,
                     ![s].dels = @ \ dels, ![s].data = rest]
    BY <1>8, <2>1 DEF SyncCommit
  <2>4. b \in Branches
    <3>1. sync[s].pc # "walk" BY <1>8 DEF SyncCommit, SyncIn
    <3>2. ents \subseteq Pending(s) /\ dels \subseteq Pending(s) BY <2>2 DEF Pending
    <3> QED BY <2>3, <3>1, <3>2, GroupBranchTypes
  <2> HIDE DEF ents, dels, rest
  <2>5. sync'[s] \in SyncLocals BY <2>1, <2>2, <2>3, <2>4 DEF SyncLocals
  <2> QED BY <2>3, <2>5
<1>9. ASSUME NEW s \in Syncers, SyncCommitFails(s) PROVE sync' \in [Syncers -> SyncLocals]
  BY <1>9, IdleTypes DEF SyncCommitFails
<1>10. ASSUME NEW s \in Syncers, NEW f \in Files, SyncRecord(s, f) PROVE sync' \in [Syncers -> SyncLocals]
  <2>1. sync[s] \in SyncLocals OBVIOUS
  <2>2. CASE sync' = [sync EXCEPT ![s] = IdleSync] BY <2>2, IdleTypes
  <2>3. CASE sync' = [sync EXCEPT ![s].batch = @ \ {f}]
    <3>1. sync'[s] \in SyncLocals BY <2>1, <2>3 DEF SyncLocals
    <3> QED BY <2>3, <3>1
  <2> QED BY <1>10, <2>2, <2>3 DEF SyncRecord
<1>11. ASSUME NEW s \in Syncers, SyncUntrack(s) PROVE sync' \in [Syncers -> SyncLocals]
  <2>1. sync[s] \in SyncLocals OBVIOUS
  <2>2. sync'[s] \in SyncLocals BY <1>11, <2>1 DEF SyncUntrack, SyncLocals
  <2> QED BY <1>11, <2>2 DEF SyncUntrack
<1>12. ASSUME NEW s \in Syncers, SyncManifest(s) PROVE sync' \in [Syncers -> SyncLocals]
  <2>1. sync[s] \in SyncLocals OBVIOUS
  <2>2. sync'[s] \in SyncLocals BY <1>12, <2>1 DEF SyncManifest, SyncLocals
  <2> QED BY <1>12, <2>2 DEF SyncManifest
<1>13. ASSUME NEW s \in Syncers, SyncManifestFails(s) PROVE sync' \in [Syncers -> SyncLocals]
  <2>1. sync[s] \in SyncLocals OBVIOUS
  <2>2. sync'[s] \in SyncLocals BY <1>13, <2>1 DEF SyncManifestFails, SyncLocals
  <2> QED BY <1>13, <2>2 DEF SyncManifestFails
<1>14. ASSUME NEW s \in Syncers, SyncReturn(s) PROVE sync' \in [Syncers -> SyncLocals]
  BY <1>14, IdleTypes DEF SyncReturn
<1>15. CASE Crash BY <1>15, IdleTypes DEF Crash
<1>16. CASE UNCHANGED sync BY <1>16
<1>17. ASSUME NEW a \in Appliers, ApplyLoad(a) \/ ApplyStep(a) \/ ApplyFails(a) PROVE UNCHANGED sync
  BY <1>17 DEF ApplyStep, ApplyLoad, ApplyCheck, ApplyFails, ApplyBackup, ApplyRead,
    ApplyWrite, ApplyAborts, ApplyRecord, ApplyReturn
<1>18. ASSUME UserNext \/ Tick PROVE UNCHANGED sync
  BY <1>18 DEF UserNext, UserActs, Tick, Edit, Delete, Track, Untrack
<1> QED BY <1>1, <1>2, <1>3, <1>4, <1>5, <1>6, <1>7, <1>8, <1>9, <1>10, <1>11, <1>12,
  <1>13, <1>14, <1>15, <1>16, <1>17, <1>18 DEF Next, SyncStep, SyncTrouble, vars

\* The same for every Apply.
LEMMA ApplyTypeStep ==
  ASSUME TypeOK, CurInv, [Next]_vars
  PROVE  apply' \in [Appliers -> ApplyLocals]
<1> apply \in [Appliers -> ApplyLocals] /\ recs \in [Files -> Records \cup {NoRec}]
  /\ disk \in [Files -> Contents \cup {Gone}] /\ tree \in [Branches -> [Files -> Contents \cup {Gone}]]
  BY DEF TypeOK
<1>1. ASSUME NEW a \in Appliers, ApplyLoad(a) PROVE apply' \in [Appliers -> ApplyLocals]
  <2>1. TrackedIn(recs) \subseteq Files BY DEF TrackedIn
  <2>2. PICK args \in Arguments, forced \in BOOLEAN :
          apply' = [apply EXCEPT ![a] = [IdleApply EXCEPT !.pc = "check", !.snap = recs,
                      !.todo = IF args = {} THEN TrackedIn(recs) ELSE args \cap TrackedIn(recs),
                      !.force = forced]]
    BY <1>1 DEF ApplyLoad
  <2>3. [IdleApply EXCEPT !.pc = "check", !.snap = recs,
           !.todo = IF args = {} THEN TrackedIn(recs) ELSE args \cap TrackedIn(recs),
           !.force = forced] \in ApplyLocals
    BY <2>1, IdleTypes DEF ApplyLocals
  <2> QED BY <2>2, <2>3
<1>2. ASSUME NEW a \in Appliers, NEW f \in Files, ApplyCheck(a, f) PROVE apply' \in [Appliers -> ApplyLocals]
  <2>1. apply[a] \in ApplyLocals OBVIOUS
  <2>2. apply'[a] \in ApplyLocals BY ZenonT(60), <1>2, <2>1 DEF ApplyCheck, ApplyLocals
  <2> QED BY <1>2, <2>2 DEF ApplyCheck
<1>3. ASSUME NEW a \in Appliers, ApplyFails(a) PROVE apply' \in [Appliers -> ApplyLocals]
  <2>1. apply[a] \in ApplyLocals OBVIOUS
  <2>2. apply'[a] \in ApplyLocals BY ZenonT(60), <1>3, <2>1 DEF ApplyFails, ApplyLocals
  <2> QED BY <1>3, <2>2 DEF ApplyFails
<1>4. ASSUME NEW a \in Appliers, ApplyBackup(a) PROVE apply' \in [Appliers -> ApplyLocals]
  <2>1. apply[a] \in ApplyLocals OBVIOUS
  <2>2. disk[apply[a].cur] \in Contents \cup {Gone} BY <1>4 DEF ApplyBackup, CurInv,
    ApplyIn, TrackedIn
  <2>3. apply'[a] \in ApplyLocals BY <1>4, <2>1, <2>2 DEF ApplyBackup, ApplyLocals, DestOf
  <2> QED BY <1>4, <2>3 DEF ApplyBackup
<1>5. ASSUME NEW a \in Appliers, ApplyRead(a) PROVE apply' \in [Appliers -> ApplyLocals]
  <2>1. apply[a] \in ApplyLocals OBVIOUS
  <2>2. apply[a].cur \in Files /\ apply[a].snap[apply[a].cur] \in Records
    BY <1>5, <2>1 DEF ApplyRead, CurInv, ApplyIn, TrackedIn, ApplyLocals
  <2>3. tree[apply[a].snap[apply[a].cur].branch][apply[a].cur] \in Contents \cup {Gone}
    BY <2>2 DEF Records
  <2>4. apply'[a] \in ApplyLocals BY ZenonT(60), <1>5, <2>1, <2>3 DEF ApplyRead, ApplyLocals
  <2> QED BY <1>5, <2>4 DEF ApplyRead
<1>6. ASSUME NEW a \in Appliers, ApplyWrite(a) PROVE apply' \in [Appliers -> ApplyLocals]
  <2>1. apply[a] \in ApplyLocals OBVIOUS
  <2>2. apply[a].cur \in Files BY <1>6 DEF ApplyWrite, CurInv, ApplyIn, TrackedIn
  <2>3. PICK hookFailed \in BOOLEAN :
          apply' = [apply EXCEPT ![a].pc = "check", ![a].cur = NoRec, ![a].data = Gone,
                      ![a].seen = Gone, ![a].results = @ \cup {apply[a].cur},
                      ![a].failed = @ \/ hookFailed]
    BY <1>6 DEF ApplyWrite
  <2>4. apply'[a] \in ApplyLocals BY ZenonT(60), <2>1, <2>2, <2>3 DEF ApplyLocals
  <2> QED BY <2>3, <2>4
<1>7. ASSUME NEW a \in Appliers, ApplyAborts(a) PROVE apply' \in [Appliers -> ApplyLocals]
  BY <1>7, IdleTypes DEF ApplyAborts
<1>8. ASSUME NEW a \in Appliers, ApplyRecord(a) PROVE apply' \in [Appliers -> ApplyLocals]
  <2>1. apply[a] \in ApplyLocals OBVIOUS
  <2>2. apply'[a] \in ApplyLocals BY <1>8, <2>1 DEF ApplyRecord, ApplyLocals
  <2> QED BY <1>8, <2>2 DEF ApplyRecord
<1>9. ASSUME NEW a \in Appliers, ApplyReturn(a) PROVE apply' \in [Appliers -> ApplyLocals]
  BY <1>9, IdleTypes DEF ApplyReturn
<1>10. CASE Crash BY <1>10, IdleTypes DEF Crash
<1>11. CASE UNCHANGED apply BY <1>11
<1>12. ASSUME NEW s \in Syncers, SyncLoad(s) \/ SyncStep(s) \/ SyncTrouble(s) PROVE UNCHANGED apply
  BY <1>12 DEF SyncStep, SyncTrouble, SyncLoad, SyncAutoTrack, SyncReload, SyncScan,
    SyncReadError, SyncRefresh, SyncScanned, SyncCommit, SyncCommitFails, SyncRecord,
    SyncUntrack, SyncManifest, SyncManifestFails, SyncReturn
<1>13. ASSUME UserNext \/ Tick PROVE UNCHANGED apply
  BY <1>13 DEF UserNext, UserActs, Tick, Edit, Delete, Track, Untrack
<1> QED BY <1>1, <1>2, <1>3, <1>4, <1>5, <1>6, <1>7, <1>8, <1>9, <1>10, <1>11, <1>12,
  <1>13 DEF Next, ApplyStep, vars

\* Recording the hash of a file that is there keeps the records well typed.
LEMMA RehashTypes ==
  ASSUME TypeOK, NEW f \in Files, recs[f] # NoRec, disk[f] # Gone
  PROVE  Rehashed(f) \in [Files -> Records \cup {NoRec}]
<1>1. recs[f] \in Records /\ disk[f] \in Contents BY DEF TypeOK
<1>2. [recs[f] EXCEPT !.hash = disk[f]] \in Records BY <1>1 DEF Records
<1> QED BY <1>2 DEF TypeOK, Rehashed

\* Every step keeps every variable in its type.
LEMMA TypeStep ==
  ASSUME TypeOK, SnapInv, CurInv, [Next]_vars
  PROVE  TypeOK'
<1>0. sync' \in [Syncers -> SyncLocals] /\ apply' \in [Appliers -> ApplyLocals]
  BY SyncTypeStep, ApplyTypeStep
<1>1. ASSUME NEW f \in Files, Edit(f) PROVE TypeOK'
  BY <1>0, <1>1 DEF TypeOK, Edit, UserActs
<1>2. ASSUME NEW f \in Files, Delete(f) PROVE TypeOK'
  BY <1>0, <1>2 DEF TypeOK, Delete, UserActs
<1>3. ASSUME NEW f \in Files, Track(f) PROVE TypeOK'
  BY <1>0, <1>3 DEF TypeOK, Track, UserActs, Records, TrackBranch
<1>4. ASSUME NEW f \in Files, Untrack(f) PROVE TypeOK'
  BY <1>0, <1>4 DEF TypeOK, Untrack, UserActs
<1>5. ASSUME NEW s \in Syncers, SyncLoad(s) PROVE TypeOK'
  BY <1>0, <1>5 DEF TypeOK, SyncLoad, repo, counters, SyncIn, Steps, Starts, Busy
<1>6. ASSUME NEW s \in Syncers, NEW f \in Files, SyncAutoTrack(s, f) PROVE TypeOK'
  <2>1. recs' \in [Files -> Records \cup {NoRec}]
    <3>1. CASE recs' = recs BY <3>1 DEF TypeOK
    <3>2. CASE disk[f] # Gone /\ recs' = [recs EXCEPT ![f] = [hash |-> disk[f], branch |-> "track"]]
      <4>1. [hash |-> disk[f], branch |-> "track"] \in Records BY <3>2 DEF TypeOK, Records
      <4> QED BY <3>2, <4>1 DEF TypeOK
    <3> QED BY <1>6, <3>1, <3>2 DEF SyncAutoTrack
  <2>2. dropped' \subseteq Files BY <1>6 DEF TypeOK, SyncAutoTrack
  <2> QED BY <1>0, <1>6, <2>1, <2>2 DEF TypeOK, SyncAutoTrack, counters, SyncIn, Steps
<1>7. ASSUME NEW s \in Syncers, SyncReload(s) PROVE TypeOK'
  BY <1>0, <1>7 DEF TypeOK, SyncReload, repo, counters, SyncIn, Steps, Starts
<1>8. ASSUME NEW s \in Syncers, NEW f \in Files, SyncScan(s, f) PROVE TypeOK'
  BY <1>0, <1>8 DEF TypeOK, SyncScan, repo, counters, SyncIn, Steps, Starts
<1>9. ASSUME NEW s \in Syncers, NEW f \in Files, SyncReadError(s, f) PROVE TypeOK'
  BY <1>0, <1>9 DEF TypeOK, SyncReadError, repo, counters, SyncIn, Steps, Starts
<1>10. ASSUME NEW s \in Syncers, SyncRefresh(s) PROVE TypeOK'
  <2>1. PICK f \in sync[s].batch :
          recs' = recs \/ (disk[f] # Gone /\ recs[f] # NoRec /\ recs' = Rehashed(f))
    BY <1>10 DEF SyncRefresh
  <2>2. f \in Files BY DEF TypeOK, SyncLocals
  <2>3. recs' \in [Files -> Records \cup {NoRec}]
    <3>1. CASE recs' = recs BY <3>1 DEF TypeOK
    <3> QED BY <2>1, <2>2, <3>1, RehashTypes
  <2> QED BY <1>0, <1>10, <2>3 DEF TypeOK, SyncRefresh, SyncIn, Steps, repo, counters
<1>11. ASSUME NEW s \in Syncers, SyncScanned(s) PROVE TypeOK'
  BY <1>0, <1>11 DEF TypeOK, SyncScanned, repo, counters, SyncIn, Steps, Starts
<1>12. ASSUME NEW s \in Syncers, NEW g \in Groups, SyncCommit(s, g) PROVE TypeOK'
  <2> DEFINE ents == {f \in GroupFiles(g) : sync[s].data[f] # Gone}
             dels == sync[s].dels \cap GroupFiles(g)
  <2>1. sync[s].data \in [Files -> Contents \cup {Gone}] BY DEF TypeOK, SyncLocals
  <2>2. ents \subseteq Files /\ \A f \in ents : sync[s].data[f] \in Contents
    BY <2>1 DEF GroupFiles
  <2>3. PICK b \in GroupBranches(s, ents, dels) : tree' = [tree EXCEPT ![b] = [f \in Files |->
            IF f \in dels THEN Gone ELSE IF f \in ents THEN sync[s].data[f] ELSE @[f]]]
    BY <1>12 DEF SyncCommit
  <2>4. tree' \in [Branches -> [Files -> Contents \cup {Gone}]]
    <3>1. [f \in Files |-> IF f \in dels THEN Gone ELSE IF f \in ents THEN sync[s].data[f] ELSE tree[b][f]]
            \in [Files -> Contents \cup {Gone}]
      <4>1. sync[s].pc # "walk" BY <1>12 DEF SyncCommit, SyncIn
      <4>2. ents \subseteq Pending(s) /\ dels \subseteq Pending(s) BY <2>2 DEF Pending
      <4>3. b \in Branches BY <2>3, <4>1, <4>2, GroupBranchTypes
      <4>4. tree[b] \in [Files -> Contents \cup {Gone}] BY <4>3 DEF TypeOK
      <4> HIDE DEF ents, dels
      <4> QED BY <2>2, <4>4
    <3> QED BY <2>3, <3>1 DEF TypeOK
  <2>5. committed' \subseteq Files \X Contents
    <3>1. committed' = committed \cup {<<f, sync[s].data[f]>> : f \in ents} BY <1>12 DEF SyncCommit
    <3> HIDE DEF ents
    <3>2. {<<f, sync[s].data[f]>> : f \in ents} \subseteq Files \X Contents BY <2>2
    <3> QED BY <3>1, <3>2 DEF TypeOK
  <2> QED BY <1>0, <1>12, <2>4, <2>5 DEF TypeOK, SyncCommit, SyncIn, Steps, counters
<1>13. ASSUME NEW s \in Syncers, SyncCommitFails(s) PROVE TypeOK'
  BY <1>0, <1>13 DEF TypeOK, SyncCommitFails, repo, counters, SyncIn, Steps, Starts
<1>14. ASSUME NEW s \in Syncers, NEW f \in Files, SyncRecord(s, f) PROVE TypeOK'
  <2>1. recs' = recs \/ (disk[f] # Gone /\ recs[f] # NoRec /\ recs' = Rehashed(f))
    BY <1>14 DEF SyncRecord
  <2>2. recs' \in [Files -> Records \cup {NoRec}]
    <3>1. CASE recs' = recs BY <3>1 DEF TypeOK
    <3> QED BY <2>1, <3>1, RehashTypes
  <2> QED BY <1>0, <1>14, <2>2 DEF TypeOK, SyncRecord, SyncIn, Steps, repo, counters
<1>15. ASSUME NEW s \in Syncers, SyncUntrack(s) PROVE TypeOK'
  <2>1. sync[s].unlink \subseteq Files BY DEF TypeOK, SyncLocals
  <2>2. recs' \in [Files -> Records \cup {NoRec}] BY <1>15 DEF TypeOK, SyncUntrack
  <2> QED BY <1>0, <1>15, <2>1, <2>2 DEF TypeOK, SyncUntrack, SyncIn, Steps, counters
<1>16. ASSUME NEW s \in Syncers, SyncManifest(s) PROVE TypeOK'
  BY <1>0, <1>16 DEF TypeOK, SyncManifest, repo, counters, SyncIn, Steps, Starts, TrackedIn
<1>17. ASSUME NEW s \in Syncers, SyncManifestFails(s) PROVE TypeOK'
  BY <1>0, <1>17 DEF TypeOK, SyncManifestFails, repo, counters, SyncIn, Steps, Starts
<1>18. ASSUME NEW s \in Syncers, SyncReturn(s) PROVE TypeOK'
  BY <1>0, <1>18 DEF TypeOK, SyncReturn, repo, counters, SyncIn, Steps, Starts
<1>19. ASSUME NEW a \in Appliers, ApplyLoad(a) PROVE TypeOK'
  BY <1>0, <1>19 DEF TypeOK, ApplyLoad, repo, counters, ApplyIn, Steps, Starts, Busy
<1>20. ASSUME NEW a \in Appliers, NEW f \in Files, ApplyCheck(a, f) PROVE TypeOK'
  BY <1>0, <1>20 DEF TypeOK, ApplyCheck, repo, counters, ApplyIn, Steps, Starts
<1>21. ASSUME NEW a \in Appliers, ApplyFails(a) PROVE TypeOK'
  BY <1>0, <1>21 DEF TypeOK, ApplyFails, repo, counters, ApplyIn, Steps, Starts
<1>22. ASSUME NEW a \in Appliers, ApplyBackup(a) PROVE TypeOK'
  BY <1>0, <1>22 DEF TypeOK, ApplyBackup, repo, counters, ApplyIn, Steps, Starts, DestOf,
    CurInv, TrackedIn
<1>23. ASSUME NEW a \in Appliers, ApplyRead(a) PROVE TypeOK'
  BY <1>0, <1>23 DEF TypeOK, ApplyRead, repo, counters, ApplyIn, Steps, Starts
<1>24. ASSUME NEW a \in Appliers, ApplyWrite(a) PROVE TypeOK'
  BY <1>0, <1>24 DEF TypeOK, ApplyWrite, repo, counters, ApplyIn, Steps, Starts, ApplyLocals, CurInv
<1>25. ASSUME NEW a \in Appliers, ApplyAborts(a) PROVE TypeOK'
  BY <1>0, <1>25 DEF TypeOK, ApplyAborts, repo, counters, ApplyIn, Steps, Starts
<1>26. ASSUME NEW a \in Appliers, ApplyRecord(a) PROVE TypeOK'
  <2>1. \A f \in Files : recs[f] # NoRec /\ disk[f] # Gone
                        => [recs[f] EXCEPT !.hash = disk[f]] \in Records
    BY DEF TypeOK, Records
  <2>2. recs' \in [Files -> Records \cup {NoRec}] BY <1>26, <2>1 DEF TypeOK, ApplyRecord
  <2> QED BY <1>0, <1>26, <2>2 DEF TypeOK, ApplyRecord, repo, counters, ApplyIn, Steps
<1>27. ASSUME NEW a \in Appliers, ApplyReturn(a) PROVE TypeOK'
  BY <1>0, <1>27 DEF TypeOK, ApplyReturn, repo, counters, ApplyIn, Steps, Starts
<1>28. CASE Tick BY <1>0, <1>28 DEF TypeOK, Tick, repo
<1>29. CASE Crash BY <1>0, <1>29 DEF TypeOK, Crash, repo
<1>30. CASE UNCHANGED vars BY <1>30 DEF TypeOK, vars
<1> QED BY <1>1, <1>2, <1>3, <1>4, <1>5, <1>6, <1>7, <1>8, <1>9, <1>10, <1>11, <1>12,
  <1>13, <1>14, <1>15, <1>16, <1>17, <1>18, <1>19, <1>20, <1>21, <1>22, <1>23, <1>24, <1>25,
  <1>26, <1>27, <1>28, <1>29, <1>30 DEF Next, UserNext, SyncStep, SyncTrouble, ApplyStep

-----------------------------------------------------------------------------
(* The snapshot of a Sync and the current file of an Apply.                *)

SnapOK(q) ==
  LET pending == q.dels \cup {f \in Files : q.data[f] # Gone} IN
  IF q.pc = "walk" THEN pending = {} ELSE q.todo \cup pending \subseteq TrackedIn(q.snap)

CurOK(q) ==
  /\ q.todo \subseteq TrackedIn(q.snap)
  /\ q.pc \in {"backup", "read", "write"} => q.cur \in TrackedIn(q.snap)

\* A Sync only ever has files of its snapshot left to scan or to commit.
LEMMA SnapStep ==
  ASSUME TypeOK, SnapInv, [Next]_vars
  PROVE  SnapInv'
<1>0. sync \in [Syncers -> SyncLocals] BY DEF TypeOK
<1> SUFFICES ASSUME NEW t \in Syncers PROVE SnapOK(sync'[t])
  BY DEF SnapInv, SnapOK, Pending
<1> SnapOK(sync[t]) /\ sync[t] \in SyncLocals BY <1>0 DEF SnapInv, SnapOK, Pending
<1>100. SnapOK(IdleSync) BY DEF SnapOK, IdleSync, NoFile
<1>1. ASSUME NEW s \in Syncers, SyncLoad(s) PROVE SnapOK(sync'[t])
  BY <1>0, <1>100, <1>1 DEF SyncLoad, SnapOK, SyncLocals, SyncIn, TrackedIn, IdleSync, NoFile
<1>2. ASSUME NEW s \in Syncers, NEW f \in Files, SyncAutoTrack(s, f) PROVE SnapOK(sync'[t])
  BY <1>0, <1>100, <1>2 DEF SyncAutoTrack, SnapOK, SyncLocals, SyncIn, TrackedIn
<1>3. ASSUME NEW s \in Syncers, SyncReload(s) PROVE SnapOK(sync'[t])
  <2>1. sync[s] \in SyncLocals /\ SnapOK(sync[s]) /\ sync[s].pc = "walk"
    BY <1>0, <1>3 DEF SyncReload, SyncIn, SnapInv, SnapOK, Pending
  <2>2. PICK snap : sync' = [sync EXCEPT ![s].pc = "scan", ![s].snap = snap,
                               ![s].todo = TrackedIn(snap), ![s].scope = TrackedIn(snap)]
    BY <1>3 DEF SyncReload
  <2>3. /\ sync'[s].pc = "scan" /\ sync'[s].snap = snap /\ sync'[s].todo = TrackedIn(snap)
        /\ sync'[s].dels = sync[s].dels /\ sync'[s].data = sync[s].data
    BY <1>0, <2>1, <2>2 DEF SyncLocals
  <2>4. SnapOK(sync'[s]) BY <2>1, <2>3 DEF SnapOK
  <2> QED BY <1>0, <2>2, <2>4
<1>4. ASSUME NEW s \in Syncers, NEW f \in Files, SyncScan(s, f) PROVE SnapOK(sync'[t])
  <2>1. sync[s] \in SyncLocals /\ SnapOK(sync[s]) /\ sync[s].pc = "scan" /\ f \in sync[s].todo
    BY <1>0, <1>4 DEF SyncScan, SyncIn, SnapInv, SnapOK, Pending
  <2>2. CASE sync' = [sync EXCEPT ![s].todo = @ \ {f}, ![s].dels = @ \cup {f}]
    <3>1. /\ sync'[s].pc = "scan" /\ sync'[s].snap = sync[s].snap
          /\ sync'[s].todo = sync[s].todo \ {f} /\ sync'[s].dels = sync[s].dels \cup {f}
          /\ sync'[s].data = sync[s].data
      BY <1>0, <2>1, <2>2 DEF SyncLocals
    <3>2. SnapOK(sync'[s]) BY <2>1, <3>1 DEF SnapOK
    <3> QED BY <1>0, <2>2, <3>2
  <2>3. CASE sync' = [sync EXCEPT ![s].todo = @ \ {f}, ![s].pc = "refresh", ![s].batch = {f}]
    <3>1. /\ sync'[s].pc = "refresh" /\ sync'[s].snap = sync[s].snap
          /\ sync'[s].todo = sync[s].todo \ {f} /\ sync'[s].dels = sync[s].dels
          /\ sync'[s].data = sync[s].data
      BY <1>0, <2>1, <2>3 DEF SyncLocals
    <3>2. SnapOK(sync'[s]) BY <2>1, <3>1 DEF SnapOK
    <3> QED BY <1>0, <2>3, <3>2
  <2>4. CASE sync' = [sync EXCEPT ![s].todo = @ \ {f}, ![s].data = [@ EXCEPT ![f] = disk[f]]]
    <3>1. /\ sync'[s].pc = "scan" /\ sync'[s].snap = sync[s].snap
          /\ sync'[s].todo = sync[s].todo \ {f} /\ sync'[s].dels = sync[s].dels
          /\ sync'[s].data = [sync[s].data EXCEPT ![f] = disk[f]]
      BY <1>0, <2>1, <2>4 DEF SyncLocals
    <3>2. SnapOK(sync'[s]) BY <2>1, <3>1 DEF SnapOK, SyncLocals
    <3> QED BY <1>0, <2>4, <3>2
  <2> QED BY <1>4, <2>2, <2>3, <2>4 DEF SyncScan
<1>5. ASSUME NEW s \in Syncers, NEW f \in Files, SyncReadError(s, f) PROVE SnapOK(sync'[t])
  BY <1>0, <1>100, <1>5 DEF SyncReadError, SnapOK, SyncLocals, SyncIn, TrackedIn
<1>6. ASSUME NEW s \in Syncers, SyncRefresh(s) PROVE SnapOK(sync'[t])
  <2>1. sync[s] \in SyncLocals /\ SnapOK(sync[s]) /\ sync[s].pc = "refresh"
    BY <1>0, <1>6 DEF SyncRefresh, SyncIn, SnapInv, SnapOK, Pending
  <2>2. CASE sync' = [sync EXCEPT ![s] = IdleSync] BY <1>0, <1>100, <2>2
  <2>3. CASE sync' = [sync EXCEPT ![s].pc = "scan", ![s].batch = {}]
    <3>1. /\ sync'[s].pc = "scan" /\ sync'[s].snap = sync[s].snap /\ sync'[s].todo = sync[s].todo
          /\ sync'[s].dels = sync[s].dels /\ sync'[s].data = sync[s].data
      BY <1>0, <2>1, <2>3 DEF SyncLocals
    <3>2. SnapOK(sync'[s]) BY <2>1, <3>1 DEF SnapOK
    <3> QED BY <1>0, <2>3, <3>2
  <2> QED BY <1>6, <2>2, <2>3 DEF SyncRefresh
<1>7. ASSUME NEW s \in Syncers, SyncScanned(s) PROVE SnapOK(sync'[t])
  BY <1>0, <1>100, <1>7 DEF SyncScanned, SnapOK, SyncLocals, SyncIn, TrackedIn
<1>8. ASSUME NEW s \in Syncers, NEW g \in Groups, SyncCommit(s, g) PROVE SnapOK(sync'[t])
  <2>1. sync[s] \in SyncLocals /\ SnapOK(sync[s]) /\ sync[s].pc = "commit"
    BY <1>0, <1>8 DEF SyncCommit, SyncIn, SnapInv, SnapOK, Pending
  <2> DEFINE ents == {f \in GroupFiles(g) : sync[s].data[f] # Gone}
             dels == sync[s].dels \cap GroupFiles(g)
  <2>2. PICK b : sync' = [sync EXCEPT ![s].branch = b, ![s].batch = ents, ![s].unlink = dels,
                     ![s].dels = @ \ dels, ![s].data = [f \in Files |-> IF f \in ents THEN Gone ELSE @[f]]]
    BY <1>8 DEF SyncCommit
  <2> HIDE DEF ents, dels
  <2>3. /\ sync'[s].pc = "commit" /\ sync'[s].snap = sync[s].snap /\ sync'[s].todo = sync[s].todo
        /\ sync'[s].dels = sync[s].dels \ dels
        /\ sync'[s].data = [f \in Files |-> IF f \in ents THEN Gone ELSE sync[s].data[f]]
    BY <1>0, <2>1, <2>2 DEF SyncLocals
  <2>4. SnapOK(sync'[s]) BY <2>1, <2>3 DEF SnapOK
  <2> QED BY <1>0, <2>2, <2>4
<1>9. ASSUME NEW s \in Syncers, SyncCommitFails(s) PROVE SnapOK(sync'[t])
  BY <1>0, <1>100, <1>9 DEF SyncCommitFails, SnapOK, SyncLocals, SyncIn, TrackedIn
<1>10. ASSUME NEW s \in Syncers, NEW f \in Files, SyncRecord(s, f) PROVE SnapOK(sync'[t])
  <2>1. sync[s] \in SyncLocals /\ SnapOK(sync[s]) BY <1>0 DEF SnapInv, SnapOK, Pending
  <2>2. CASE sync' = [sync EXCEPT ![s] = IdleSync] BY <1>0, <1>100, <2>2
  <2>3. CASE sync' = [sync EXCEPT ![s].batch = @ \ {f}]
    <3>1. /\ sync'[s].pc = sync[s].pc /\ sync'[s].snap = sync[s].snap /\ sync'[s].todo = sync[s].todo
          /\ sync'[s].dels = sync[s].dels /\ sync'[s].data = sync[s].data
      BY <1>0, <2>1, <2>3 DEF SyncLocals
    <3>2. SnapOK(sync'[s]) BY <2>1, <3>1 DEF SnapOK
    <3> QED BY <1>0, <2>3, <3>2
  <2> QED BY <1>10, <2>2, <2>3 DEF SyncRecord
<1>11. ASSUME NEW s \in Syncers, SyncUntrack(s) PROVE SnapOK(sync'[t])
  BY <1>0, <1>100, <1>11 DEF SyncUntrack, SnapOK, SyncLocals, SyncIn, TrackedIn
<1>12. ASSUME NEW s \in Syncers, SyncManifest(s) PROVE SnapOK(sync'[t])
  BY <1>0, <1>100, <1>12 DEF SyncManifest, SnapOK, SyncLocals, SyncIn, TrackedIn
<1>13. ASSUME NEW s \in Syncers, SyncManifestFails(s) PROVE SnapOK(sync'[t])
  BY <1>0, <1>100, <1>13 DEF SyncManifestFails, SnapOK, SyncLocals, SyncIn, TrackedIn
<1>14. ASSUME NEW s \in Syncers, SyncReturn(s) PROVE SnapOK(sync'[t])
  BY <1>0, <1>100, <1>14 DEF SyncReturn, SnapOK, SyncLocals, SyncIn, TrackedIn
<1>15. CASE Crash BY <1>0, <1>100, <1>15 DEF Crash
<1>16. CASE UNCHANGED sync BY <1>16
<1>17. ASSUME NEW a \in Appliers, ApplyLoad(a) \/ ApplyStep(a) \/ ApplyFails(a) PROVE UNCHANGED sync
  BY <1>17 DEF ApplyStep, ApplyLoad, ApplyCheck, ApplyFails, ApplyBackup, ApplyRead,
    ApplyWrite, ApplyAborts, ApplyRecord, ApplyReturn
<1>18. ASSUME UserNext \/ Tick PROVE UNCHANGED sync
  BY <1>18 DEF UserNext, UserActs, Tick, Edit, Delete, Track, Untrack
<1> QED BY <1>1, <1>2, <1>3, <1>4, <1>5, <1>6, <1>7, <1>8, <1>9, <1>10, <1>11, <1>12,
  <1>13, <1>14, <1>15, <1>16, <1>17, <1>18 DEF Next, SyncStep, SyncTrouble, vars

\* An Apply only ever has files of its snapshot left, or in its hands.
LEMMA CurStep ==
  ASSUME TypeOK, CurInv, [Next]_vars
  PROVE  CurInv'
<1>0. apply \in [Appliers -> ApplyLocals] BY DEF TypeOK
<1> SUFFICES ASSUME NEW t \in Appliers PROVE CurOK(apply'[t])
  BY DEF CurInv, CurOK
<1> CurOK(apply[t]) /\ apply[t] \in ApplyLocals BY <1>0 DEF CurInv, CurOK
<1>100. CurOK(IdleApply) BY DEF CurOK, IdleApply
<1>1. ASSUME NEW a \in Appliers, ApplyLoad(a) PROVE CurOK(apply'[t])
  BY <1>0, <1>100, <1>1 DEF ApplyLoad, CurOK, ApplyLocals, ApplyIn, TrackedIn, IdleApply
<1>2. ASSUME NEW a \in Appliers, NEW f \in Files, ApplyCheck(a, f) PROVE CurOK(apply'[t])
  BY <1>0, <1>100, <1>2 DEF ApplyCheck, CurOK, ApplyLocals, ApplyIn, TrackedIn
<1>3. ASSUME NEW a \in Appliers, ApplyFails(a) PROVE CurOK(apply'[t])
  BY <1>0, <1>100, <1>3 DEF ApplyFails, CurOK, ApplyLocals, ApplyIn, TrackedIn
<1>4. ASSUME NEW a \in Appliers, ApplyBackup(a) PROVE CurOK(apply'[t])
  BY <1>0, <1>100, <1>4 DEF ApplyBackup, CurOK, ApplyLocals, ApplyIn, TrackedIn
<1>5. ASSUME NEW a \in Appliers, ApplyRead(a) PROVE CurOK(apply'[t])
  BY <1>0, <1>100, <1>5 DEF ApplyRead, CurOK, ApplyLocals, ApplyIn, TrackedIn
<1>6. ASSUME NEW a \in Appliers, ApplyWrite(a) PROVE CurOK(apply'[t])
  BY <1>0, <1>100, <1>6 DEF ApplyWrite, CurOK, ApplyLocals, ApplyIn, TrackedIn
<1>7. ASSUME NEW a \in Appliers, ApplyAborts(a) PROVE CurOK(apply'[t])
  BY <1>0, <1>100, <1>7 DEF ApplyAborts, CurOK, ApplyLocals, ApplyIn, TrackedIn
<1>8. ASSUME NEW a \in Appliers, ApplyRecord(a) PROVE CurOK(apply'[t])
  BY <1>0, <1>100, <1>8 DEF ApplyRecord, CurOK, ApplyLocals, ApplyIn, TrackedIn
<1>9. ASSUME NEW a \in Appliers, ApplyReturn(a) PROVE CurOK(apply'[t])
  BY <1>0, <1>100, <1>9 DEF ApplyReturn, CurOK, ApplyLocals, ApplyIn, TrackedIn
<1>10. CASE Crash BY <1>0, <1>100, <1>10 DEF Crash
<1>11. CASE UNCHANGED apply BY <1>11
<1>12. ASSUME NEW s \in Syncers, SyncLoad(s) \/ SyncStep(s) \/ SyncTrouble(s) PROVE UNCHANGED apply
  BY <1>12 DEF SyncStep, SyncTrouble, SyncLoad, SyncAutoTrack, SyncReload, SyncScan,
    SyncReadError, SyncRefresh, SyncScanned, SyncCommit, SyncCommitFails, SyncRecord,
    SyncUntrack, SyncManifest, SyncManifestFails, SyncReturn
<1>13. ASSUME UserNext \/ Tick PROVE UNCHANGED apply
  BY <1>13 DEF UserNext, UserActs, Tick, Edit, Delete, Track, Untrack
<1> QED BY <1>1, <1>2, <1>3, <1>4, <1>5, <1>6, <1>7, <1>8, <1>9, <1>10, <1>11, <1>12,
  <1>13 DEF Next, ApplyStep, vars

-----------------------------------------------------------------------------
(* What one step can do to the variables SeenInv is about.                 *)

\* Only a commit changes a branch tip or the history of commits.
LEMMA RepoMoves ==
  ASSUME [Next]_vars
  PROVE  UNCHANGED <<tree, committed>> \/ \E s \in Syncers, g \in Groups : SyncCommit(s, g)
<1>1. ASSUME NEW a \in Appliers, ApplyLoad(a) \/ ApplyStep(a) \/ ApplyFails(a)
      PROVE UNCHANGED <<tree, committed>>
  BY <1>1 DEF ApplyStep, repo, ApplyLoad, ApplyCheck, ApplyFails, ApplyBackup, ApplyRead,
    ApplyWrite, ApplyAborts, ApplyRecord, ApplyReturn
<1>2. ASSUME UserNext \/ Tick \/ Crash PROVE UNCHANGED <<tree, committed>>
  BY <1>2 DEF UserNext, Crash, repo, UserActs, Edit, Delete, Track, Untrack, Tick
<1>3. ASSUME NEW s \in Syncers, SyncLoad(s) \/ SyncStep(s) \/ SyncTrouble(s)
      PROVE UNCHANGED <<tree, committed>> \/ \E g \in Groups : SyncCommit(s, g)
  BY <1>3 DEF SyncStep, SyncTrouble, repo, SyncLoad, SyncAutoTrack, SyncReload, SyncScan,
    SyncReadError, SyncRefresh, SyncScanned, SyncCommitFails, SyncRecord, SyncUntrack,
    SyncManifest, SyncManifestFails, SyncReturn
<1>4. CASE UNCHANGED vars BY <1>4 DEF vars
<1> QED BY <1>1, <1>2, <1>3, <1>4 DEF Next

\* An Apply enters or stays in its two steps before the rename only by
\* backing up and by reading; whatever else it does, it saw nothing new.
LEMMA ApplyMoves ==
  ASSUME TypeOK, [Next]_vars, NEW t \in Appliers
  PROVE  \/ apply'[t] = apply[t] \/ ApplyBackup(t) \/ ApplyRead(t)
         \/ /\ apply'[t].pc \notin {"read", "write"}
            /\ apply'[t].seen \in {apply[t].seen, Gone}
<1> DEFINE Goal == \/ apply'[t] = apply[t] \/ ApplyBackup(t) \/ ApplyRead(t)
                   \/ /\ apply'[t].pc \notin {"read", "write"}
                      /\ apply'[t].seen \in {apply[t].seen, Gone}
<1>0. apply \in [Appliers -> ApplyLocals] /\ apply[t] \in ApplyLocals BY DEF TypeOK
<1>100. IdleApply.pc = "idle" /\ IdleApply.seen = Gone BY DEF IdleApply
<1>1. ASSUME NEW a \in Appliers, ApplyLoad(a) PROVE Goal
  BY <1>0, <1>100, <1>1 DEF ApplyLoad, ApplyLocals, ApplyIn, IdleApply
<1>2. ASSUME NEW a \in Appliers, NEW f \in Files, ApplyCheck(a, f) PROVE Goal
  BY <1>0, <1>100, <1>2 DEF ApplyCheck, ApplyLocals, ApplyIn
<1>3. ASSUME NEW a \in Appliers, ApplyFails(a) PROVE Goal
  BY <1>0, <1>100, <1>3 DEF ApplyFails, ApplyLocals, ApplyIn
<1>4. ASSUME NEW a \in Appliers, ApplyBackup(a) PROVE Goal
  BY <1>0, <1>4 DEF ApplyBackup
<1>5. ASSUME NEW a \in Appliers, ApplyRead(a) PROVE Goal
  BY <1>0, <1>5 DEF ApplyRead
<1>6. ASSUME NEW a \in Appliers, ApplyWrite(a) PROVE Goal
  BY <1>0, <1>100, <1>6 DEF ApplyWrite, ApplyLocals, ApplyIn
<1>7. ASSUME NEW a \in Appliers, ApplyAborts(a) PROVE Goal
  BY <1>0, <1>100, <1>7 DEF ApplyAborts, ApplyLocals, ApplyIn
<1>8. ASSUME NEW a \in Appliers, ApplyRecord(a) PROVE Goal
  BY <1>0, <1>100, <1>8 DEF ApplyRecord, ApplyLocals, ApplyIn
<1>9. ASSUME NEW a \in Appliers, ApplyReturn(a) PROVE Goal
  BY <1>0, <1>100, <1>9 DEF ApplyReturn, ApplyLocals, ApplyIn
<1>10. ASSUME Crash PROVE Goal BY <1>0, <1>100, <1>10 DEF Crash
<1>11. ASSUME UNCHANGED apply PROVE Goal BY <1>11
<1>12. ASSUME NEW s \in Syncers, SyncLoad(s) \/ SyncStep(s) \/ SyncTrouble(s) PROVE UNCHANGED apply
  BY <1>12 DEF SyncStep, SyncTrouble, SyncLoad, SyncAutoTrack, SyncReload, SyncScan,
    SyncReadError, SyncRefresh, SyncScanned, SyncCommit, SyncCommitFails, SyncRecord,
    SyncUntrack, SyncManifest, SyncManifestFails, SyncReturn
<1>13. ASSUME UserNext \/ Tick PROVE UNCHANGED apply
  BY <1>13 DEF UserNext, UserActs, Tick, Edit, Delete, Track, Untrack
<1> HIDE DEF Goal
<1>99. Goal BY <1>1, <1>2, <1>3, <1>4, <1>5, <1>6, <1>7, <1>8, <1>9, <1>10, <1>11, <1>12,
  <1>13 DEF Next, ApplyStep, vars
<1> QED BY <1>99 DEF Goal

\* What a Sync holds of a file is what it held, nothing, or what is on disk.
LEMMA SyncMoves ==
  ASSUME TypeOK, [Next]_vars, NEW t \in Syncers, NEW h \in Files
  PROVE  sync'[t].data[h] \in {sync[t].data[h], Gone, disk[h]}
<1> DEFINE Goal == sync'[t].data[h] \in {sync[t].data[h], Gone, disk[h]}
<1>0. sync \in [Syncers -> SyncLocals] /\ sync[t] \in SyncLocals BY DEF TypeOK
<1>100. IdleSync.data[h] = Gone BY DEF IdleSync, NoFile
<1>1. ASSUME NEW s \in Syncers, SyncLoad(s) PROVE Goal
  <2>1. sync'[s].data[h] = Gone BY <1>0, <1>1 DEF SyncLoad, IdleSync, NoFile
  <2>2. s # t => sync'[t] = sync[t] BY <1>0, <1>1 DEF SyncLoad
  <2> QED BY <2>1, <2>2
<1>2. ASSUME NEW s \in Syncers, NEW f \in Files, SyncAutoTrack(s, f) PROVE Goal
  BY <1>0, <1>100, <1>2 DEF SyncAutoTrack, SyncLocals
<1>3. ASSUME NEW s \in Syncers, SyncReload(s) PROVE Goal
  BY <1>0, <1>100, <1>3 DEF SyncReload, SyncLocals
<1>4. ASSUME NEW s \in Syncers, NEW f \in Files, SyncScan(s, f) PROVE Goal
  <2>1. CASE sync' = [sync EXCEPT ![s].todo = @ \ {f}, ![s].dels = @ \cup {f}]
    BY <1>0, <2>1 DEF SyncLocals
  <2>2. CASE sync' = [sync EXCEPT ![s].todo = @ \ {f}, ![s].pc = "refresh", ![s].batch = {f}]
    BY <1>0, <2>2 DEF SyncLocals
  <2>3. CASE sync' = [sync EXCEPT ![s].todo = @ \ {f}, ![s].data = [@ EXCEPT ![f] = disk[f]]]
    BY <1>0, <2>3 DEF SyncLocals
  <2> QED BY <1>4, <2>1, <2>2, <2>3 DEF SyncScan
<1>5. ASSUME NEW s \in Syncers, NEW f \in Files, SyncReadError(s, f) PROVE Goal
  BY <1>0, <1>100, <1>5 DEF SyncReadError, SyncLocals
<1>6. ASSUME NEW s \in Syncers, SyncRefresh(s) PROVE Goal
  <2>1. sync' = [sync EXCEPT ![s] = IdleSync] \/ sync' = [sync EXCEPT ![s].pc = "scan", ![s].batch = {}]
    BY <1>6 DEF SyncRefresh
  <2>2. s # t => sync'[t] = sync[t] BY <1>0, <2>1
  <2>3. sync'[s].data = sync[s].data \/ sync'[s] = IdleSync BY <1>0, <2>1 DEF SyncLocals
  <2> QED BY <1>100, <2>2, <2>3
<1>7. ASSUME NEW s \in Syncers, SyncScanned(s) PROVE Goal
  BY <1>0, <1>100, <1>7 DEF SyncScanned, SyncLocals
<1>8. ASSUME NEW s \in Syncers, NEW g \in Groups, SyncCommit(s, g) PROVE Goal
  <2> DEFINE ents == {f \in GroupFiles(g) : sync[s].data[f] # Gone}
             dels == sync[s].dels \cap GroupFiles(g)
  <2>1. PICK b : sync' = [sync EXCEPT ![s].branch = b, ![s].batch = ents, ![s].unlink = dels,
                     ![s].dels = @ \ dels, ![s].data = [f \in Files |-> IF f \in ents THEN Gone ELSE @[f]]]
    BY <1>8 DEF SyncCommit
  <2> HIDE DEF ents, dels
  <2>2. s # t => sync'[t] = sync[t] BY <1>0, <2>1
  <2>3. sync'[s].data = [f \in Files |-> IF f \in ents THEN Gone ELSE sync[s].data[f]]
    BY <1>0, <2>1 DEF SyncLocals
  <2> QED BY <2>2, <2>3
<1>9. ASSUME NEW s \in Syncers, SyncCommitFails(s) PROVE Goal
  BY <1>0, <1>100, <1>9 DEF SyncCommitFails, SyncLocals
<1>10. ASSUME NEW s \in Syncers, NEW f \in Files, SyncRecord(s, f) PROVE Goal
  <2>1. sync' = [sync EXCEPT ![s] = IdleSync] \/ sync' = [sync EXCEPT ![s].batch = @ \ {f}]
    BY <1>10 DEF SyncRecord
  <2>2. s # t => sync'[t] = sync[t] BY <1>0, <2>1
  <2>3. sync'[s].data = sync[s].data \/ sync'[s] = IdleSync BY <1>0, <2>1 DEF SyncLocals
  <2> QED BY <1>100, <2>2, <2>3
<1>11. ASSUME NEW s \in Syncers, SyncUntrack(s) PROVE Goal
  BY <1>0, <1>100, <1>11 DEF SyncUntrack, SyncLocals
<1>12. ASSUME NEW s \in Syncers, SyncManifest(s) PROVE Goal
  BY <1>0, <1>100, <1>12 DEF SyncManifest, SyncLocals
<1>13. ASSUME NEW s \in Syncers, SyncManifestFails(s) PROVE Goal
  BY <1>0, <1>100, <1>13 DEF SyncManifestFails, SyncLocals
<1>14. ASSUME NEW s \in Syncers, SyncReturn(s) PROVE Goal
  BY <1>0, <1>100, <1>14 DEF SyncReturn, SyncLocals
<1>15. ASSUME Crash PROVE Goal BY <1>0, <1>100, <1>15 DEF Crash
<1>16. ASSUME UNCHANGED sync PROVE Goal BY <1>16
<1>17. ASSUME NEW a \in Appliers, ApplyLoad(a) \/ ApplyStep(a) \/ ApplyFails(a) PROVE UNCHANGED sync
  BY <1>17 DEF ApplyStep, ApplyLoad, ApplyCheck, ApplyFails, ApplyBackup, ApplyRead,
    ApplyWrite, ApplyAborts, ApplyRecord, ApplyReturn
<1>18. ASSUME UserNext \/ Tick PROVE UNCHANGED sync
  BY <1>18 DEF UserNext, UserActs, Tick, Edit, Delete, Track, Untrack
<1> HIDE DEF Goal
<1>99. Goal BY <1>1, <1>2, <1>3, <1>4, <1>5, <1>6, <1>7, <1>8, <1>9, <1>10, <1>11, <1>12,
  <1>13, <1>14, <1>15, <1>16, <1>17, <1>18 DEF Next, SyncStep, SyncTrouble, vars
<1> QED BY <1>99 DEF Goal

\* A file changes by an edit, by a deletion, or by an Apply that puts
\* committed content into place.
LEMMA DiskMoves ==
  ASSUME TypeOK, CurInv, CommittedInv, [Next]_vars, NEW h \in Files
  PROVE  \/ disk'[h] = disk[h] \/ disk'[h] = Gone
         \/ disk'[h] = ops + 1 /\ ops' = ops + 1
         \/ disk'[h] \in Contents /\ <<h, disk'[h]>> \in committed
<1> DEFINE Goal == \/ disk'[h] = disk[h] \/ disk'[h] = Gone
                   \/ disk'[h] = ops + 1 /\ ops' = ops + 1
                   \/ disk'[h] \in Contents /\ <<h, disk'[h]>> \in committed
<1>1. ASSUME NEW f \in Files, Edit(f) PROVE Goal BY <1>1 DEF Edit, UserActs, TypeOK
<1>2. ASSUME NEW f \in Files, Delete(f) PROVE Goal BY <1>2 DEF Delete, UserActs, TypeOK
<1>3. ASSUME NEW a \in Appliers, ApplyWrite(a) PROVE Goal
  <2>1. apply[a].pc = "write" /\ disk' = [disk EXCEPT ![apply[a].cur] = apply[a].data]
    BY <1>3 DEF ApplyWrite, ApplyIn
  <2>2. <<apply[a].cur, apply[a].data>> \in committed BY <2>1 DEF CommittedInv
  <2>3. apply[a].data \in Contents BY <2>2 DEF TypeOK
  <2> QED BY <2>1, <2>2, <2>3 DEF TypeOK
<1>4. ASSUME UNCHANGED disk PROVE Goal BY <1>4
<1>5. ASSUME NEW s \in Syncers, SyncLoad(s) \/ SyncStep(s) \/ SyncTrouble(s) PROVE UNCHANGED disk
  BY <1>5 DEF SyncStep, SyncTrouble, SyncLoad, SyncAutoTrack, SyncReload, SyncScan,
    SyncReadError, SyncRefresh, SyncScanned, SyncCommit, SyncCommitFails, SyncRecord,
    SyncUntrack, SyncManifest, SyncManifestFails, SyncReturn
<1>6. ASSUME NEW a \in Appliers, ApplyLoad(a) \/ ApplyStep(a) \/ ApplyFails(a)
      PROVE UNCHANGED disk \/ ApplyWrite(a)
  BY <1>6 DEF ApplyStep, ApplyLoad, ApplyCheck, ApplyFails, ApplyBackup, ApplyRead,
    ApplyAborts, ApplyRecord, ApplyReturn
<1>7. ASSUME UserNext \/ Tick \/ Crash
      PROVE  UNCHANGED disk \/ \E f \in Files : Edit(f) \/ Delete(f)
  BY <1>7 DEF UserNext, Track, Untrack, Tick, Crash
<1> HIDE DEF Goal
<1>99. Goal BY <1>1, <1>2, <1>3, <1>4, <1>5, <1>6, <1>7 DEF Next, vars
<1> QED BY <1>99 DEF Goal

\* The operation counter never goes back.
LEMMA OpsMoves ==
  ASSUME TypeOK, [Next]_vars
  PROVE  ops <= ops' /\ ops' \in Nat
<1>1. ops \in Nat BY DEF TypeOK
<1>2. ASSUME NEW s \in Syncers, SyncLoad(s) \/ SyncStep(s) \/ SyncTrouble(s) PROVE ops' = ops
  BY <1>2 DEF SyncStep, SyncTrouble, counters, SyncLoad, SyncAutoTrack, SyncReload,
    SyncScan, SyncReadError, SyncRefresh, SyncScanned, SyncCommit, SyncCommitFails,
    SyncRecord, SyncUntrack, SyncManifest, SyncManifestFails, SyncReturn
<1>3. ASSUME NEW a \in Appliers, ApplyLoad(a) \/ ApplyStep(a) \/ ApplyFails(a) PROVE ops' = ops
  BY <1>3 DEF ApplyStep, counters, ApplyLoad, ApplyCheck, ApplyFails, ApplyBackup,
    ApplyRead, ApplyWrite, ApplyAborts, ApplyRecord, ApplyReturn
<1>4. ASSUME UserNext \/ Tick \/ Crash PROVE ops' \in {ops, ops + 1}
  BY <1>4 DEF UserNext, Crash, UserActs, Edit, Delete, Track, Untrack, Tick
<1>5. ASSUME UNCHANGED vars PROVE ops' = ops BY <1>5 DEF vars
<1>6. ops' \in {ops, ops + 1} BY <1>2, <1>3, <1>4, <1>5 DEF Next
<1> QED BY <1>1, <1>6

\* A content that is saved and still on disk stays saved: a backup of the
\* same second replaces it by itself at worst.
LEMMA SavedStays ==
  ASSUME TypeOK, CurInv, [Next]_vars, NEW h \in Files, Saved(h, disk[h])
  PROVE  \/ <<h, disk[h]>> \in committed' \/ \E t \in Seconds : backups'[h][t] = disk[h]
<1> DEFINE Goal == <<h, disk[h]>> \in committed' \/ \E t \in Seconds : backups'[h][t] = disk[h]
<1>1. committed \subseteq committed'
  <2>1. ASSUME NEW s \in Syncers, NEW g \in Groups, SyncCommit(s, g) PROVE committed \subseteq committed'
    BY <2>1 DEF SyncCommit
  <2> QED BY <2>1, RepoMoves
<1>2. ASSUME UNCHANGED backups PROVE Goal BY <1>1, <1>2 DEF Saved
<1>3. ASSUME NEW a \in Appliers, ApplyBackup(a) PROVE Goal
  <2>1. CASE DestOf(a) = Gone BY <1>1, <1>3, <2>1 DEF Saved, ApplyBackup
  <2>2. CASE DestOf(a) # Gone
    <3>1. backups' = [backups EXCEPT ![apply[a].cur][now] = disk[apply[a].cur]]
      BY <1>3, <2>2 DEF ApplyBackup, DestOf
    <3>2. apply[a].cur \in Files /\ now \in Seconds
      BY <1>3 DEF ApplyBackup, ApplyIn, CurInv, TrackedIn, TypeOK
    <3>3. backups \in [Files -> [Seconds -> Contents \cup {Gone}]] BY DEF TypeOK
    <3>4. CASE <<h, disk[h]>> \in committed BY <1>1, <3>4
    <3>5. ASSUME NEW t \in Seconds, backups[h][t] = disk[h] PROVE backups'[h][t] = disk[h]
      BY <3>1, <3>2, <3>3, <3>5
    <3> QED BY <3>4, <3>5 DEF Saved
  <2> QED BY <2>1, <2>2
<1>4. ASSUME NEW s \in Syncers, SyncLoad(s) \/ SyncStep(s) \/ SyncTrouble(s) PROVE UNCHANGED backups
  BY <1>4 DEF SyncStep, SyncTrouble, SyncLoad, SyncAutoTrack, SyncReload, SyncScan,
    SyncReadError, SyncRefresh, SyncScanned, SyncCommit, SyncCommitFails, SyncRecord,
    SyncUntrack, SyncManifest, SyncManifestFails, SyncReturn
<1>5. ASSUME NEW a \in Appliers, ApplyLoad(a) \/ ApplyStep(a) \/ ApplyFails(a)
      PROVE UNCHANGED backups \/ ApplyBackup(a)
  BY <1>5 DEF ApplyStep, ApplyLoad, ApplyCheck, ApplyFails, ApplyRead, ApplyWrite,
    ApplyAborts, ApplyRecord, ApplyReturn
<1>6. ASSUME UserNext \/ Tick \/ Crash PROVE UNCHANGED backups
  BY <1>6 DEF UserNext, Crash, UserActs, Edit, Delete, Track, Untrack, Tick
<1> HIDE DEF Goal
<1>99. Goal BY <1>2, <1>3, <1>4, <1>5, <1>6 DEF Next, vars
<1> QED BY <1>99 DEF Goal

-----------------------------------------------------------------------------
(* The remaining parts of IInv.                                            *)

\* Branch tips, and what an Apply read from them, stay within the history.
LEMMA CommittedStep ==
  ASSUME TypeOK, CurInv, CommittedInv, [Next]_vars
  PROVE  CommittedInv'
<1>1. ASSUME NEW s \in Syncers, NEW g \in Groups, SyncCommit(s, g),
             NEW b \in Branches, NEW f \in Files, tree'[b][f] # Gone
      PROVE  <<f, tree'[b][f]>> \in committed'
  <2> DEFINE ents == {h \in GroupFiles(g) : sync[s].data[h] # Gone}
             dels == sync[s].dels \cap GroupFiles(g)
  <2>1. PICK br : tree' = [tree EXCEPT ![br] = [h \in Files |->
          IF h \in dels THEN Gone ELSE IF h \in ents THEN sync[s].data[h] ELSE @[h]]]
    BY <1>1 DEF SyncCommit
  <2>2. committed' = committed \cup {<<h, sync[s].data[h]>> : h \in ents} BY <1>1 DEF SyncCommit
  <2> HIDE DEF ents, dels
  <2>3. tree \in [Branches -> [Files -> Contents \cup {Gone}]] BY DEF TypeOK
  <2>4. tree'[b][f] = tree[b][f] \/ (f \in ents /\ tree'[b][f] = sync[s].data[f])
    BY <1>1, <2>1, <2>3
  <2> QED BY <1>1, <2>2, <2>4 DEF CommittedInv
<1>2. committed \subseteq committed'
  <2>1. ASSUME NEW s \in Syncers, NEW g \in Groups, SyncCommit(s, g) PROVE committed \subseteq committed'
    BY <2>1 DEF SyncCommit
  <2> QED BY <2>1, RepoMoves
<1>3. ASSUME NEW b \in Branches, NEW f \in Files, tree'[b][f] # Gone
      PROVE  <<f, tree'[b][f]>> \in committed'
  <2>1. CASE UNCHANGED <<tree, committed>> BY <1>3, <2>1 DEF CommittedInv
  <2> QED BY <1>1, <1>3, <2>1, RepoMoves
<1>4. ASSUME NEW t \in Appliers, apply'[t].pc = "write"
      PROVE  <<apply'[t].cur, apply'[t].data>> \in committed'
  <2>1. CASE apply'[t] = apply[t] BY <1>2, <1>4, <2>1 DEF CommittedInv
  <2>2. CASE ApplyRead(t)
    <3> DEFINE content == tree[apply[t].snap[apply[t].cur].branch][apply[t].cur]
    <3>1. apply[t] \in ApplyLocals /\ apply \in [Appliers -> ApplyLocals] BY DEF TypeOK
    <3>2. apply[t].cur \in Files /\ apply[t].snap[apply[t].cur] \in Records
      BY <2>2, <3>1 DEF ApplyRead, ApplyIn, CurInv, TrackedIn, ApplyLocals
    <3>3. <<apply[t].cur, content>> \in committed BY <2>2, <3>2 DEF ApplyRead, CommittedInv, Records
    <3>4. apply' = [apply EXCEPT ![t].pc = "write", ![t].data = content] BY <2>2 DEF ApplyRead
    <3> HIDE DEF content
    <3>5. apply'[t].cur = apply[t].cur /\ apply'[t].data = content BY <3>1, <3>4 DEF ApplyLocals
    <3> QED BY <1>2, <3>3, <3>5
  <2>3. CASE ApplyBackup(t)
    <3>1. apply[t] \in ApplyLocals /\ apply \in [Appliers -> ApplyLocals] BY DEF TypeOK
    <3>2. apply'[t].pc = "read" BY <2>3, <3>1 DEF ApplyBackup, ApplyLocals
    <3> QED BY <1>4, <3>2
  <2> QED BY <1>4, <2>1, <2>2, <2>3, ApplyMoves
<1> QED BY <1>3, <1>4 DEF CommittedInv

\* The operation counter stays ahead of every content around.
LEMMA FreshStep ==
  ASSUME TypeOK, CurInv, CommittedInv, FreshInv, [Next]_vars
  PROVE  FreshInv'
<1>0. ops <= ops' /\ ops' \in Nat /\ ops \in Nat BY OpsMoves DEF TypeOK
<1>1. ASSUME NEW f \in Files, disk'[f] # Gone PROVE disk'[f] <= ops'
  <2>1. disk[f] \in Contents \cup {Gone} BY DEF TypeOK
  <2>2. disk'[f] = disk[f] \/ (disk'[f] = ops + 1 /\ ops' = ops + 1)
          \/ (disk'[f] \in Contents /\ <<f, disk'[f]>> \in committed)
    BY <1>1, DiskMoves
  <2> QED BY <1>0, <1>1, <2>1, <2>2 DEF FreshInv
<1>2. ASSUME NEW f \in Files, NEW c \in Contents, <<f, c>> \in committed' PROVE c <= ops'
  <2>1. ASSUME NEW s \in Syncers, NEW g \in Groups, SyncCommit(s, g), <<f, c>> \notin committed
        PROVE  c <= ops
    <3>1. sync[s].data[f] = c BY <1>2, <2>1 DEF SyncCommit
    <3>2. c # Gone OBVIOUS
    <3> QED BY <3>1, <3>2 DEF FreshInv
  <2>2. CASE <<f, c>> \in committed BY <1>0, <2>2 DEF FreshInv
  <2> QED BY <1>0, <1>2, <2>1, <2>2, RepoMoves
<1>3. ASSUME NEW s \in Syncers, NEW f \in Files, sync'[s].data[f] # Gone PROVE sync'[s].data[f] <= ops'
  <2>1. sync'[s].data[f] \in {sync[s].data[f], Gone, disk[f]} BY SyncMoves
  <2>2. sync[s].data[f] \in Contents \cup {Gone} /\ disk[f] \in Contents \cup {Gone}
    BY DEF TypeOK, SyncLocals
  <2> QED BY <1>0, <1>3, <2>1, <2>2 DEF FreshInv
<1>4. ASSUME NEW t \in Appliers, apply'[t].seen # Gone PROVE apply'[t].seen <= ops'
  <2>1. apply[t] \in ApplyLocals /\ apply \in [Appliers -> ApplyLocals] BY DEF TypeOK
  <2>2. apply[t].seen \in Contents \cup {Gone} BY <2>1 DEF ApplyLocals
  <2>3. CASE apply'[t].seen = apply[t].seen BY <1>0, <1>4, <2>2, <2>3 DEF FreshInv
  <2>4. CASE ApplyRead(t)
    <3>1. apply'[t].seen = apply[t].seen BY <2>1, <2>4 DEF ApplyRead, ApplyLocals
    <3> QED BY <2>3, <3>1
  <2>5. CASE ApplyBackup(t)
    <3>1. apply[t].cur \in Files BY <2>5 DEF ApplyBackup, ApplyIn, CurInv, TrackedIn
    <3>2. apply'[t].seen = disk[apply[t].cur] BY <2>1, <2>5 DEF ApplyBackup, ApplyLocals, DestOf
    <3>3. disk[apply[t].cur] \in Contents \cup {Gone} BY <3>1 DEF TypeOK
    <3> QED BY <1>0, <1>4, <3>1, <3>2, <3>3 DEF FreshInv
  <2> QED BY <1>4, <2>3, <2>4, <2>5, ApplyMoves
<1> QED BY <1>1, <1>2, <1>3, <1>4 DEF FreshInv

\* What an Apply saw is saved as long as it is still there.
LEMMA SeenStep ==
  ASSUME TypeOK, CurInv, CommittedInv, FreshInv, SeenInv, [Next]_vars
  PROVE  SeenInv'
<1> SUFFICES ASSUME NEW t \in Appliers, apply'[t].pc \in {"read", "write"},
                    disk'[apply'[t].cur] = apply'[t].seen, apply'[t].seen # Gone
             PROVE  \/ <<apply'[t].cur, apply'[t].seen>> \in committed'
                    \/ \E s \in Seconds : backups'[apply'[t].cur][s] = apply'[t].seen
  BY DEF SeenInv, Saved
<1>0. apply[t] \in ApplyLocals /\ apply \in [Appliers -> ApplyLocals] BY DEF TypeOK
<1>1. CASE ApplyBackup(t)
  <2>1. apply[t].cur \in Files /\ now \in Seconds
    BY <1>1 DEF ApplyBackup, ApplyIn, CurInv, TrackedIn, TypeOK
  <2>2. apply'[t].seen = disk[apply[t].cur] /\ apply'[t].cur = apply[t].cur
    BY <1>0, <1>1 DEF ApplyBackup, ApplyLocals, DestOf
  <2>3. backups' = [backups EXCEPT ![apply[t].cur][now] = disk[apply[t].cur]]
    BY <1>1, <2>2 DEF ApplyBackup, DestOf
  <2>4. backups'[apply[t].cur][now] = disk[apply[t].cur] BY <2>1, <2>3 DEF TypeOK
  <2> QED BY <2>1, <2>2, <2>4
<1>2. CASE ApplyRead(t) \/ apply'[t] = apply[t]
  <2>1. apply'[t].cur = apply[t].cur /\ apply'[t].seen = apply[t].seen
        /\ apply[t].pc \in {"read", "write"}
    BY <1>0, <1>2 DEF ApplyRead, ApplyIn, ApplyLocals
  <2>2. apply[t].cur \in Files BY <2>1 DEF CurInv, TrackedIn
  <2>3. apply[t].seen \in Contents /\ apply[t].seen <= ops
    BY <1>0, <2>1 DEF FreshInv, ApplyLocals
  <2>4. CASE disk[apply[t].cur] = apply[t].seen
    <3>1. Saved(apply[t].cur, disk[apply[t].cur]) BY <2>1, <2>4 DEF SeenInv
    <3> QED BY <2>1, <2>2, <2>4, <3>1, SavedStays
  <2>5. CASE disk[apply[t].cur] # apply[t].seen
    <3>1. <<apply[t].cur, apply[t].seen>> \in committed
      <4>1. ops \in Nat /\ apply[t].seen # ops + 1 BY <2>3 DEF TypeOK
      <4> QED BY <2>1, <2>2, <2>5, <4>1, DiskMoves
    <3>2. committed \subseteq committed'
      <4>1. ASSUME NEW s \in Syncers, NEW g \in Groups, SyncCommit(s, g) PROVE committed \subseteq committed'
        BY <4>1 DEF SyncCommit
      <4> QED BY <4>1, RepoMoves
    <3> QED BY <2>1, <3>1, <3>2
  <2> QED BY <2>4, <2>5
<1> QED BY <1>1, <1>2, ApplyMoves

-----------------------------------------------------------------------------
(* The theorems.                                                           *)

\* IInv is an invariant: it holds initially and every step keeps it.
THEOREM Inductive == Spec => []IInv
<1>1. Init => IInv
  <2> SUFFICES ASSUME Init PROVE IInv OBVIOUS
  <2>1. TypeOK BY IdleTypes DEF Init, TypeOK, Records, TrackBranch
  <2>2. SnapInv BY DEF Init, SnapInv, Pending, IdleSync, NoFile
  <2>3. CurInv BY DEF Init, CurInv, IdleApply
  <2>4. CommittedInv BY DEF Init, CommittedInv, IdleApply
  <2>5. FreshInv BY DEF Init, FreshInv, IdleApply, IdleSync, NoFile
  <2>6. SeenInv BY DEF Init, SeenInv, IdleApply
  <2> QED BY <2>1, <2>2, <2>3, <2>4, <2>5, <2>6 DEF IInv
<1>2. IInv /\ [Next]_vars => IInv'
  BY TypeStep, SnapStep, CurStep, CommittedStep, FreshStep, SeenStep DEF IInv
<1> QED BY <1>1, <1>2, PTL DEF Spec

\* Every variable keeps its type.
THEOREM TypeCorrect == Spec => []TypeOK
BY Inductive, PTL DEF IInv

\* No Apply destroys a content it came across: at the rename it is in the
\* history of commits or in a backup.
THEOREM NothingSeenIsEverLost == Spec => NothingSeenIsLost
<1>1. ASSUME IInv, NEW a \in Appliers, Overwrites(a), DestOf(a) = apply[a].seen
      PROVE  DestOf(a) = Gone \/ Saved(apply[a].cur, DestOf(a))
  BY <1>1 DEF IInv, SeenInv, Overwrites, DestOf
<1>2. IInv /\ [Next]_vars =>
        [\A a \in Appliers : Overwrites(a) /\ DestOf(a) = apply[a].seen
           => DestOf(a) = Gone \/ Saved(apply[a].cur, DestOf(a))]_vars
  BY <1>1
<1> QED BY <1>2, Inductive, PTL DEF Spec, NothingSeenIsLost
-----------------------------------------------------------------------------
(* Deleted files.                                                          *)

\* What a Sync has read and not yet committed.
Held(q) == {f \in Files : q.data[f] # Gone}

\* Without --local files the local/ branches stay empty.
TrackInv ==
  /\ \A f \in Files : tree["local"][f] = Gone
  /\ \A f \in TrackedIn(recs) : recs[f].branch = "track"
  /\ \A s \in Syncers :
       /\ sync[s].branch = "track"
       /\ \A f \in TrackedIn(sync[s].snap) : sync[s].snap[f].branch = "track"

\* A Sync never holds the content of a file that was dropped, or that it is
\* about to drop: gone is the set dropped, tip is the group's branch.
DropOK(q, gone, tip) ==
  /\ q.pc \in {"walk", "scan", "refresh"} => q.unlink = {} /\ gone \cap TrackedIn(q.snap) = {}
  /\ q.pc = "commit" => gone \cap Held(q) = {}
  /\ \A f \in q.unlink : q.data[f] = Gone /\ tip[f] = Gone

DropInv ==
  /\ \A f \in dropped : recs[f] = NoRec /\ tree["track"][f] = Gone
  /\ \A s \in Syncers : DropOK(sync[s], dropped, tree["track"])

\* What a Sync commits of a group: contents, and deletions.
Ents(s, g) == GroupFiles(g) \cap Held(sync[s])
Dels(s, g) == GroupFiles(g) \cap sync[s].dels

\* A commit in one piece: what it does to the tree and leaves the Sync with.
LEMMA CommitShape ==
  ASSUME TypeOK, SnapInv, TrackInv, NEW s \in Syncers, NEW g \in Groups, SyncCommit(s, g)
  PROVE  /\ tree' = [tree EXCEPT !["track"] = [f \in Files |->
              IF f \in Dels(s, g) THEN Gone ELSE IF f \in Ents(s, g) THEN sync[s].data[f] ELSE @[f]]]
         /\ sync' = [sync EXCEPT ![s] = sync'[s]] /\ sync'[s] \in SyncLocals
         /\ sync'[s].pc = "commit" /\ sync'[s].branch = "track" /\ sync'[s].snap = sync[s].snap
         /\ sync'[s].todo = sync[s].todo /\ sync'[s].scope = sync[s].scope
         /\ sync'[s].batch = Ents(s, g) /\ sync'[s].unlink = Dels(s, g)
         /\ sync'[s].dels = sync[s].dels \ Dels(s, g)
         /\ sync'[s].data = [f \in Files |-> IF f \in Ents(s, g) THEN Gone ELSE sync[s].data[f]]
<1> DEFINE ents == {f \in GroupFiles(g) : sync[s].data[f] # Gone}
           dels == sync[s].dels \cap GroupFiles(g)
<1>1. sync \in [Syncers -> SyncLocals] /\ sync[s] \in SyncLocals BY DEF TypeOK
<1>2. sync[s].pc = "commit" BY DEF SyncCommit, SyncIn
<1>3. ents = Ents(s, g) /\ dels = Dels(s, g) BY DEF GroupFiles, Held, Ents, Dels
<1>4. PICK b \in GroupBranches(s, ents, dels) :
        /\ tree' = [tree EXCEPT ![b] = [f \in Files |->
             IF f \in dels THEN Gone ELSE IF f \in ents THEN sync[s].data[f] ELSE @[f]]]
        /\ sync' = [sync EXCEPT ![s].branch = b, ![s].batch = ents, ![s].unlink = dels,
                      ![s].dels = @ \ dels, ![s].data = [f \in Files |-> IF f \in ents THEN Gone ELSE @[f]]]
  BY DEF SyncCommit
<1>5. b = "track"
  <2>1. ents \cup dels \subseteq TrackedIn(sync[s].snap) BY <1>2 DEF SnapInv, Pending, GroupFiles
  <2> HIDE DEF ents, dels
  <2> QED BY <1>4, <2>1 DEF GroupBranches, TrackInv
<1> HIDE DEF ents, dels
<1>6. sync' \in [Syncers -> SyncLocals] /\ sync'[s] \in SyncLocals
  BY SyncTypeStep DEF Next, SyncStep
<1>7. /\ sync'[s].pc = "commit" /\ sync'[s].branch = "track" /\ sync'[s].snap = sync[s].snap
      /\ sync'[s].todo = sync[s].todo /\ sync'[s].scope = sync[s].scope
      /\ sync'[s].batch = ents /\ sync'[s].unlink = dels /\ sync'[s].dels = sync[s].dels \ dels
      /\ sync'[s].data = [f \in Files |-> IF f \in ents THEN Gone ELSE sync[s].data[f]]
  BY <1>1, <1>2, <1>4, <1>5 DEF SyncLocals
<1>8. sync' = [sync EXCEPT ![s] = sync'[s]]
  <2>1. \A u \in Syncers : u # s => sync'[u] = sync[u] BY <1>1, <1>4
  <2> QED BY <1>1, <1>6, <2>1
<1> QED BY <1>3, <1>4, <1>5, <1>6, <1>7, <1>8

\* How a record changes: it stays, a Sync or the user takes it out, its hash
\* is taken from disk, or it is new.  A file with a record is not a dropped one.
LEMMA RecsMove ==
  ASSUME TypeOK, [Next]_vars, NEW h \in Files
  PROVE  \/ recs'[h] \in {recs[h], NoRec} /\ (h \in dropped' => h \in dropped)
         \/ recs'[h] = NoRec /\ \E s \in Syncers : SyncUntrack(s) /\ h \in sync[s].unlink
         \/ /\ recs[h] # NoRec /\ recs'[h] = [recs[h] EXCEPT !.hash = disk[h]] /\ dropped' = dropped
         \/ /\ recs[h] = NoRec /\ recs'[h].branch \in {"track", TrackBranch(h)} /\ h \notin dropped'
<1> DEFINE Goal ==
         \/ recs'[h] \in {recs[h], NoRec} /\ (h \in dropped' => h \in dropped)
         \/ recs'[h] = NoRec /\ \E s \in Syncers : SyncUntrack(s) /\ h \in sync[s].unlink
         \/ /\ recs[h] # NoRec /\ recs'[h] = [recs[h] EXCEPT !.hash = disk[h]] /\ dropped' = dropped
         \/ /\ recs[h] = NoRec /\ recs'[h].branch \in {"track", TrackBranch(h)} /\ h \notin dropped'
<1>0. recs \in [Files -> Records \cup {NoRec}] BY DEF TypeOK
<1>1. ASSUME NEW f \in Files, Edit(f) \/ Delete(f) PROVE Goal BY <1>1 DEF Edit, Delete
<1>2. ASSUME NEW f \in Files, Track(f) PROVE Goal BY <1>0, <1>2 DEF Track
<1>3. ASSUME NEW f \in Files, Untrack(f) PROVE Goal BY <1>0, <1>3 DEF Untrack
<1>4. ASSUME Tick \/ Crash \/ UNCHANGED vars PROVE Goal BY <1>4 DEF Tick, Crash, repo, vars
<1>5. ASSUME NEW s \in Syncers, NEW f \in Files, SyncAutoTrack(s, f) PROVE Goal
  <2>1. CASE recs[f] = NoRec /\ recs' = [recs EXCEPT ![f] = [hash |-> disk[f], branch |-> "track"]]
                 /\ dropped' = dropped \ {f}
    BY <1>0, <2>1
  <2>2. CASE UNCHANGED <<recs, dropped>> BY <2>2
  <2> QED BY <1>5, <2>1, <2>2 DEF SyncAutoTrack
<1>6. ASSUME NEW s \in Syncers, SyncRefresh(s) PROVE Goal
  <2>1. PICK f \in sync[s].batch :
          recs' = recs \/ (recs[f] # NoRec /\ recs' = Rehashed(f))
    BY <1>6 DEF SyncRefresh
  <2>2. f \in Files BY DEF TypeOK, SyncLocals
  <2>3. dropped' = dropped BY <1>6 DEF SyncRefresh, repo
  <2> QED BY <1>0, <2>1, <2>2, <2>3 DEF Rehashed
<1>7. ASSUME NEW s \in Syncers, NEW f \in Files, SyncRecord(s, f) PROVE Goal
  <2>1. recs' = recs \/ (recs[f] # NoRec /\ recs' = Rehashed(f))
    BY <1>7 DEF SyncRecord
  <2>2. dropped' = dropped BY <1>7 DEF SyncRecord, repo
  <2> QED BY <1>0, <2>1, <2>2 DEF Rehashed
<1>8. ASSUME NEW s \in Syncers, SyncUntrack(s) PROVE Goal
  <2>1. recs' = [f \in Files |-> IF f \in sync[s].unlink THEN NoRec ELSE recs[f]]
        /\ dropped' = dropped \cup sync[s].unlink
    BY <1>8 DEF SyncUntrack
  <2>2. CASE h \in sync[s].unlink BY <1>8, <2>1, <2>2
  <2>3. CASE h \notin sync[s].unlink BY <2>1, <2>3
  <2> QED BY <2>2, <2>3
<1>9. ASSUME NEW a \in Appliers, ApplyRecord(a) PROVE Goal
  <2>1. recs'[h] = recs[h] \/ (recs[h] # NoRec /\ recs'[h] = [recs[h] EXCEPT !.hash = disk[h]])
    BY <1>9 DEF ApplyRecord
  <2>2. dropped' = dropped BY <1>9 DEF ApplyRecord, repo
  <2> QED BY <2>1, <2>2
<1>10. ASSUME NEW s \in Syncers, SyncLoad(s) \/ SyncStep(s) \/ SyncTrouble(s)
       PROVE  \/ UNCHANGED <<recs, dropped>> \/ SyncRefresh(s) \/ SyncUntrack(s)
              \/ \E f \in Files : SyncAutoTrack(s, f) \/ SyncRecord(s, f)
  BY <1>10 DEF SyncStep, SyncTrouble, repo, SyncLoad, SyncReload, SyncScan, SyncReadError,
    SyncScanned, SyncCommit, SyncCommitFails, SyncManifest, SyncManifestFails, SyncReturn
<1>11. ASSUME NEW a \in Appliers, ApplyLoad(a) \/ ApplyStep(a) \/ ApplyFails(a)
       PROVE  UNCHANGED <<recs, dropped>> \/ ApplyRecord(a)
  BY <1>11 DEF ApplyStep, repo, ApplyLoad, ApplyCheck, ApplyFails, ApplyBackup, ApplyRead,
    ApplyWrite, ApplyAborts, ApplyReturn
<1>12. ASSUME UNCHANGED <<recs, dropped>> PROVE Goal BY <1>12
<1> HIDE DEF Goal
<1>99. Goal
  <2>1. ASSUME UserNext PROVE Goal BY <1>1, <1>2, <1>3, <2>1 DEF UserNext
  <2>2. ASSUME NEW s \in Syncers, SyncLoad(s) \/ SyncStep(s) \/ SyncTrouble(s) PROVE Goal
    BY <1>5, <1>6, <1>7, <1>8, <1>10, <1>12, <2>2
  <2>3. ASSUME NEW a \in Appliers, ApplyLoad(a) \/ ApplyStep(a) \/ ApplyFails(a) PROVE Goal
    BY <1>9, <1>11, <1>12, <2>3
  <2> QED BY <1>4, <2>1, <2>2, <2>3 DEF Next
<1> QED BY <1>99 DEF Goal

\* A Sync loads the records of state.json and takes its branch from them.
LEMMA SnapMoves ==
  ASSUME TypeOK, [Next]_vars, NEW t \in Syncers
  PROVE  /\ sync'[t].snap \in {sync[t].snap, recs, NoRecords}
         /\ \/ sync'[t].branch \in {sync[t].branch, "track"}
            \/ \E g \in Groups : SyncCommit(t, g)
<1> DEFINE Goal == /\ sync'[t].snap \in {sync[t].snap, recs, NoRecords}
                   /\ \/ sync'[t].branch \in {sync[t].branch, "track"}
                      \/ \E g \in Groups : SyncCommit(t, g)
<1>0. sync \in [Syncers -> SyncLocals] BY DEF TypeOK
<1>i. IdleSync.snap = NoRecords /\ IdleSync.branch = "track" BY DEF IdleSync
<1>1. ASSUME NEW s \in Syncers, SyncLoad(s) PROVE Goal
  <2>1. sync'[s].snap = recs /\ sync'[s].branch = "track" BY <1>0, <1>1 DEF SyncLoad, IdleSync
  <2>2. s # t => sync'[t] = sync[t] BY <1>0, <1>1 DEF SyncLoad
  <2> QED BY <2>1, <2>2
<1>2. ASSUME NEW s \in Syncers, NEW g \in Groups, SyncCommit(s, g) PROVE Goal
  <2> DEFINE ents == {f \in GroupFiles(g) : sync[s].data[f] # Gone}
             dels == sync[s].dels \cap GroupFiles(g)
  <2>1. PICK b : sync' = [sync EXCEPT ![s].branch = b, ![s].batch = ents, ![s].unlink = dels,
                     ![s].dels = @ \ dels, ![s].data = [f \in Files |-> IF f \in ents THEN Gone ELSE @[f]]]
    BY <1>2 DEF SyncCommit
  <2> HIDE DEF ents, dels
  <2>2. s # t => sync'[t] = sync[t] BY <1>0, <2>1
  <2>3. sync'[s].snap = sync[s].snap BY <1>0, <2>1 DEF SyncLocals
  <2> QED BY <1>2, <2>2, <2>3
<1>3. ASSUME NEW s \in Syncers, sync' = [sync EXCEPT ![s] = IdleSync] PROVE Goal
  BY <1>0, <1>i, <1>3
<1>4. ASSUME NEW s \in Syncers, SyncReload(s) PROVE Goal
  <2>1. PICK snap \in {sync[s].snap, recs} :
          sync' = [sync EXCEPT ![s].pc = "scan", ![s].snap = snap,
                     ![s].todo = TrackedIn(snap), ![s].scope = TrackedIn(snap)]
    BY <1>4 DEF SyncReload
  <2>2. s # t => sync'[t] = sync[t] BY <1>0, <2>1
  <2>3. sync'[s].snap = snap /\ sync'[s].branch = sync[s].branch BY <1>0, <2>1 DEF SyncLocals
  <2> QED BY <2>2, <2>3
<1>5. ASSUME NEW s \in Syncers, NEW f \in Files, SyncAutoTrack(s, f) \/ SyncReadError(s, f) PROVE Goal
  BY <1>0, <1>5 DEF SyncAutoTrack, SyncReadError, SyncLocals
<1>6. ASSUME NEW s \in Syncers, NEW f \in Files, SyncScan(s, f) PROVE Goal
  <2>1. s # t => sync'[t] = sync[t] BY <1>0, <1>6 DEF SyncScan
  <2>2. sync'[s].snap = sync[s].snap /\ sync'[s].branch = sync[s].branch
    BY <1>0, <1>6 DEF SyncScan, SyncLocals
  <2> QED BY <2>1, <2>2
<1>7. ASSUME NEW s \in Syncers,
             sync' = [sync EXCEPT ![s].pc = "scan", ![s].batch = {}]
               \/ SyncScanned(s) \/ SyncUntrack(s) \/ SyncManifest(s) \/ SyncManifestFails(s)
               \/ \E f \in Files : sync' = [sync EXCEPT ![s].batch = @ \ {f}]
      PROVE  Goal
  <2>1. s # t => sync'[t] = sync[t]
    BY <1>0, <1>7 DEF SyncScanned, SyncUntrack, SyncManifest, SyncManifestFails
  <2>2. sync'[s].snap = sync[s].snap /\ sync'[s].branch = sync[s].branch
    BY <1>0, <1>7 DEF SyncScanned, SyncUntrack, SyncManifest, SyncManifestFails, SyncLocals
  <2> QED BY <2>1, <2>2
<1>8. ASSUME NEW s \in Syncers, SyncRefresh(s)
      PROVE  sync' = [sync EXCEPT ![s] = IdleSync] \/ sync' = [sync EXCEPT ![s].pc = "scan", ![s].batch = {}]
  BY <1>8 DEF SyncRefresh
<1>9. ASSUME NEW s \in Syncers, NEW f \in Files, SyncRecord(s, f)
      PROVE  sync' = [sync EXCEPT ![s] = IdleSync] \/ sync' = [sync EXCEPT ![s].batch = @ \ {f}]
  BY <1>9 DEF SyncRecord
<1>10. ASSUME NEW s \in Syncers, SyncCommitFails(s) \/ SyncReturn(s)
       PROVE  sync' = [sync EXCEPT ![s] = IdleSync]
  BY <1>10 DEF SyncCommitFails, SyncReturn
<1>11. ASSUME UNCHANGED sync PROVE Goal BY <1>11
<1>12. ASSUME UserNext \/ Tick \/ Crash \/ UNCHANGED vars
       PROVE  UNCHANGED sync \/ \E s \in Syncers : sync' = [sync EXCEPT ![s] = IdleSync]
  BY <1>12 DEF UserNext, UserActs, Edit, Delete, Track, Untrack, Tick, Crash, vars
<1>13. ASSUME NEW a \in Appliers, ApplyLoad(a) \/ ApplyStep(a) \/ ApplyFails(a) PROVE UNCHANGED sync
  BY <1>13 DEF ApplyStep, ApplyLoad, ApplyCheck, ApplyFails, ApplyBackup, ApplyRead,
    ApplyWrite, ApplyAborts, ApplyRecord, ApplyReturn
<1> HIDE DEF Goal
<1>99. Goal
  <2>1. ASSUME NEW s \in Syncers, SyncLoad(s) \/ SyncStep(s) \/ SyncTrouble(s) PROVE Goal
    BY <1>1, <1>2, <1>3, <1>4, <1>5, <1>6, <1>7, <1>8, <1>9, <1>10, <2>1 DEF SyncStep, SyncTrouble
  <2> QED BY <1>3, <1>11, <1>12, <1>13, <2>1 DEF Next
<1> QED BY <1>99 DEF Goal

\* Without --local files, no step writes to a local/ branch.
LEMMA TrackStep ==
  ASSUME LocalFiles = {}, TypeOK, SnapInv, TrackInv, [Next]_vars
  PROVE  TrackInv'
<1>1. \A f \in Files : tree'["local"][f] = Gone
  <2>1. ASSUME NEW s \in Syncers, NEW g \in Groups, SyncCommit(s, g) PROVE tree'["local"] = tree["local"]
    <3>1. \E r : tree' = [tree EXCEPT !["track"] = r] BY <2>1, CommitShape
    <3> QED BY <3>1 DEF TypeOK
  <2> QED BY <2>1, RepoMoves DEF TrackInv
<1>2. \A f \in Files : TrackBranch(f) = "track" BY DEF TrackBranch
<1>3. ASSUME NEW f \in Files, recs'[f] # NoRec PROVE recs'[f].branch = "track"
  <2>1. recs \in [Files -> Records \cup {NoRec}] BY DEF TypeOK
  <2>2. recs[f] # NoRec => recs[f].branch = "track" /\ recs[f] \in Records
    BY <2>1 DEF TrackInv, TrackedIn
  <2>3. recs[f] # NoRec => [recs[f] EXCEPT !.hash = disk[f]].branch = "track"
    BY <2>2 DEF Records
  <2> QED BY <1>2, <1>3, <2>2, <2>3, RecsMove
<1>4. ASSUME NEW t \in Syncers
      PROVE  sync'[t].branch = "track" /\ \A f \in TrackedIn(sync'[t].snap) : sync'[t].snap[f].branch = "track"
  <2>1. sync'[t].branch = "track" BY SnapMoves, CommitShape DEF TrackInv
  <2>2. TrackedIn(NoRecords) = {} BY DEF TrackedIn, NoRecords
  <2> QED BY <2>1, <2>2, SnapMoves DEF TrackInv
<1> QED BY <1>1, <1>3, <1>4 DEF TrackInv, TrackedIn

\* A step that leaves what DropOK looks at alone, or lets the Sync stop.
LEMMA DropKept ==
  ASSUME NEW q \in SyncLocals, NEW r \in SyncLocals, NEW gone, NEW gone2, NEW tip,
         DropOK(q, gone, tip), gone2 \subseteq gone,
         \/ r = IdleSync
         \/ /\ r.unlink = q.unlink /\ r.snap = q.snap /\ r.data = q.data
            /\ r.pc \in {q.pc, "done"} \/ (q.pc = "refresh" /\ r.pc = "scan")
  PROVE  DropOK(r, gone2, tip)
<1>1. CASE r = IdleSync BY <1>1 DEF DropOK, IdleSync
<1> QED BY <1>1 DEF DropOK, Held

\* With one Sync at a time, what was dropped stays out of the branch: that
\* Sync holds none of it.
LEMMA DropStep ==
  ASSUME \A s, t \in Syncers : s = t, TypeOK, SnapInv, CurInv, TrackInv, DropInv, [Next]_vars
  PROVE  DropInv'
<1>0. sync \in [Syncers -> SyncLocals] /\ tree \in [Branches -> [Files -> Contents \cup {Gone}]]
  BY DEF TypeOK
<1>1. ASSUME NEW f \in dropped' PROVE recs'[f] = NoRec /\ tree'["track"][f] = Gone
  <2>0. f \in Files BY TypeStep DEF TypeOK
  <2>1. CASE f \in dropped
    <3>1. recs[f] = NoRec /\ tree["track"][f] = Gone BY <2>1 DEF DropInv
    <3>2. ASSUME NEW s \in Syncers, NEW g \in Groups, SyncCommit(s, g) PROVE tree'["track"][f] = Gone
      <4>1. f \notin Held(sync[s]) BY <2>1, <3>2 DEF DropInv, DropOK, SyncCommit, SyncIn
      <4>2. tree' = [tree EXCEPT !["track"] = [h \in Files |->
              IF h \in Dels(s, g) THEN Gone ELSE IF h \in Ents(s, g) THEN sync[s].data[h] ELSE @[h]]]
        BY <3>2, CommitShape
      <4> QED BY <1>0, <2>0, <3>1, <4>1, <4>2 DEF Ents
    <3> QED BY <1>1, <2>0, <3>1, <3>2, RecsMove, RepoMoves
  <2>2. CASE f \notin dropped
    <3>1. PICK s \in Syncers : SyncUntrack(s) /\ f \in sync[s].unlink /\ recs'[f] = NoRec
      BY <1>1, <2>0, <2>2, RecsMove
    <3>2. tree' = tree BY <3>1 DEF SyncUntrack
    <3> QED BY <3>1, <3>2 DEF DropInv, DropOK
  <2> QED BY <2>1, <2>2
<1>2. ASSUME NEW t \in Syncers PROVE DropOK(sync'[t], dropped', tree'["track"])
  <2> DEFINE Goal == DropOK(sync'[t], dropped', tree'["track"])
  <2>0. /\ sync[t] \in SyncLocals /\ sync'[t] \in SyncLocals
        /\ DropOK(sync[t], dropped, tree["track"]) /\ dropped \cap TrackedIn(recs) = {}
    BY <1>0, SyncTypeStep DEF DropInv, TrackedIn
  <2>1. ASSUME tree' = tree, dropped' \subseteq dropped, sync' = [sync EXCEPT ![t] = IdleSync] PROVE Goal
    BY <1>0, <2>0, <2>1, DropKept
  <2>2. ASSUME tree' = tree, dropped' \subseteq dropped, sync'[t] = sync[t] PROVE Goal
    BY <2>0, <2>2, DropKept
  <2>3. CASE SyncLoad(t)
    <3>1. sync'[t].unlink = {} /\ sync'[t].snap = recs /\ sync'[t].pc \in {"walk", "scan"}
      BY <1>0, <2>3 DEF SyncLoad, IdleSync
    <3> QED BY <2>0, <2>3, <3>1 DEF DropOK, SyncLoad, repo
  <2>4. ASSUME NEW f \in Files, SyncAutoTrack(t, f) \/ SyncReadError(t, f) PROVE Goal
    <3>1. sync'[t].unlink = sync[t].unlink /\ sync'[t].snap = sync[t].snap
          /\ sync'[t].data = sync[t].data /\ sync'[t].pc = sync[t].pc
      BY <1>0, <2>4 DEF SyncAutoTrack, SyncReadError, SyncLocals
    <3>2. tree' = tree /\ dropped' \subseteq dropped BY <2>4 DEF SyncAutoTrack, SyncReadError, repo
    <3> QED BY <2>0, <3>1, <3>2, DropKept
  <2>5. CASE SyncReload(t)
    <3>1. PICK snap \in {sync[t].snap, recs} :
            sync' = [sync EXCEPT ![t].pc = "scan", ![t].snap = snap,
                       ![t].todo = TrackedIn(snap), ![t].scope = TrackedIn(snap)]
      BY <2>5 DEF SyncReload
    <3>2. sync'[t].snap = snap /\ sync'[t].unlink = sync[t].unlink /\ sync'[t].pc = "scan"
          /\ sync'[t].data = sync[t].data
      BY <1>0, <3>1 DEF SyncLocals
    <3>3. tree' = tree /\ dropped' = dropped /\ sync[t].pc = "walk" BY <2>5 DEF SyncReload, SyncIn, repo
    <3> QED BY <2>0, <3>2, <3>3 DEF DropOK
  <2>6. ASSUME NEW f \in Files, SyncScan(t, f) PROVE Goal
    <3>1. sync'[t].unlink = sync[t].unlink /\ sync'[t].snap = sync[t].snap
          /\ sync'[t].pc \in {"scan", "refresh"}
      BY <1>0, <2>6 DEF SyncScan, SyncIn, SyncLocals
    <3>2. tree' = tree /\ dropped' = dropped /\ sync[t].pc = "scan" BY <2>6 DEF SyncScan, SyncIn, repo
    <3> QED BY <2>0, <3>1, <3>2 DEF DropOK
  <2>7. CASE SyncRefresh(t)
    <3>1. sync' = [sync EXCEPT ![t] = IdleSync] \/ sync' = [sync EXCEPT ![t].pc = "scan", ![t].batch = {}]
      BY <2>7 DEF SyncRefresh
    <3>2. tree' = tree /\ dropped' = dropped /\ sync[t].pc = "refresh" BY <2>7 DEF SyncRefresh, SyncIn, repo
    <3>3. ASSUME sync' = [sync EXCEPT ![t].pc = "scan", ![t].batch = {}] PROVE Goal
      <4>1. sync'[t].unlink = sync[t].unlink /\ sync'[t].snap = sync[t].snap
            /\ sync'[t].data = sync[t].data /\ sync'[t].pc = "scan"
        BY <1>0, <3>3 DEF SyncLocals
      <4> QED BY <2>0, <3>2, <4>1, DropKept
    <3> QED BY <2>1, <3>1, <3>2, <3>3
  <2>8. CASE SyncScanned(t)
    <3>1. sync'[t].unlink = sync[t].unlink /\ sync'[t].data = sync[t].data /\ sync'[t].pc = "commit"
      BY <1>0, <2>8 DEF SyncScanned, SyncLocals
    <3>2. tree' = tree /\ dropped' = dropped /\ sync[t].pc = "scan" BY <2>8 DEF SyncScanned, SyncIn, repo
    <3>3. Held(sync[t]) \subseteq TrackedIn(sync[t].snap) BY <3>2 DEF SnapInv, Pending, Held
    <3> QED BY <2>0, <3>1, <3>2, <3>3 DEF DropOK, Held
  <2>9. ASSUME NEW g \in Groups, SyncCommit(t, g) PROVE Goal
    <3>1. /\ tree' = [tree EXCEPT !["track"] = [f \in Files |->
               IF f \in Dels(t, g) THEN Gone ELSE IF f \in Ents(t, g) THEN sync[t].data[f] ELSE @[f]]]
          /\ sync'[t].pc = "commit" /\ sync'[t].unlink = Dels(t, g)
          /\ sync'[t].data = [f \in Files |-> IF f \in Ents(t, g) THEN Gone ELSE sync[t].data[f]]
      BY <2>9, CommitShape
    <3>2. dropped' = dropped /\ sync[t].pc = "commit" BY <2>9 DEF SyncCommit, SyncIn
    <3>3. \A f \in Dels(t, g) : f \in Files /\ sync'[t].data[f] = Gone /\ tree'["track"][f] = Gone
      BY <1>0, <3>1 DEF Dels, Ents, GroupFiles, Held
    <3>4. Held(sync'[t]) \subseteq Held(sync[t]) BY <3>1 DEF Held
    <3> QED BY <2>0, <3>1, <3>2, <3>3, <3>4 DEF DropOK
  <2>10. ASSUME NEW f \in Files, SyncRecord(t, f) PROVE Goal
    <3>1. sync' = [sync EXCEPT ![t] = IdleSync] \/ sync' = [sync EXCEPT ![t].batch = @ \ {f}]
      BY <2>10 DEF SyncRecord
    <3>2. tree' = tree /\ dropped' = dropped BY <2>10 DEF SyncRecord, repo
    <3>3. ASSUME sync' = [sync EXCEPT ![t].batch = @ \ {f}] PROVE Goal
      <4>1. sync'[t].unlink = sync[t].unlink /\ sync'[t].snap = sync[t].snap
            /\ sync'[t].data = sync[t].data /\ sync'[t].pc = sync[t].pc
        BY <1>0, <3>3 DEF SyncLocals
      <4> QED BY <2>0, <3>2, <4>1, DropKept
    <3> QED BY <2>1, <3>1, <3>2, <3>3
  <2>11. CASE SyncUntrack(t)
    <3>1. sync'[t].unlink = {} /\ sync'[t].data = sync[t].data /\ sync'[t].pc = "commit"
          /\ sync[t].pc = "commit"
      BY <1>0, <2>11 DEF SyncUntrack, SyncIn, SyncLocals
    <3>2. dropped' = dropped \cup sync[t].unlink /\ tree' = tree BY <2>11 DEF SyncUntrack
    <3> QED BY <2>0, <3>1, <3>2 DEF DropOK, Held
  <2>12. CASE SyncManifest(t) \/ SyncManifestFails(t)
    <3>1. sync'[t].unlink = sync[t].unlink /\ sync'[t].snap = sync[t].snap
          /\ sync'[t].data = sync[t].data /\ sync'[t].pc = "done"
      BY <1>0, <2>12 DEF SyncManifest, SyncManifestFails, SyncLocals
    <3>2. tree' = tree /\ dropped' = dropped BY <2>12 DEF SyncManifest, SyncManifestFails, repo
    <3> QED BY <2>0, <3>1, <3>2, DropKept
  <2>13. CASE SyncCommitFails(t) \/ SyncReturn(t)
    BY <2>1, <2>13 DEF SyncCommitFails, SyncReturn, repo
  <2>14. ASSUME NEW s \in Syncers, SyncLoad(s) \/ SyncStep(s) \/ SyncTrouble(s) PROVE Goal
    <3>1. SyncLoad(t) \/ SyncStep(t) \/ SyncTrouble(t) BY <2>14
    <3> QED BY <2>3, <2>4, <2>5, <2>6, <2>7, <2>8, <2>9, <2>10, <2>11, <2>12, <2>13, <3>1
      DEF SyncStep, SyncTrouble
  <2>15. ASSUME NEW a \in Appliers, ApplyLoad(a) \/ ApplyStep(a) \/ ApplyFails(a)
         PROVE UNCHANGED <<tree, dropped, sync>>
    BY <2>15 DEF ApplyStep, repo, ApplyLoad, ApplyCheck, ApplyFails, ApplyBackup, ApplyRead,
      ApplyWrite, ApplyAborts, ApplyRecord, ApplyReturn
  <2>16. ASSUME UserNext \/ Tick \/ UNCHANGED vars
         PROVE UNCHANGED <<tree, sync>> /\ dropped' \subseteq dropped
    BY <2>16 DEF UserNext, UserActs, repo, Edit, Delete, Track, Untrack, Tick, vars
  <2>17. ASSUME Crash
         PROVE  UNCHANGED <<tree, dropped>> /\ sync'[t] \in {sync[t], IdleSync}
    BY <1>0, <2>17 DEF Crash, repo
  <2>18. CASE Crash BY <2>0, <2>17, <2>18, DropKept
  <2> QED BY <2>2, <2>14, <2>15, <2>16, <2>18 DEF Next
<1> QED BY <1>1, <1>2 DEF DropInv

\* With one Sync at a time and no --local files, a file that Sync dropped and
\* that nobody tracked again is in no branch tip, whatever the user, the
\* Applies and crashes do meanwhile.
THEOREM DroppedFilesStayGone ==
  LocalFiles = {} /\ (\A s, t \in Syncers : s = t) => (Spec => []DeletedMeansGone)
<1> SUFFICES ASSUME LocalFiles = {}, \A s, t \in Syncers : s = t
             PROVE  Spec => []DeletedMeansGone
  OBVIOUS
<1>1. Init => TrackInv /\ DropInv
  BY DEF Init, TrackInv, DropInv, DropOK, TrackBranch, TrackedIn, IdleSync, NoRecords
<1>2. IInv /\ TrackInv /\ DropInv /\ [Next]_vars => (TrackInv /\ DropInv)'
  BY TrackStep, DropStep DEF IInv
<1>3. IInv /\ TrackInv /\ DropInv => DeletedMeansGone
  BY DEF IInv, TypeOK, TrackInv, DropInv, DeletedMeansGone
<1> QED BY <1>1, <1>2, <1>3, Inductive, PTL DEF Spec

-----------------------------------------------------------------------------
(* A Sync that nothing disturbs.                                           *)

\* A file Sync is done with, one it has committed but not yet recorded, and
\* one whose deletion it has committed but not yet recorded.
Settled(f) ==
  IF disk[f] = Gone THEN recs[f] = NoRec /\ tree["track"][f] = Gone
  ELSE recs[f] # NoRec /\ recs[f].hash = disk[f] /\ tree["track"][f] = disk[f]
Stored(f)  == disk[f] # Gone /\ recs[f] # NoRec /\ tree["track"][f] = disk[f]
Removed(f) == disk[f] = Gone /\ tree["track"][f] = Gone

\* What is still to be done, and that what was read of it is what is on disk.
Open(q) == q.todo \cup q.dels \cup Held(q) \cup q.batch \cup q.unlink
HoldsDisk(q) ==
  /\ \A f \in q.dels : disk[f] = Gone
  /\ \A f \in Held(q) : q.data[f] = disk[f] /\ recs[f] # NoRec
  /\ \A f \in q.batch : Stored(f)
  /\ \A f \in q.unlink : Removed(f)
  /\ \A f \in q.scope \ Open(q) : Settled(f)

WalkOK(q) ==
  /\ q.dels = {} /\ q.batch = {} /\ q.unlink = {} /\ Held(q) = {}
  /\ TrackedIn(q.snap) \subseteq TrackedIn(recs) /\ (q.scope = {} => q.snap = recs)
ScanOK(q) ==
  /\ HoldsDisk(q) /\ TrackedIn(q.snap) = TrackedIn(recs) /\ q.unlink = {}
  /\ q.pc = "scan" => q.batch = {}
  /\ \A f, h \in q.batch : f = h
CommitOK(q) == HoldsDisk(q) /\ TrackedIn(recs) \subseteq TrackedIn(q.snap) /\ q.todo = {}
DoneOK(q) == (\A f \in q.scope : Settled(f)) /\ TrackedIn(recs) \subseteq manifest

Calm(q) ==
  /\ q.pc = "walk" => WalkOK(q)
  /\ q.pc \in {"scan", "refresh"} => ScanOK(q)
  /\ q.pc = "commit" => CommitOK(q)
  /\ q.pc = "done" => DoneOK(q)

SettleInv == \A s \in alone \cap Syncers : Calm(sync[s])

\* A Sync stays undisturbed only while all steps, but the clock's and its own
\* end, are its own.
LEMMA QuietSync ==
  ASSUME TypeOK, [Next]_vars, NEW t \in Syncers, t \in alone'
  PROVE  \/ /\ t \in alone /\ UNCHANGED <<disk, recs, tree, manifest>>
            /\ sync'[t] \in {sync[t], IdleSync}
         \/ SyncLoad(t)
         \/ t \in alone /\ SyncStep(t)
<1> DEFINE Goal == \/ /\ t \in alone /\ UNCHANGED <<disk, recs, tree, manifest>>
                      /\ sync'[t] \in {sync[t], IdleSync}
                   \/ SyncLoad(t)
                   \/ t \in alone /\ SyncStep(t)
<1>0. sync \in [Syncers -> SyncLocals] BY DEF TypeOK
<1>1. ASSUME NEW s \in Syncers, SyncLoad(s) PROVE Goal
  <2>1. s = t BY <1>1 DEF SyncLoad, Starts
  <2> QED BY <1>1, <2>1
<1>2. ASSUME NEW s \in Syncers, SyncStep(s) PROVE Goal
  <2>1. alone' = alone \cap {s}
    BY <1>2 DEF SyncStep, SyncIn, Steps, SyncAutoTrack, SyncScan, SyncRecord, SyncCommit,
      SyncReload, SyncRefresh, SyncScanned, SyncUntrack, SyncManifest, SyncReturn
  <2> QED BY <1>2, <2>1
<1>3. ASSUME NEW s \in Syncers, SyncTrouble(s) PROVE Goal
  <2>1. CASE SyncCommitFails(s)
    BY <1>0, <2>1 DEF SyncCommitFails, SyncIn, Steps, repo
  <2>2. ASSUME NEW f \in Files, SyncReadError(s, f) PROVE Goal
    BY <1>0, <2>2 DEF SyncReadError, repo
  <2>3. CASE SyncManifestFails(s)
    BY <1>0, <2>3 DEF SyncManifestFails, repo
  <2> QED BY <1>3, <2>1, <2>2, <2>3 DEF SyncTrouble
<1>4. ASSUME NEW a \in Appliers, ApplyLoad(a) \/ ApplyStep(a) \/ ApplyFails(a) PROVE FALSE
  <2>1. alone' \subseteq {a}
    BY <1>4 DEF ApplyStep, ApplyLoad, Starts, ApplyIn, Steps, ApplyCheck, ApplyFails, ApplyBackup,
      ApplyRead, ApplyWrite, ApplyAborts, ApplyRecord, ApplyReturn
  <2> QED BY <2>1
<1>5. ASSUME UserNext PROVE FALSE
  BY <1>5 DEF UserNext, UserActs, Edit, Delete, Track, Untrack
<1>6. ASSUME Tick \/ Crash \/ UNCHANGED vars PROVE Goal
  BY <1>0, <1>6 DEF Tick, Crash, repo, vars
<1> HIDE DEF Goal
<1>99. Goal BY <1>1, <1>2, <1>3, <1>4, <1>5, <1>6 DEF Next
<1> QED BY <1>99 DEF Goal

\* Taking the hash of a file from disk leaves the same files tracked.
LEMMA RehashKeeps ==
  ASSUME TypeOK, NEW f \in Files, disk[f] # Gone, recs[f] # NoRec, recs' = Rehashed(f)
  PROVE  /\ TrackedIn(recs') = TrackedIn(recs) /\ recs'[f].hash = disk[f]
         /\ \A h \in Files : h # f => recs'[h] = recs[h]
<1>1. recs \in [Files -> Records \cup {NoRec}] /\ recs[f] \in Records BY DEF TypeOK
<1>2. [recs[f] EXCEPT !.hash = disk[f]] \in Records BY <1>1 DEF Records, TypeOK
<1>3. recs'[f] # NoRec BY <1>1, <1>2, RecordAssumption DEF Rehashed
<1>4. recs'[f].hash = disk[f] BY <1>1 DEF Rehashed, Records
<1>5. \A h \in Files : h # f => recs'[h] = recs[h] BY <1>1 DEF Rehashed
<1> QED BY <1>3, <1>4, <1>5 DEF TrackedIn

\* A step of an undisturbed Sync keeps what it holds in line with the disk.
LEMMA SettleOwn ==
  ASSUME TypeOK, SnapInv, TrackInv, NEW t \in Syncers, Calm(sync[t]), SyncStep(t)
  PROVE  Calm(sync[t])'
<1>0. /\ sync \in [Syncers -> SyncLocals] /\ sync[t] \in SyncLocals
      /\ disk \in [Files -> Contents \cup {Gone}] /\ recs \in [Files -> Records \cup {NoRec}]
      /\ tree \in [Branches -> [Files -> Contents \cup {Gone}]]
  BY DEF TypeOK
<1> DEFINE q == sync[t]
           r == sync'[t]
<1>1. ASSUME NEW f \in Files, SyncAutoTrack(t, f) PROVE Calm(sync[t])'
  <2>1. /\ q.pc = "walk" /\ r.pc = "walk" /\ r.dels = q.dels /\ r.batch = q.batch
        /\ r.unlink = q.unlink /\ r.data = q.data /\ r.snap = q.snap
        /\ r.scope = IF disk[f] = Gone THEN q.scope ELSE q.scope \cup {f}
    BY <1>0, <1>1 DEF SyncAutoTrack, SyncIn, SyncLocals
  <2>2. WalkOK(q) BY <2>1 DEF Calm
  <2>3. \A h \in Files : recs[h] # NoRec => recs'[h] # NoRec BY <1>0, <1>1 DEF SyncAutoTrack
  <2>4. disk[f] = Gone => recs' = recs BY <1>1 DEF SyncAutoTrack
  <2>5. WalkOK(sync[t])'
    <3>1. TrackedIn(r.snap) \subseteq TrackedIn(recs') BY <2>1, <2>2, <2>3 DEF WalkOK, TrackedIn
    <3>2. r.scope = {} => r.snap = recs' BY <2>1, <2>2, <2>4 DEF WalkOK
    <3>3. Held(r) = {} BY <2>1, <2>2 DEF WalkOK, Held
    <3> QED BY <2>1, <2>2, <3>1, <3>2, <3>3 DEF WalkOK, TrackedIn, Held
  <2> QED BY <2>1, <2>5 DEF Calm
<1>2. ASSUME SyncReload(t) PROVE Calm(sync[t])'
  <2>1. q.pc = "walk" /\ WalkOK(q) BY <1>2 DEF Calm, SyncReload, SyncIn
  <2>2. sync' = [sync EXCEPT ![t].pc = "scan", ![t].snap = recs,
                   ![t].todo = TrackedIn(recs), ![t].scope = TrackedIn(recs)]
    BY <1>2, <2>1 DEF SyncReload, WalkOK
  <2>3. /\ r.pc = "scan" /\ r.snap = recs /\ r.todo = TrackedIn(recs) /\ r.scope = TrackedIn(recs)
        /\ r.dels = q.dels /\ r.batch = q.batch /\ r.unlink = q.unlink /\ r.data = q.data
    BY <1>0, <2>2 DEF SyncLocals
  <2>4. r.dels = {} /\ r.batch = {} /\ r.unlink = {} /\ Held(r) = {} /\ r.scope = r.todo
    BY <2>1, <2>3 DEF WalkOK, Held
  <2>5. recs' = recs BY <1>2 DEF SyncReload
  <2>6. HoldsDisk(sync[t])' BY <2>4 DEF HoldsDisk, Open, Held
  <2> QED BY <2>3, <2>4, <2>5, <2>6 DEF Calm, ScanOK, TrackedIn
<1>3. ASSUME NEW f \in Files, SyncScan(t, f) PROVE Calm(sync[t])'
  <2>1. q.pc = "scan" /\ ScanOK(q) /\ f \in q.todo /\ UNCHANGED <<disk, recs, tree>>
    BY <1>3 DEF Calm, SyncScan, SyncIn, repo
  <2>2. f \in TrackedIn(q.snap) /\ recs[f] # NoRec /\ q.snap[f].branch = "track"
    BY <2>1 DEF SnapInv, ScanOK, TrackedIn, TrackInv
  <2>3. CASE disk[f] = Gone /\ sync' = [sync EXCEPT ![t].todo = @ \ {f}, ![t].dels = @ \cup {f}]
    <3>1. /\ r.pc = "scan" /\ r.snap = q.snap /\ r.todo = q.todo \ {f} /\ r.scope = q.scope
          /\ r.dels = q.dels \cup {f} /\ r.batch = q.batch /\ r.unlink = q.unlink /\ r.data = q.data
      BY <1>0, <2>1, <2>3 DEF SyncLocals
    <3>2. Held(r) = Held(q) /\ Open(r) = Open(q) BY <2>1, <3>1 DEF Held, Open
    <3>3. HoldsDisk(q) /\ q.unlink = {} /\ q.batch = {} BY <2>1 DEF ScanOK
    <3>4. \A h \in r.dels : disk'[h] = Gone BY <2>1, <2>3, <3>1, <3>3 DEF HoldsDisk
    <3>5. \A h \in Held(r) : r.data[h] = disk'[h] /\ recs'[h] # NoRec
      BY <2>1, <3>1, <3>2, <3>3 DEF HoldsDisk
    <3>6. \A h \in r.scope \ Open(r) : Settled(h)'
      BY <2>1, <3>1, <3>2, <3>3 DEF HoldsDisk, Settled
    <3>7. HoldsDisk(sync[t])' BY <3>1, <3>3, <3>4, <3>5, <3>6 DEF HoldsDisk
    <3> QED BY <2>1, <3>1, <3>7 DEF Calm, ScanOK, TrackedIn
  <2>4. CASE disk[f] # Gone /\ Unchanged(t, f)
               /\ sync' = [sync EXCEPT ![t].todo = @ \ {f}, ![t].pc = "refresh", ![t].batch = {f}]
    <3>1. /\ r.pc = "refresh" /\ r.snap = q.snap /\ r.todo = q.todo \ {f} /\ r.scope = q.scope
          /\ r.dels = q.dels /\ r.batch = {f} /\ r.unlink = q.unlink /\ r.data = q.data
      BY <1>0, <2>4 DEF SyncLocals
    <3>2. Held(r) = Held(q) /\ Open(r) = Open(q) BY <2>1, <3>1 DEF Held, Open, ScanOK
    <3>3. Stored(f) BY <2>2, <2>4 DEF Stored, Unchanged
    <3>4. HoldsDisk(sync[t])'
      BY <2>1, <3>1, <3>2, <3>3 DEF ScanOK, HoldsDisk, Stored, Removed, Settled, Held, Open
    <3> QED BY <2>1, <3>1, <3>4 DEF Calm, ScanOK, TrackedIn
  <2>5. CASE disk[f] # Gone
               /\ sync' = [sync EXCEPT ![t].todo = @ \ {f}, ![t].data = [@ EXCEPT ![f] = disk[f]]]
    <3>1. /\ r.pc = "scan" /\ r.snap = q.snap /\ r.todo = q.todo \ {f} /\ r.scope = q.scope
          /\ r.dels = q.dels /\ r.batch = q.batch /\ r.unlink = q.unlink
          /\ r.data = [q.data EXCEPT ![f] = disk[f]]
      BY <1>0, <2>1, <2>5 DEF SyncLocals
    <3>2. Held(r) = Held(q) \cup {f} BY <1>0, <2>5, <3>1 DEF Held, SyncLocals
    <3>3. Open(r) = Open(q) BY <2>1, <3>1, <3>2 DEF Open
    <3>4. \A h \in Held(r) : r.data[h] = disk[h] /\ recs[h] # NoRec
      BY <1>0, <2>1, <2>2, <3>1, <3>2 DEF ScanOK, HoldsDisk, Held, SyncLocals
    <3>5. HoldsDisk(sync[t])'
      BY <2>1, <3>1, <3>3, <3>4 DEF ScanOK, HoldsDisk, Stored, Removed, Settled, Held, Open
    <3> QED BY <2>1, <3>1, <3>5 DEF Calm, ScanOK, TrackedIn
  <2> QED BY <1>3, <2>3, <2>4, <2>5 DEF SyncScan
<1>4. ASSUME SyncRefresh(t) PROVE Calm(sync[t])'
  <2>1. q.pc = "refresh" /\ ScanOK(q) /\ UNCHANGED <<disk, tree>>
    BY <1>4 DEF Calm, SyncRefresh, SyncIn, repo
  <2>2. PICK f \in q.batch :
          IF disk[f] # Gone /\ recs[f] = NoRec
          THEN sync' = [sync EXCEPT ![t] = IdleSync] /\ UNCHANGED recs
          ELSE /\ recs' = IF disk[f] = Gone THEN recs ELSE Rehashed(f)
               /\ sync' = [sync EXCEPT ![t].pc = "scan", ![t].batch = {}]
    BY <1>4 DEF SyncRefresh
  <2>3. f \in Files /\ Stored(f) /\ q.batch = {f}
    BY <1>0, <2>1, <2>2 DEF ScanOK, HoldsDisk, SyncLocals
  <2>4. recs' = Rehashed(f) /\ sync' = [sync EXCEPT ![t].pc = "scan", ![t].batch = {}]
    BY <2>2, <2>3 DEF Stored
  <2>5. /\ r.pc = "scan" /\ r.snap = q.snap /\ r.todo = q.todo /\ r.scope = q.scope
        /\ r.dels = q.dels /\ r.batch = {} /\ r.unlink = q.unlink /\ r.data = q.data
    BY <1>0, <2>4 DEF SyncLocals
  <2>6. /\ TrackedIn(recs') = TrackedIn(recs) /\ recs'[f].hash = disk[f]
        /\ \A h \in Files : h # f => recs'[h] = recs[h]
    BY <2>3, <2>4, RehashKeeps DEF Stored
  <2>7. HoldsDisk(sync[t])'
    <3>1. \A h \in Files : recs[h] # NoRec => recs'[h] # NoRec BY <2>6 DEF TrackedIn
    <3>2. Held(r) = Held(q) /\ Held(q) \subseteq Files /\ q.scope \subseteq Files
      BY <1>0, <2>5 DEF Held, SyncLocals
    <3>3. Settled(f)' BY <2>1, <2>3, <2>6, <3>1 DEF Stored, Settled
    <3>4. ASSUME NEW h \in r.scope \ Open(r) PROVE Settled(h)'
      <4>1. h = f \/ h \in q.scope \ Open(q) BY <2>3, <2>5, <3>2 DEF Open
      <4>2. h # f => Settled(h) /\ h \in Files BY <2>1, <3>2, <4>1 DEF ScanOK, HoldsDisk
      <4> QED BY <2>1, <2>6, <3>3, <4>2 DEF Settled
    <3>5. \A h \in Held(r) : r.data[h] = disk'[h] /\ recs'[h] # NoRec
      BY <2>1, <2>5, <3>1, <3>2 DEF ScanOK, HoldsDisk
    <3>6. /\ \A h \in r.dels : disk'[h] = Gone
          /\ r.batch = {} /\ r.unlink = {}
      BY <2>1, <2>5 DEF ScanOK, HoldsDisk
    <3> QED BY <3>4, <3>5, <3>6 DEF HoldsDisk
  <2> QED BY <2>1, <2>5, <2>6, <2>7 DEF Calm, ScanOK, TrackedIn
<1>5. ASSUME SyncScanned(t) PROVE Calm(sync[t])'
  <2>1. q.pc = "scan" /\ ScanOK(q) /\ q.todo = {} /\ UNCHANGED <<disk, recs, tree>>
    BY <1>5 DEF Calm, SyncScanned, SyncIn, repo
  <2>2. /\ r.pc = "commit" /\ r.snap = q.snap /\ r.todo = q.todo /\ r.scope = q.scope
        /\ r.dels = q.dels /\ r.batch = q.batch /\ r.unlink = q.unlink /\ r.data = q.data
    BY <1>0, <1>5 DEF SyncScanned, SyncLocals
  <2>3. HoldsDisk(sync[t])'
    BY <2>1, <2>2 DEF ScanOK, HoldsDisk, Stored, Removed, Settled, Held, Open
  <2> QED BY <2>1, <2>2, <2>3 DEF Calm, ScanOK, CommitOK, TrackedIn
<1>6. ASSUME NEW g \in Groups, SyncCommit(t, g) PROVE Calm(sync[t])'
  <2>1. q.pc = "commit" /\ CommitOK(q) /\ q.batch = {} /\ q.unlink = {} /\ UNCHANGED <<disk, recs>>
    BY <1>6 DEF Calm, SyncCommit, SyncIn, Settling
  <2>2. /\ tree' = [tree EXCEPT !["track"] = [f \in Files |->
             IF f \in Dels(t, g) THEN Gone ELSE IF f \in Ents(t, g) THEN q.data[f] ELSE @[f]]]
        /\ r.pc = "commit" /\ r.snap = q.snap /\ r.todo = q.todo /\ r.scope = q.scope
        /\ r.batch = Ents(t, g) /\ r.unlink = Dels(t, g) /\ r.dels = q.dels \ Dels(t, g)
        /\ r.data = [f \in Files |-> IF f \in Ents(t, g) THEN Gone ELSE q.data[f]]
    BY <1>6, CommitShape
  <2>3. Ents(t, g) \subseteq Held(q) /\ Dels(t, g) \subseteq q.dels /\ Dels(t, g) \subseteq Files
        /\ Held(q) \subseteq Files /\ q.scope \subseteq Files
    BY <1>0 DEF Ents, Dels, Held, GroupFiles, SyncLocals
  <2>4. \A f \in Files : tree'["track"][f] =
          IF f \in Dels(t, g) THEN Gone ELSE IF f \in Ents(t, g) THEN q.data[f] ELSE tree["track"][f]
    BY <1>0, <2>2
  <2>5. Held(r) = Held(q) \ Ents(t, g) BY <2>2 DEF Held
  <2>6. Open(r) = Open(q) BY <2>1, <2>2, <2>3, <2>5 DEF Open
  <2>7. HoldsDisk(q) BY <2>1 DEF CommitOK
  <2>8. ASSUME NEW f \in Ents(t, g) PROVE Stored(f)'
    <3>1. f \in Held(q) /\ f \in Files /\ q.data[f] = disk[f] /\ disk[f] # Gone /\ recs[f] # NoRec
      BY <2>3, <2>7 DEF HoldsDisk, Held
    <3>2. f \notin Dels(t, g) BY <2>3, <2>7, <3>1 DEF HoldsDisk
    <3> QED BY <2>1, <2>4, <3>1, <3>2 DEF Stored
  <2>9. ASSUME NEW f \in Dels(t, g) PROVE Removed(f)'
    BY <2>1, <2>3, <2>4, <2>7 DEF Removed, HoldsDisk
  <2>10. ASSUME NEW f \in r.scope \ Open(r) PROVE Settled(f)'
    <3>1. f \in q.scope \ Open(q) /\ f \in Files BY <2>2, <2>3, <2>6
    <3>2. Settled(f) /\ f \notin Dels(t, g) /\ f \notin Ents(t, g)
      BY <2>3, <2>7, <3>1 DEF HoldsDisk, Open
    <3> QED BY <2>1, <2>4, <3>1, <3>2 DEF Settled
  <2>11. \A f \in Held(r) : r.data[f] = disk'[f] /\ recs'[f] # NoRec
    BY <2>1, <2>2, <2>3, <2>5, <2>7 DEF HoldsDisk
  <2>12. \A f \in r.dels : disk'[f] = Gone BY <2>1, <2>2, <2>7 DEF HoldsDisk
  <2>13. HoldsDisk(sync[t])' BY <2>2, <2>8, <2>9, <2>10, <2>11, <2>12 DEF HoldsDisk
  <2> QED BY <2>1, <2>2, <2>13 DEF Calm, CommitOK, TrackedIn
<1>7. ASSUME NEW f \in Files, SyncRecord(t, f) PROVE Calm(sync[t])'
  <2>1. q.pc = "commit" /\ CommitOK(q) /\ f \in q.batch /\ UNCHANGED <<disk, tree>>
    BY <1>7 DEF Calm, SyncRecord, SyncIn, repo
  <2>2. Stored(f) /\ sync[t].branch = "track" BY <2>1 DEF CommitOK, HoldsDisk, TrackInv
  <2>3. recs' = Rehashed(f) /\ sync' = [sync EXCEPT ![t].batch = @ \ {f}]
    BY <1>7, <2>2 DEF Stored, SyncRecord
  <2>4. /\ r.pc = "commit" /\ r.snap = q.snap /\ r.todo = q.todo /\ r.scope = q.scope
        /\ r.dels = q.dels /\ r.batch = q.batch \ {f} /\ r.unlink = q.unlink /\ r.data = q.data
    BY <1>0, <2>1, <2>3 DEF SyncLocals
  <2>5. /\ TrackedIn(recs') = TrackedIn(recs) /\ recs'[f].hash = disk[f]
        /\ \A h \in Files : h # f => recs'[h] = recs[h]
    BY <2>2, <2>3, RehashKeeps DEF Stored
  <2>6. HoldsDisk(sync[t])'
    <3>1. \A h \in Files : recs[h] # NoRec => recs'[h] # NoRec BY <2>5 DEF TrackedIn
    <3>2. Held(r) = Held(q) /\ Held(q) \subseteq Files /\ q.scope \subseteq Files /\ q.batch \subseteq Files
      BY <1>0, <2>4 DEF Held, SyncLocals
    <3>3. Settled(f)' BY <2>1, <2>2, <2>5, <3>1 DEF Stored, Settled
    <3>4. ASSUME NEW h \in r.scope \ Open(r) PROVE Settled(h)'
      <4>1. h = f \/ h \in q.scope \ Open(q) BY <2>4, <3>2 DEF Open
      <4>2. h # f => Settled(h) /\ h \in Files BY <2>1, <3>2, <4>1 DEF CommitOK, HoldsDisk
      <4> QED BY <2>1, <2>5, <3>3, <4>2 DEF Settled
    <3>5. \A h \in Held(r) : r.data[h] = disk'[h] /\ recs'[h] # NoRec
      BY <2>1, <2>4, <3>1, <3>2 DEF CommitOK, HoldsDisk
    <3>6. /\ \A h \in r.dels : disk'[h] = Gone
          /\ \A h \in r.batch : Stored(h)'
          /\ \A h \in r.unlink : Removed(h)'
      BY <2>1, <2>4, <3>1, <3>2 DEF CommitOK, HoldsDisk, Stored, Removed
    <3> QED BY <3>4, <3>5, <3>6 DEF HoldsDisk
  <2> QED BY <2>1, <2>4, <2>5, <2>6 DEF Calm, CommitOK, TrackedIn
<1>8. ASSUME SyncUntrack(t) PROVE Calm(sync[t])'
  <2>1. q.pc = "commit" /\ CommitOK(q) /\ q.batch = {} /\ UNCHANGED <<disk, tree>>
    BY <1>8 DEF Calm, SyncUntrack, SyncIn
  <2>2. /\ r.pc = "commit" /\ r.snap = q.snap /\ r.todo = q.todo /\ r.scope = q.scope
        /\ r.dels = q.dels /\ r.batch = q.batch /\ r.unlink = {} /\ r.data = q.data
    BY <1>0, <1>8, <2>1 DEF SyncUntrack, SyncLocals
  <2>3. \A f \in Files : recs'[f] = IF f \in q.unlink THEN NoRec ELSE recs[f] BY <1>8 DEF SyncUntrack
  <2>4. HoldsDisk(sync[t])'
    <3>1. Held(r) = Held(q) /\ Held(q) \subseteq Files /\ q.scope \subseteq Files
      BY <1>0, <2>2 DEF Held, SyncLocals
    <3>2. ASSUME NEW f \in r.scope \ Open(r) PROVE Settled(f)'
      <4>1. f \in Files /\ (f \in q.unlink \/ f \in q.scope \ Open(q)) BY <2>2, <3>1 DEF Open
      <4>2. CASE f \in q.unlink BY <2>1, <2>3, <4>1, <4>2 DEF CommitOK, HoldsDisk, Removed, Settled
      <4>3. CASE f \notin q.unlink BY <2>1, <2>3, <4>1, <4>3 DEF CommitOK, HoldsDisk, Settled
      <4> QED BY <4>2, <4>3
    <3>3. ASSUME NEW f \in Held(r) PROVE r.data[f] = disk'[f] /\ recs'[f] # NoRec
      <4>1. f \in Files /\ q.data[f] # Gone /\ q.data[f] = disk[f] /\ recs[f] # NoRec
        BY <2>1, <3>1 DEF CommitOK, HoldsDisk, Held
      <4>2. f \notin q.unlink BY <2>1, <4>1 DEF CommitOK, HoldsDisk, Removed
      <4> QED BY <2>1, <2>2, <2>3, <4>1, <4>2
    <3>4. /\ \A f \in r.dels : disk'[f] = Gone
          /\ \A f \in r.batch : Stored(f)'
          /\ \A f \in r.unlink : Removed(f)'
      BY <2>1, <2>2 DEF CommitOK, HoldsDisk
    <3> QED BY <3>2, <3>3, <3>4 DEF HoldsDisk
  <2>5. TrackedIn(recs') \subseteq TrackedIn(recs) BY <2>3 DEF TrackedIn
  <2> QED BY <2>1, <2>2, <2>4, <2>5 DEF Calm, CommitOK, TrackedIn
<1>9. ASSUME SyncManifest(t) PROVE Calm(sync[t])'
  <2>1. q.pc = "commit" /\ CommitOK(q) /\ Open(q) = {} /\ UNCHANGED <<disk, recs, tree>>
    BY <1>9 DEF Calm, SyncManifest, SyncIn, Pending, Settling, Open, Held, CommitOK
  <2>2. r.pc = "done" /\ r.scope = q.scope BY <1>0, <1>9 DEF SyncManifest, SyncLocals
  <2>3. TrackedIn(recs) \subseteq manifest' BY <1>9, <2>1 DEF SyncManifest, CommitOK
  <2> QED BY <2>1, <2>2, <2>3 DEF Calm, DoneOK, CommitOK, HoldsDisk, Settled, TrackedIn
<1>10. ASSUME SyncReturn(t) PROVE Calm(sync[t])'
  <2>1. r = IdleSync BY <1>0, <1>10 DEF SyncReturn
  <2> QED BY <2>1 DEF Calm, IdleSync
<1> QED BY <1>1, <1>2, <1>3, <1>4, <1>5, <1>6, <1>7, <1>8, <1>9, <1>10 DEF SyncStep

\* What an undisturbed Sync holds stays in line with the disk.
LEMMA SettleStep ==
  ASSUME TypeOK, SnapInv, TrackInv, SettleInv, [Next]_vars
  PROVE  SettleInv'
<1> SUFFICES ASSUME NEW t \in Syncers, t \in alone' PROVE Calm(sync[t])' BY DEF SettleInv
<1>0. sync \in [Syncers -> SyncLocals] /\ Calm(IdleSync)'
  BY DEF TypeOK, Calm, IdleSync
<1>1. CASE t \in alone /\ UNCHANGED <<disk, recs, tree, manifest>> /\ sync'[t] \in {sync[t], IdleSync}
  <2>1. CASE sync'[t] = sync[t]
    <3>1. Calm(sync[t]) BY <1>1 DEF SettleInv
    <3> QED BY <1>1, <2>1, <3>1 DEF Calm, WalkOK, ScanOK, CommitOK, DoneOK, HoldsDisk, Held, Open,
      Settled, Stored, Removed, TrackedIn
  <2>2. CASE sync'[t] = IdleSync BY <2>2 DEF Calm, IdleSync
  <2> QED BY <1>1, <2>1, <2>2
<1>2. CASE SyncLoad(t)
  <2>1. PICK args \in Arguments : sync' = [sync EXCEPT ![t] = IF args = {}
          THEN [IdleSync EXCEPT !.pc = "walk", !.snap = recs, !.todo = NewFiles(recs)]
          ELSE [IdleSync EXCEPT !.pc = "scan", !.snap = recs,
                  !.todo = args \cap TrackedIn(recs), !.scope = args \cap TrackedIn(recs)]]
    BY <1>2 DEF SyncLoad
  <2>2. recs' = recs BY <1>2 DEF SyncLoad
  <2>3. /\ sync'[t].dels = {} /\ sync'[t].batch = {} /\ sync'[t].unlink = {}
        /\ Held(sync'[t]) = {} /\ sync'[t].snap = recs /\ sync'[t].pc \in {"walk", "scan"}
        /\ sync'[t].pc = "scan" => sync'[t].scope = sync'[t].todo
    BY <1>0, <2>1 DEF IdleSync, Held, NoFile
  <2>4. CASE sync'[t].pc = "walk" BY <2>2, <2>3, <2>4 DEF Calm, WalkOK, TrackedIn, Held
  <2>5. CASE sync'[t].pc = "scan"
    <3>1. HoldsDisk(sync[t])' BY <2>3, <2>5 DEF HoldsDisk, Open, Held
    <3> QED BY <2>2, <2>3, <2>5, <3>1 DEF Calm, ScanOK, TrackedIn
  <2> QED BY <2>3, <2>4, <2>5
<1>3. CASE t \in alone /\ SyncStep(t) BY <1>3, SettleOwn DEF SettleInv
<1> QED BY <1>1, <1>2, <1>3, QuietSync

\* Without --local files, a Sync that nothing disturbed and that met no error
\* leaves disk, record and branch of all its files in agreement, and the
\* manifest complete, whatever other commands, edits and crashes did before.
THEOREM UndisturbedSyncSettles == LocalFiles = {} => (Spec => []SyncSettles)
<1> SUFFICES ASSUME LocalFiles = {} PROVE Spec => []SyncSettles OBVIOUS
<1>1. Init => TrackInv /\ SettleInv
  BY DEF Init, TrackInv, SettleInv, TrackBranch, TrackedIn, IdleSync, NoRecords
<1>2. IInv /\ TrackInv /\ SettleInv /\ [Next]_vars => (TrackInv /\ SettleInv)'
  BY TrackStep, SettleStep DEF IInv
<1>3. IInv /\ TrackInv /\ SettleInv => SyncSettles
  <2> SUFFICES ASSUME IInv, TrackInv, SettleInv, NEW s \in Syncers, sync[s].pc = "done", s \in alone
               PROVE  /\ \A f \in sync[s].scope :
                           IF disk[f] = Gone THEN recs[f] = NoRec /\ \A b \in Branches : tree[b][f] = Gone
                           ELSE recs[f] # NoRec /\ recs[f].hash = disk[f] /\ tree[recs[f].branch][f] = disk[f]
                      /\ TrackedIn(recs) \subseteq manifest
    BY DEF SyncSettles
  <2>1. DoneOK(sync[s]) BY DEF SettleInv, Calm
  <2>2. sync[s].scope \subseteq Files BY DEF IInv, TypeOK, SyncLocals
  <2> QED BY <2>1, <2>2 DEF DoneOK, Settled, TrackInv, TrackedIn
<1> QED BY <1>1, <1>2, <1>3, Inductive, PTL DEF Spec

-----------------------------------------------------------------------------
(* An Apply that nothing disturbs.                                         *)

\* What a forced Apply has put in place is what the record's branch holds,
\* and its snapshot stays true until it records the hashes itself.
Placed(f) == disk[f] # Gone /\ disk[f] = tree[recs[f].branch][f]
Faithful(q) ==
  /\ \A f \in q.results : f \in TrackedIn(recs) /\ Placed(f)
  /\ q.pc # "done" => q.snap = recs
  /\ q.pc = "write" => q.data # Gone /\ q.data = tree[recs[q.cur].branch][q.cur]
  /\ q.pc = "done" => \A f \in q.results : recs[f].hash = disk[f]

ApplyInv ==
  \A a \in alone \cap Appliers :
    apply[a].pc # "idle" /\ apply[a].force => Faithful(apply[a])

\* An Apply stays undisturbed only while all steps, but the clock's and its
\* own end, are its own.
LEMMA QuietApply ==
  ASSUME TypeOK, [Next]_vars, NEW t \in Appliers, t \in alone'
  PROVE  \/ /\ t \in alone /\ UNCHANGED <<disk, recs, tree>>
            /\ apply'[t] \in {apply[t], IdleApply}
         \/ ApplyLoad(t)
         \/ t \in alone /\ (ApplyStep(t) \/ ApplyFails(t))
<1> DEFINE Goal == \/ /\ t \in alone /\ UNCHANGED <<disk, recs, tree>>
                      /\ apply'[t] \in {apply[t], IdleApply}
                   \/ ApplyLoad(t)
                   \/ t \in alone /\ (ApplyStep(t) \/ ApplyFails(t))
<1>0. apply \in [Appliers -> ApplyLocals] BY DEF TypeOK
<1>1. ASSUME NEW a \in Appliers, ApplyLoad(a) PROVE Goal
  <2>1. a = t BY <1>1 DEF ApplyLoad, Starts
  <2> QED BY <1>1, <2>1
<1>2. ASSUME NEW a \in Appliers, ApplyStep(a) \/ ApplyFails(a) PROVE Goal
  <2>1. alone' = alone \cap {a}
    BY <1>2 DEF ApplyStep, ApplyIn, Steps, ApplyCheck, ApplyFails, ApplyBackup,
      ApplyRead, ApplyWrite, ApplyAborts, ApplyRecord, ApplyReturn
  <2> QED BY <1>2, <2>1
<1>3. ASSUME NEW s \in Syncers, SyncLoad(s) \/ SyncStep(s) \/ SyncCommitFails(s) PROVE FALSE
  <2>1. alone' \subseteq {s}
    BY <1>3 DEF SyncLoad, Starts, SyncStep, SyncCommitFails, SyncIn, Steps, SyncAutoTrack, SyncScan,
      SyncRecord, SyncCommit, SyncReload, SyncRefresh, SyncScanned, SyncUntrack, SyncManifest, SyncReturn
  <2> QED BY <2>1
<1>4. ASSUME NEW s \in Syncers, SyncManifestFails(s) \/ \E f \in Files : SyncReadError(s, f) PROVE Goal
  BY <1>4 DEF SyncManifestFails, SyncReadError, repo
<1>5. ASSUME UserNext PROVE FALSE
  BY <1>5 DEF UserNext, UserActs, Edit, Delete, Track, Untrack
<1>6. ASSUME Tick \/ Crash \/ UNCHANGED vars PROVE Goal
  BY <1>0, <1>6 DEF Tick, Crash, repo, vars
<1> HIDE DEF Goal
<1>99. Goal BY <1>1, <1>2, <1>3, <1>4, <1>5, <1>6 DEF Next, SyncTrouble
<1> QED BY <1>99 DEF Goal

\* A step of a forced, undisturbed Apply keeps what it has put in place.
LEMMA ApplyOwn ==
  ASSUME TypeOK, CurInv, NEW t \in Appliers, apply[t].pc # "idle" /\ apply[t].force => Faithful(apply[t]),
         ApplyStep(t) \/ ApplyFails(t), apply'[t].pc # "idle", apply'[t].force
  PROVE  Faithful(apply[t])'
<1>0. /\ apply \in [Appliers -> ApplyLocals] /\ apply[t] \in ApplyLocals
      /\ disk \in [Files -> Contents \cup {Gone}] /\ recs \in [Files -> Records \cup {NoRec}]
  BY DEF TypeOK
<1> DEFINE q == apply[t]
           r == apply'[t]
<1>1. ASSUME NEW f \in Files, ApplyCheck(t, f) PROVE Faithful(apply[t])'
  <2>1. q.pc = "check" /\ UNCHANGED <<disk, recs, tree>> BY <1>1 DEF ApplyCheck, ApplyIn, repo
  <2>2. r.force = q.force BY <1>0, <1>1 DEF ApplyCheck, ApplyLocals
  <2>3. apply' = [apply EXCEPT ![t].todo = @ \ {f}, ![t].cur = f, ![t].pc = "backup"]
    BY <1>1, <2>2 DEF ApplyCheck
  <2>4. r.pc = "backup" /\ r.snap = q.snap /\ r.results = q.results
    BY <1>0, <2>3 DEF ApplyLocals
  <2> QED BY <2>1, <2>2, <2>4 DEF Faithful, Placed, TrackedIn
<1>2. ASSUME ApplyFails(t) PROVE Faithful(apply[t])'
  <2>1. q.pc \in {"backup", "read", "write"} /\ UNCHANGED <<disk, recs, tree>> BY <1>2 DEF ApplyFails, repo
  <2>2. r.pc = "check" /\ r.snap = q.snap /\ r.results = q.results /\ r.force = q.force
    BY <1>0, <1>2 DEF ApplyFails, ApplyLocals
  <2> QED BY <2>1, <2>2 DEF Faithful, Placed, TrackedIn
<1>3. ASSUME ApplyBackup(t) PROVE Faithful(apply[t])'
  <2>1. q.pc = "backup" /\ UNCHANGED <<disk, recs, tree>> BY <1>3 DEF ApplyBackup, ApplyIn, repo
  <2>2. r.pc = "read" /\ r.snap = q.snap /\ r.results = q.results /\ r.force = q.force
    BY <1>0, <1>3 DEF ApplyBackup, ApplyLocals
  <2> QED BY <2>1, <2>2 DEF Faithful, Placed, TrackedIn
<1>4. ASSUME ApplyRead(t) PROVE Faithful(apply[t])'
  <2> DEFINE content == tree[q.snap[q.cur].branch][q.cur]
  <2>1. q.pc = "read" /\ content # Gone /\ UNCHANGED <<disk, recs, tree>> BY <1>4 DEF ApplyRead, ApplyIn, repo
  <2>2. r.pc = "write" /\ r.snap = q.snap /\ r.results = q.results /\ r.force = q.force
        /\ r.data = content /\ r.cur = q.cur
    BY <1>0, <1>4 DEF ApplyRead, ApplyLocals
  <2>3. Faithful(q) /\ q.snap = recs BY <2>1, <2>2 DEF Faithful
  <2> QED BY <2>1, <2>2, <2>3 DEF Faithful, Placed, TrackedIn
<1>5. ASSUME ApplyWrite(t) PROVE Faithful(apply[t])'
  <2>1. /\ q.pc = "write" /\ disk' = [disk EXCEPT ![q.cur] = q.data]
        /\ UNCHANGED <<recs, tree>>
    BY <1>5 DEF ApplyWrite, ApplyIn, repo
  <2>2. PICK hookFailed \in BOOLEAN :
          apply' = [apply EXCEPT ![t].pc = "check", ![t].cur = NoRec, ![t].data = Gone,
                      ![t].seen = Gone, ![t].results = @ \cup {q.cur},
                      ![t].failed = @ \/ hookFailed]
    BY <1>5 DEF ApplyWrite
  <2>3. r.pc = "check" /\ r.snap = q.snap /\ r.results = q.results \cup {q.cur} /\ r.force = q.force
    BY <1>0, <2>2 DEF ApplyLocals
  <2>4. Faithful(q) /\ q.snap = recs BY <2>1, <2>3 DEF Faithful
  <2>5. q.cur \in TrackedIn(recs) /\ q.cur \in Files BY <2>1, <2>4 DEF CurInv, TrackedIn
  <2>6. \A f \in r.results : f \in TrackedIn(recs) /\ Placed(f)'
    BY <1>0, <2>1, <2>3, <2>4, <2>5 DEF Faithful, Placed, TrackedIn
  <2> QED BY <2>1, <2>3, <2>4, <2>6 DEF Faithful, TrackedIn
<1>6. ASSUME ApplyRecord(t) PROVE Faithful(apply[t])'
  <2>1. /\ q.pc = "check" /\ UNCHANGED <<disk, tree>>
        /\ recs' = [f \in Files |-> IF f \in q.results /\ recs[f] # NoRec /\ disk[f] # Gone
                                    THEN [recs[f] EXCEPT !.hash = disk[f]] ELSE recs[f]]
    BY <1>6 DEF ApplyRecord, ApplyIn, repo
  <2>2. r.pc = "done" /\ r.results = q.results /\ r.force = q.force
    BY <1>0, <1>6 DEF ApplyRecord, ApplyLocals
  <2>3. Faithful(q) BY <2>1, <2>2
  <2>4. ASSUME NEW f \in r.results
        PROVE  recs'[f] # NoRec /\ recs'[f].hash = disk[f] /\ recs'[f].branch = recs[f].branch
    <3>1. f \in Files /\ recs[f] # NoRec /\ disk[f] # Gone BY <2>2, <2>3 DEF Faithful, Placed, TrackedIn
    <3>2. recs'[f] = [recs[f] EXCEPT !.hash = disk[f]] BY <2>1, <2>2, <3>1
    <3>3. recs[f] \in Records /\ [recs[f] EXCEPT !.hash = disk[f]] \in Records
      BY <1>0, <3>1 DEF Records
    <3>4. recs'[f] # NoRec BY <3>2, <3>3, RecordAssumption
    <3> QED BY <3>2, <3>3, <3>4 DEF Records
  <2>5. \A f \in r.results : f \in TrackedIn(recs') /\ Placed(f)'
    BY <2>1, <2>2, <2>3, <2>4 DEF Faithful, Placed, TrackedIn
  <2> QED BY <2>1, <2>2, <2>4, <2>5 DEF Faithful, TrackedIn
<1>7. ASSUME ApplyAborts(t) \/ ApplyReturn(t) PROVE FALSE
  <2>1. r = IdleApply BY <1>0, <1>7 DEF ApplyAborts, ApplyReturn
  <2> QED BY <2>1 DEF IdleApply
<1> QED BY <1>1, <1>2, <1>3, <1>4, <1>5, <1>6, <1>7 DEF ApplyStep

\* What a forced, undisturbed Apply has put in place stays there.
LEMMA ApplyInvStep ==
  ASSUME TypeOK, CurInv, ApplyInv, [Next]_vars
  PROVE  ApplyInv'
<1> SUFFICES ASSUME NEW t \in Appliers, t \in alone', apply'[t].pc # "idle", apply'[t].force
             PROVE  Faithful(apply[t])'
  BY DEF ApplyInv
<1>1. CASE t \in alone /\ UNCHANGED <<disk, recs, tree>> /\ apply'[t] \in {apply[t], IdleApply}
  <2>1. apply'[t] = apply[t] BY <1>1 DEF IdleApply
  <2>2. Faithful(apply[t]) BY <1>1, <2>1 DEF ApplyInv
  <2> QED BY <1>1, <2>1, <2>2 DEF Faithful, Placed, TrackedIn
<1>2. CASE ApplyLoad(t)
  <2>1. apply'[t].snap = recs /\ apply'[t].results = {} /\ apply'[t].pc = "check"
    BY <1>2 DEF ApplyLoad, TypeOK, IdleApply
  <2> QED BY <1>2, <2>1 DEF Faithful, ApplyLoad
<1>3. CASE t \in alone /\ (ApplyStep(t) \/ ApplyFails(t)) BY <1>3, ApplyOwn DEF ApplyInv
<1> QED BY <1>1, <1>2, <1>3, QuietApply

\* A forced Apply that nothing disturbed and that met no error leaves disk,
\* record and branch in agreement for every file it was asked for.
THEOREM UndisturbedApplySettles == Spec => []ApplySettles
<1>1. Init => ApplyInv BY DEF Init, ApplyInv
<1>2. IInv /\ ApplyInv /\ [Next]_vars => ApplyInv' BY ApplyInvStep DEF IInv
<1>3. ApplyInv => ApplySettles BY DEF ApplyInv, ApplySettles, Faithful, Placed
<1> QED BY <1>1, <1>2, <1>3, Inductive, PTL DEF Spec
=============================================================================
