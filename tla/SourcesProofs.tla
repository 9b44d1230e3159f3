--------------------------- MODULE SourcesProofs ---------------------------
(***************************************************************************)
(* Proofs about Sources, for any files, profiles, values, commands and     *)
(* bounds: the types are kept, an undisturbed render without --force       *)
(* touches no file of the user or of a profile it does not render, and an  *)
(* undisturbed render settles the files of its profiles.                   *)
(***************************************************************************)
EXTENDS Sources, TLAPS

USE SourcesAssumption

\* What a render that works on an activation has: one that was asked for, a
\* cached source, and at the record step what it has made.
RenderInv ==
  /\ published <= ops + 1
  /\ \A r \in Renders :
       /\ render[r].pc \in {"pull", "file", "record"} => render[r].todo # <<>>
       /\ render[r].pc \in {"file", "record"} => cached # 0 /\ Act(r).profile \in render[r].scope
       /\ render[r].pc = "record" => render[r].made \in Made

\* While nothing disturbs a render without --force, what it knows of the owner
\* of a file is true unless the file is nobody's or belongs to a profile that
\* it renders; the file it is about to record is one of the latter.
Knows(r) ==
  /\ \A f \in Files : OwnerOf(f) \in render[r].scope \cup {NoRec, render[r].owner[f]}
  /\ render[r].pc = "record" => OwnerOf(render[r].made.file) \in render[r].scope \cup {NoRec}

OwnerInv ==
  \A r \in alone \cap Renders : render[r].pc # "idle" /\ ~render[r].force => Knows(r)

-----------------------------------------------------------------------------
(* Types of what the actions are made of.                                  *)

\* The local states of commands that do not run.
LEMMA IdleTypes ==
  IdleRender \in RenderLocals /\ IdleSync \in [todo : SUBSET Files] /\ IdleApply \in ApplyLocals
<1>1. IdleRender \in RenderLocals
  <2>1. <<>> \in Seq(Activations) OBVIOUS
  <2> QED BY <2>1 DEF IdleRender, RenderLocals
<1>2. IdleSync \in [todo : SUBSET Files] BY DEF IdleSync
<1>3. IdleApply \in ApplyLocals BY DEF IdleApply, ApplyLocals
<1> QED BY <1>1, <1>2, <1>3

\* Owners are owners.
LEMMA OwnerTypes ==
  ASSUME TypeOK, NEW f \in Files
  PROVE  OwnerOf(f) \in Owners \cup {NoRec} /\ (OwnerOf(f) = NoRec <=> records[f] = NoRec)
BY DEF TypeOK, OwnerOf, Records

\* What the render makes is a rendering.
LEMMA ResultTypes ==
  ASSUME TypeOK, RenderInv, NEW r \in Renders, render[r].pc = "file"
  PROVE  Act(r) \in Activations /\ Result(r) \in Renderings
<1>1. render[r].todo \in Seq(Activations) /\ render[r].todo # <<>> /\ cached # 0
  BY DEF TypeOK, RenderInv, RenderLocals
<1>2. Act(r) \in Activations BY <1>1 DEF Act
<1>3. cached \in Versions BY <1>1 DEF TypeOK, Versions
<1> QED BY <1>2, <1>3 DEF Result, Rendering, Renderings, Activations

\* What is fetched has been published.
LEMMA FetchedTypes ==
  ASSUME TypeOK PROVE Fetched \in 1..published /\ Fetched \in 0..published
BY DEF TypeOK, Fetched, Versions

-----------------------------------------------------------------------------
(* Type correctness.                                                       *)

TypeInv == TypeOK /\ RenderInv

\* Steps of users, and of the catalog.
LEMMA UserTypeStep == ASSUME TypeInv, UserNext PROVE TypeInv'
<1> USE DEF TypeInv, Versions
<1>1. CASE PublishSource
  <2>1. TypeOK' BY <1>1 DEF PublishSource, Acts, Disturbs, commands, TypeOK, RenderInv
  <2>2. RenderInv' BY <1>1 DEF PublishSource, Acts, commands, TypeOK, RenderInv, Act
  <2> QED BY <2>1, <2>2
<1>2. ASSUME NEW f \in Files, Edit(f) \/ Delete(f) PROVE TypeInv'
  <2>1. disk' \in [Files -> Contents \cup {Gone}]
    <3>1. CASE Edit(f)
      <4>1. [by |-> User, version |-> ops + 1, value |-> User] \in Contents
        BY <3>1 DEF Edit, Acts, TypeOK, Contents, Edits
      <4> QED BY <3>1, <4>1 DEF Edit, TypeOK
    <3>2. CASE Delete(f) BY <3>2 DEF Delete, TypeOK
    <3> QED BY <1>2, <3>1, <3>2
  <2>2. TypeOK' BY <1>2, <2>1 DEF Edit, Delete, Acts, Disturbs, catalog, commands, TypeOK
  <2>3. RenderInv' BY <1>2 DEF Edit, Delete, Acts, catalog, commands, TypeOK, RenderInv, Act
  <2> QED BY <2>2, <2>3
<1>3. ASSUME NEW f \in Files, NEW force \in BOOLEAN, Track(f, force) PROVE TypeInv'
  <2>1. [owner |-> User, hash |-> disk[f]] \in Records BY <1>3 DEF Track, TypeOK, Records, Owners
  <2>2. TypeOK' BY <1>3, <2>1 DEF Track, Acts, Disturbs, catalog, commands, TypeOK
  <2>3. RenderInv' BY <1>3 DEF Track, Acts, catalog, commands, TypeOK, RenderInv, Act
  <2> QED BY <2>2, <2>3
<1>4. ASSUME NEW f \in Files, Untrack(f) PROVE TypeInv'
  <2>1. TypeOK' BY <1>4 DEF Untrack, Acts, Disturbs, catalog, commands, TypeOK
  <2>2. RenderInv' BY <1>4 DEF Untrack, Acts, catalog, commands, TypeOK, RenderInv, Act
  <2> QED BY <2>1, <2>2
<1>5. CASE SourcePull
  <2>1. TypeOK' BY <1>5, FetchedTypes DEF SourcePull, Disturbs, commands, TypeOK
  <2>2. RenderInv' BY <1>5, FetchedTypes DEF SourcePull, commands, TypeOK, RenderInv, Act
  <2> QED BY <2>1, <2>2
<1>6. ASSUME NEW act \in Usable, SourceUse(act) PROVE TypeInv'
  <2>1. act \in Activations BY DEF Activations
  <2>2. TypeOK' BY <1>6, <2>1 DEF SourceUse, Acts, Disturbs, commands, TypeOK
  <2>3. RenderInv' BY <1>6 DEF SourceUse, Acts, commands, TypeOK, RenderInv, Act
  <2> QED BY <2>2, <2>3
<1> QED BY <1>1, <1>2, <1>3, <1>4, <1>5, <1>6 DEF UserNext, SourceList, UseCmd, ValuesCmd

\* A render that begins, and the steps that take no file.
LEMMA RenderTypeStep ==
  ASSUME TypeInv, NEW r \in Renders,
         \/ RenderStarts(r) \/ RenderSkips(r) \/ EnsureSourceRepo(r) \/ RenderNext(r)
         \/ RenderReturn(r) \/ RenderFails(r)
  PROVE  TypeInv'
<1> USE DEF TypeInv
<1>1. render[r] \in RenderLocals BY DEF TypeOK
<1>2. ASSUME NEW force \in BOOLEAN, NEW profiles \in {Profiles} \cup {{p} : p \in Profiles},
             RenderLoad(r, profiles, force) PROVE TypeInv'
  <2> DEFINE new == [IdleRender EXCEPT !.pc = "pull", !.scope = profiles, !.force = force,
                       !.todo = activations, !.owner = [f \in Files |-> OwnerOf(f)]]
  <2>1. [f \in Files |-> OwnerOf(f)] \in [Files -> Owners \cup {NoRec}] BY OwnerTypes
  <2>2. profiles \subseteq Profiles /\ activations \in Seq(Activations) BY DEF TypeOK
  <2>3. new \in RenderLocals BY <2>1, <2>2, IdleTypes DEF RenderLocals
  <2>4. new.pc = "pull" /\ new.todo # <<>> BY <1>2 DEF RenderLoad, IdleRender
  <2>5. render' = [render EXCEPT ![r] = new] BY <1>2 DEF RenderLoad
  <2> HIDE DEF new
  <2>6. TypeOK' BY <1>2, <2>3, <2>5 DEF RenderLoad, Starts, Forcing, catalog, TypeOK, Commands
  <2>7. RenderInv'
    <3>1. published' <= ops' + 1 BY <1>2 DEF RenderLoad, Forcing, catalog, TypeOK, RenderInv, Versions
    <3>2. \A q \in Renders : render'[q] = IF q = r THEN new ELSE render[q] BY <2>5 DEF TypeOK
    <3> QED BY <1>2, <2>4, <3>1, <3>2 DEF RenderLoad, catalog, RenderInv, Act
  <2> QED BY <2>6, <2>7
<1>3. ASSUME Continue(r), render[r].pc \in {"pull", "file"}, Steps(r),
             UNCHANGED <<catalog, disk, tree, stale, records, sync, apply, ops, failures>>
      PROVE TypeInv'
  <2>1. render[r].todo # <<>> BY <1>3 DEF RenderInv
  <2>2. Tail(render[r].todo) \in Seq(Activations) BY <1>1, <2>1 DEF RenderLocals
  <2>3. render'[r] \in RenderLocals BY <1>1, <1>3, <2>2 DEF Continue, RenderLocals, TypeOK
  <2>4. TypeOK' BY <1>3, <2>3 DEF Continue, Steps, catalog, TypeOK
  <2>5. RenderInv' BY <1>3 DEF Continue, catalog, TypeOK, RenderInv, Act
  <2> QED BY <2>4, <2>5
<1>4. CASE RenderSkips(r) BY <1>3, <1>4 DEF RenderSkips, In
<1>5. CASE RenderNext(r) BY <1>3, <1>5 DEF RenderNext, In
<1>6. CASE EnsureSourceRepo(r)
  <2>1. Act(r) \in Activations BY <1>1, <1>6 DEF EnsureSourceRepo, In, RenderInv, RenderLocals, Act
  <2>2. Declares[Act(r).profile] \subseteq Files BY <2>1 DEF Activations
  <2>3. render'[r] \in RenderLocals BY <1>1, <1>6, <2>2 DEF EnsureSourceRepo, RenderLocals, TypeOK
  <2>4. TypeOK' BY <1>6, <2>3, FetchedTypes DEF EnsureSourceRepo, In, Steps, TypeOK
  <2>5. RenderInv' BY <1>6, FetchedTypes DEF EnsureSourceRepo, In, TypeOK, RenderInv, Act
  <2> QED BY <2>4, <2>5
<1>7. CASE RenderReturn(r) \/ RenderFails(r)
  <2>1. render' = [render EXCEPT ![r] = IdleRender] BY <1>7 DEF RenderReturn, RenderFails
  <2>2. TypeOK' BY <1>7, <2>1, IdleTypes DEF RenderReturn, RenderFails, In, Steps, catalog, TypeOK
  <2>3. RenderInv' BY <1>7, <2>1 DEF RenderReturn, RenderFails, In, catalog, TypeOK, RenderInv, Act, IdleRender
  <2> QED BY <2>2, <2>3
<1> QED BY <1>2, <1>4, <1>5, <1>6, <1>7 DEF RenderStarts

\* What a render goes on with after a record, and what it records.
RecordedTypes(r) ==
  /\ \E l \in RenderLocals :
       /\ Recorded(r) = [render EXCEPT ![r] = l] /\ l.pc = "file"
       /\ l.todo = render[r].todo /\ l.scope = render[r].scope
  /\ render[r].made.file \in Files
  /\ [owner |-> Act(r).profile, hash |-> render[r].made.content] \in Records

LEMMA RecordTypes ==
  ASSUME TypeInv, NEW r \in Renders, render[r].pc = "record"
  PROVE  RecordedTypes(r)
<1>1. render[r] \in RenderLocals /\ render[r].made \in Made /\ render[r].todo # <<>>
  BY DEF TypeInv, TypeOK, RenderInv
<1>2. Act(r) \in Activations BY <1>1 DEF RenderLocals, Act
<1> DEFINE made  == render[r].made
           owner == IF made.same THEN render[r].owner
                    ELSE [render[r].owner EXCEPT ![made.file] = Act(r).profile]
           l     == [render[r] EXCEPT !.pc = "file", !.made = NoRec, !.owner = owner]
<1>3. owner \in [Files -> Owners \cup {NoRec}] BY <1>1, <1>2 DEF RenderLocals, Activations, Owners
<1>4. l \in RenderLocals BY <1>1, <1>3 DEF RenderLocals
<1>5. Recorded(r) = [render EXCEPT ![r] = l] BY <1>1 DEF Recorded, TypeInv, TypeOK, RenderLocals
<1>6. l.pc = "file" /\ l.todo = render[r].todo /\ l.scope = render[r].scope BY <1>1 DEF RenderLocals
<1>7. made.file \in Files /\ [owner |-> Act(r).profile, hash |-> made.content] \in Records
  BY <1>1, <1>2 DEF Made, Records, Owners, Contents, Activations
<1> HIDE DEF l
<1> QED BY <1>4, <1>5, <1>6, <1>7 DEF RecordedTypes

\* Its steps over files, and what it records.
LEMMA RenderFileTypeStep ==
  ASSUME TypeInv, NEW r \in Renders,
         \/ UpdateSourceRecord(r) \/ UpdateSourceRecordFails(r)
         \/ \E f \in Files : Refuse(r, f) \/ RenderFile(r, f)
  PROVE  TypeInv'
<1> USE DEF TypeInv
<1>1. render[r] \in RenderLocals BY DEF TypeOK
<1>2. ASSUME NEW f \in Files, Refuse(r, f) PROVE TypeInv'
  <2>1. render'[r] \in RenderLocals BY <1>1, <1>2 DEF Refuse, RenderLocals, TypeOK
  <2>2. TypeOK' BY <1>2, <2>1 DEF Refuse, In, Steps, catalog, TypeOK
  <2>3. RenderInv' BY <1>2 DEF Refuse, In, catalog, TypeOK, RenderInv, Act
  <2> QED BY <2>2, <2>3
<1>3. ASSUME NEW f \in Files, RenderFile(r, f) PROVE TypeInv'
  <2>1. Result(r) \in Renderings BY <1>3, ResultTypes DEF RenderFile, In
  <2>2. Unchanged(r, f) \in BOOLEAN BY DEF Unchanged
  <2> DEFINE made == [file |-> f, content |-> Result(r), same |-> Unchanged(r, f)]
  <2>3. made \in Made BY <2>1, <2>2 DEF Made
  <2>4. /\ tree' = [tree EXCEPT ![f] = Result(r)]
        /\ render' = [render EXCEPT ![r].pc = "record", ![r].files = @ \ {f}, ![r].made = made]
    BY <1>3 DEF RenderFile
  <2> HIDE DEF made
  <2>5. render'[r] \in RenderLocals BY <1>1, <2>3, <2>4 DEF RenderLocals, TypeOK
  <2>6. tree' \in [Files -> Contents \cup {Gone}] BY <2>1, <2>4 DEF TypeOK, Contents
  <2>7. render' \in [Renders -> RenderLocals] BY <2>4, <2>5 DEF TypeOK
  <2>8. TypeOK' BY <1>3, <2>6, <2>7 DEF RenderFile, In, Steps, catalog, TypeOK
  <2>9. /\ render'[r].pc = "record" /\ render'[r].made = made
        /\ render'[r].todo = render[r].todo /\ render'[r].scope = render[r].scope
        /\ \A q \in Renders \ {r} : render'[q] = render[q]
    BY <1>1, <2>4 DEF TypeOK, RenderLocals
  <2>10. RenderInv'
    <3>1. UNCHANGED <<published, cached, ops>> /\ render[r].pc = "file"
      BY <1>3 DEF RenderFile, In, catalog
    <3> QED BY <2>3, <2>9, <3>1 DEF RenderInv, Act
  <2> QED BY <2>8, <2>10
<1>4. ASSUME In(r, "record") PROVE RecordedTypes(r)
  BY <1>4, RecordTypes DEF In
<1>5. CASE UpdateSourceRecord(r)
  <2>1. TypeOK' BY <1>4, <1>5 DEF UpdateSourceRecord, RecordedTypes, In, Steps, catalog, TypeOK
  <2>2. PICK l \in RenderLocals : /\ render' = [render EXCEPT ![r] = l] /\ l.pc = "file"
                                  /\ l.todo = render[r].todo /\ l.scope = render[r].scope
    BY <1>4, <1>5 DEF UpdateSourceRecord, RecordedTypes
  <2>3. \A q \in Renders : render'[q] = IF q = r THEN l ELSE render[q] BY <2>2 DEF TypeOK
  <2>4. RenderInv' BY <1>5, <2>2, <2>3 DEF UpdateSourceRecord, In, catalog, RenderInv, Act
  <2> QED BY <2>1, <2>4
<1>6. CASE UpdateSourceRecordFails(r)
  <2>1. PICK l \in RenderLocals : /\ Recorded(r) = [render EXCEPT ![r] = l] /\ l.pc = "file"
                                  /\ l.todo = render[r].todo /\ l.scope = render[r].scope
    BY <1>4, <1>6 DEF UpdateSourceRecordFails, RecordedTypes
  <2>2. [l EXCEPT !.whole = FALSE] \in RenderLocals BY DEF RenderLocals
  <2>3. render' = [render EXCEPT ![r] = [l EXCEPT !.whole = FALSE]]
    BY <1>6, <2>1 DEF UpdateSourceRecordFails, TypeOK
  <2>4. TypeOK'
    <3>1. render' \in [Renders -> RenderLocals] BY <2>2, <2>3 DEF TypeOK
    <3>2. failures' \in 0..MaxFailures BY <1>6 DEF UpdateSourceRecordFails, TypeOK
    <3> QED BY <1>6, <3>1, <3>2 DEF UpdateSourceRecordFails, In, Steps, catalog, TypeOK
  <2>5. [l EXCEPT !.whole = FALSE].todo = l.todo /\ [l EXCEPT !.whole = FALSE].scope = l.scope
          /\ [l EXCEPT !.whole = FALSE].pc = l.pc BY DEF RenderLocals
  <2>6. RenderInv' BY <1>6, <2>1, <2>3, <2>5 DEF UpdateSourceRecordFails, In, catalog, TypeOK, RenderInv, Act
  <2> QED BY <2>4, <2>6
<1> QED BY <1>2, <1>3, <1>5, <1>6

\* Every step of a Sync.
LEMMA SyncTypeStep ==
  ASSUME TypeInv, NEW s \in Syncs, SyncLoad(s) \/ \E f \in Files : SyncFile(s, f)
  PROVE  TypeInv'
<1> USE DEF TypeInv
<1>1. CASE SyncLoad(s)
  <2>1. {f \in Tracked : OwnerOf(f) = User} \subseteq Files BY DEF Tracked
  <2>2. TypeOK' BY <1>1, <2>1 DEF SyncLoad, Starts, catalog, TypeOK, Commands
  <2>3. RenderInv' BY <1>1 DEF SyncLoad, catalog, RenderInv, Act
  <2> QED BY <2>2, <2>3
<1>2. ASSUME NEW f \in Files, SyncFile(s, f) PROVE TypeInv'
  <2>1. disk[f] # Gone /\ records[f] # NoRec => [records[f] EXCEPT !.hash = disk[f]] \in Records
    BY DEF TypeOK, Records
  <2>2. records' \in [Files -> Records \cup {NoRec}] BY <1>2, <2>1 DEF SyncFile, TypeOK
  <2>3. sync' \in [Syncs -> [todo : SUBSET Files]] BY <1>2 DEF SyncFile, TypeOK
  <2>4. tree' \in [Files -> Contents \cup {Gone}] BY <1>2 DEF SyncFile, TypeOK
  <2>5. TypeOK' BY <1>2, <2>2, <2>3, <2>4 DEF SyncFile, Steps, catalog, TypeOK
  <2>6. RenderInv' BY <1>2 DEF SyncFile, catalog, RenderInv, Act
  <2> QED BY <2>5, <2>6
<1> QED BY <1>1, <1>2

\* Every step of an Apply.
LEMMA ApplyTypeStep ==
  ASSUME TypeInv, NEW a \in Applies,
         ApplyStep(a) \/ ApplyFails(a) \/ \E force \in BOOLEAN : ApplyLoad(a, force)
  PROVE  TypeInv'
<1> USE DEF TypeInv
<1>1. apply[a] \in ApplyLocals BY DEF TypeOK
<1>2. ASSUME NEW force \in BOOLEAN, ApplyLoad(a, force) PROVE TypeInv'
  <2> DEFINE new == [IdleApply EXCEPT !.pc = "files", !.todo = Tracked, !.snap = records, !.force = force]
  <2>1. new \in ApplyLocals BY IdleTypes DEF ApplyLocals, Tracked, TypeOK
  <2>2. apply' = [apply EXCEPT ![a] = new] BY <1>2 DEF ApplyLoad
  <2> HIDE DEF new
  <2>3. /\ Starts(a) /\ Forcing(force)
        /\ UNCHANGED <<catalog, disk, tree, stale, records, render, sync, failures>>
    BY <1>2 DEF ApplyLoad
  <2>4. ops' \in 0..MaxOps /\ ops <= ops' BY <2>3 DEF Forcing, TypeOK
  <2>5. apply' \in [Applies -> ApplyLocals] BY <2>1, <2>2 DEF TypeOK
  <2>6. TypeOK'
    <3>1. alone' \subseteq Commands BY <2>3 DEF Starts, Commands
    <3> QED BY <2>3, <2>4, <2>5, <3>1 DEF catalog, TypeOK
  <2>7. published' <= ops' + 1 BY <2>3 DEF catalog, Forcing, TypeOK, RenderInv, Versions
  <2>8. RenderInv' BY <2>3, <2>7 DEF catalog, RenderInv, Act
  <2> QED BY <2>6, <2>8
<1>3. ASSUME NEW l \in ApplyLocals, apply' = [apply EXCEPT ![a] = l], Steps(a),
             failures' \in 0..MaxFailures, UNCHANGED <<catalog, tree, render, sync, ops>>,
             disk' \in [Files -> Contents \cup {Gone}], stale' \subseteq Files,
             records' \in [Files -> Records \cup {NoRec}]
      PROVE TypeInv'
  <2>1. TypeOK' BY <1>3 DEF Steps, catalog, TypeOK
  <2>2. RenderInv' BY <1>3 DEF catalog, RenderInv, Act
  <2> QED BY <2>1, <2>2
<1>4. ASSUME NEW f \in Files, ApplyChecks(a, f) \/ ApplyReads(a, f) PROVE TypeInv'
  <2>1. apply'[a] \in ApplyLocals
    <3>1. CASE ApplyChecks(a, f) BY <1>1, <3>1 DEF ApplyChecks, ApplyLocals, TypeOK
    <3>2. CASE ApplyReads(a, f)
      <4>1. tree[f] \in Contents \cup {Gone} BY DEF TypeOK
      <4> QED BY <1>1, <3>2, <4>1 DEF ApplyReads, ApplyLocals, TypeOK
    <3> QED BY <1>4, <3>1, <3>2
  <2>2. apply' = [apply EXCEPT ![a] = apply'[a]] BY <1>4 DEF ApplyChecks, ApplyReads, TypeOK
  <2>3. /\ Steps(a) /\ UNCHANGED <<disk, stale, records, failures>>
        /\ UNCHANGED <<catalog, tree, render, sync, ops>>
    BY <1>4 DEF ApplyChecks, ApplyReads
  <2> QED BY <1>3, <2>1, <2>2, <2>3 DEF TypeOK
<1>5. ASSUME NEW f \in Files, ApplySkips(a, f) \/ ApplyMissing(a, f) \/ ApplyWrites(a, f) PROVE TypeInv'
  <2>1. apply'[a] \in ApplyLocals
    <3>1. CASE ApplySkips(a, f) BY <1>1, <3>1 DEF ApplySkips, ApplyLocals, TypeOK
    <3>2. CASE ApplyMissing(a, f) BY <1>1, <3>2 DEF ApplyMissing, ApplyLocals, TypeOK
    <3>3. CASE ApplyWrites(a, f) BY <1>1, <3>3 DEF ApplyWrites, ApplyLocals, TypeOK
    <3> QED BY <1>5, <3>1, <3>2, <3>3
  <2>2. apply' = [apply EXCEPT ![a] = apply'[a]]
    BY <1>5 DEF ApplySkips, ApplyMissing, ApplyWrites, TypeOK
  <2>3. disk' \in [Files -> Contents \cup {Gone}] /\ stale' \subseteq Files
    <3>1. apply[a].data \in Contents \cup {Gone} BY <1>1 DEF ApplyLocals
    <3> QED BY <1>5, <3>1 DEF ApplySkips, ApplyMissing, ApplyWrites, TypeOK
  <2>4. /\ Steps(a) /\ UNCHANGED <<records, failures>>
        /\ UNCHANGED <<catalog, tree, render, sync, ops>>
    BY <1>5 DEF ApplySkips, ApplyMissing, ApplyWrites
  <2> QED BY <1>3, <2>1, <2>2, <2>3, <2>4 DEF TypeOK
<1>6. CASE ApplyRecord(a)
  <2>1. HooksDue(a) \in ApplyLocals BY IdleTypes DEF HooksDue, ApplyLocals
  <2>2. records' \in [Files -> Records \cup {NoRec}]
    <3>1. \A f \in Files : f \in Tracked /\ disk[f] # Gone => [records[f] EXCEPT !.hash = disk[f]] \in Records
      BY DEF TypeOK, Records, Tracked
    <3> QED BY <1>6, <3>1 DEF ApplyRecord, TypeOK
  <2> QED BY <1>3, <1>6, <2>1, <2>2 DEF ApplyRecord, TypeOK
<1>7. CASE RunSourceHooks(a) \/ ApplyFails(a)
  <2>1. apply' = [apply EXCEPT ![a] = IdleApply] /\ Steps(a) BY <1>7 DEF RunSourceHooks, ApplyFails
  <2>2. failures' \in 0..MaxFailures /\ stale' \subseteq Files
    BY <1>7 DEF RunSourceHooks, ApplyFails, TypeOK
  <2>3. UNCHANGED <<catalog, tree, render, sync, ops>> /\ UNCHANGED <<disk, records>>
    BY <1>7 DEF RunSourceHooks, ApplyFails
  <2> QED BY <1>3, <2>1, <2>2, <2>3, IdleTypes DEF TypeOK
<1> QED BY <1>2, <1>4, <1>5, <1>6, <1>7 DEF ApplyStep

\* Every step keeps the types.
LEMMA TypeStep == ASSUME TypeInv, [Next]_vars PROVE TypeInv'
<1>1. CASE UNCHANGED vars
  BY <1>1 DEF vars, TypeInv, TypeOK, RenderInv, Act
<1> QED BY <1>1, UserTypeStep, RenderTypeStep, RenderFileTypeStep, SyncTypeStep, ApplyTypeStep
  DEF Next, RenderStep

\* The program starts well typed.
LEMMA TypeInit == Init => TypeInv
<1> SUFFICES ASSUME Init PROVE TypeInv OBVIOUS
<1>1. <<>> \in Seq(Activations) OBVIOUS
<1>2. TypeOK BY <1>1, IdleTypes DEF Init, TypeOK, Versions
<1>3. RenderInv BY DEF Init, RenderInv, IdleRender
<1> QED BY <1>2, <1>3 DEF TypeInv

\* All variables always are of their types.
THEOREM TypeCorrect == Spec => []TypeOK
<1>1. TypeInv => TypeOK BY DEF TypeInv
<1> QED BY <1>1, TypeInit, TypeStep, PTL DEF Spec

-----------------------------------------------------------------------------
(* The owners that a render knows of.                                      *)

\* A step after which a render is undisturbed is its own, and it was
\* undisturbed before unless it begins.
LEMMA AloneStep ==
  ASSUME [Next]_vars, NEW r \in Renders, r \in alone'
  PROVE  \/ UNCHANGED vars
         \/ RenderStarts(r)
         \/ /\ r \in alone
            /\ RenderStep(r) \/ UpdateSourceRecordFails(r) \/ RenderFails(r)
<1>1. ~UserNext
  BY DEF UserNext, PublishSource, Edit, Delete, Untrack, Track, SourcePull, SourceList, UseCmd,
    ValuesCmd, SourceUse, Acts, Disturbs
<1>2. \A s \in Syncs : ~SyncLoad(s) /\ \A f \in Files : ~SyncFile(s, f)
  BY DEF SyncLoad, SyncFile, Starts, Steps
<1>3. \A a \in Applies : /\ ~ApplyStep(a) /\ ~ApplyFails(a)
                         /\ \A force \in BOOLEAN : ~ApplyLoad(a, force)
  <2> SUFFICES ASSUME NEW a \in Applies PROVE ~ApplyStep(a) /\ ~ApplyFails(a)
                                             /\ \A force \in BOOLEAN : ~ApplyLoad(a, force)
    OBVIOUS
  <2>1. ~Steps(a) /\ ~Starts(a) BY DEF Steps, Starts
  <2>2. \A f \in Files : /\ ~ApplySkips(a, f) /\ ~ApplyChecks(a, f) /\ ~ApplyReads(a, f)
                         /\ ~ApplyMissing(a, f) /\ ~ApplyWrites(a, f)
    BY <2>1 DEF ApplySkips, ApplyChecks, ApplyReads, ApplyMissing, ApplyWrites
  <2>3. ~ApplyRecord(a) /\ ~RunSourceHooks(a) BY <2>1 DEF ApplyRecord, RunSourceHooks
  <2> QED BY <2>1, <2>2, <2>3 DEF ApplyStep, ApplyFails, ApplyLoad
<1>4. \A q \in Renders : /\ RenderStarts(q) => q = r
                         /\ RenderStep(q) \/ UpdateSourceRecordFails(q) \/ RenderFails(q)
                              => q = r /\ r \in alone
  BY DEF RenderStarts, RenderLoad, RenderStep, RenderSkips, EnsureSourceRepo, UpdateSourceRecord,
    RenderNext, RenderReturn, Refuse, RenderFile, UpdateSourceRecordFails, RenderFails, In,
    Starts, Steps
<1> QED BY <1>1, <1>2, <1>3, <1>4 DEF Next

\* The owner of a file the render may write.
LEMMA AcceptedOwner ==
  ASSUME TypeInv, NEW r \in Renders, Knows(r), render[r].pc = "file", ~render[r].force,
         NEW f \in Files, ~Conflict(r, f)
  PROVE  OwnerOf(f) \in render[r].scope \cup {NoRec}
BY DEF TypeInv, RenderInv, Knows, Conflict

\* It keeps knowing them.
LEMMA OwnerStep ==
  ASSUME TypeInv, OwnerInv, [Next]_vars
  PROVE  OwnerInv'
<1> USE DEF TypeInv
<1> SUFFICES ASSUME NEW r \in Renders, r \in alone', render'[r].pc # "idle", ~render'[r].force
             PROVE  Knows(r)'
  BY DEF OwnerInv
<1>1. render[r] \in RenderLocals /\ render \in [Renders -> RenderLocals] BY DEF TypeOK
<1>2. CASE UNCHANGED vars BY <1>2 DEF vars, OwnerInv, Knows, OwnerOf
<1>3. CASE RenderStarts(r)
  <2>1. /\ render'[r].owner = [f \in Files |-> OwnerOf(f)] /\ render'[r].pc = "pull"
        /\ records' = records
    BY <1>1, <1>3 DEF RenderStarts, RenderLoad, IdleRender
  <2> QED BY <2>1 DEF Knows, OwnerOf
<1>4. ASSUME r \in alone, render[r].pc # "idle", UNCHANGED records, render'[r].pc # "record",
             render'[r].scope = render[r].scope, render'[r].owner = render[r].owner,
             render'[r].force = render[r].force
      PROVE Knows(r)'
  BY <1>4 DEF OwnerInv, Knows, OwnerOf
<1>5. CASE r \in alone /\ (RenderSkips(r) \/ RenderNext(r))
  <2>1. render'[r] = [render[r] EXCEPT !.todo = Tail(@),
                        !.pc = IF Tail(render[r].todo) = <<>> THEN "done" ELSE "pull"]
    BY <1>1, <1>5 DEF RenderSkips, RenderNext, Continue
  <2>2. render[r].pc # "idle" /\ UNCHANGED records BY <1>5 DEF RenderSkips, RenderNext, In
  <2> QED BY <1>1, <1>4, <1>5, <2>1, <2>2 DEF RenderLocals
<1>6. CASE r \in alone /\ EnsureSourceRepo(r)
  BY <1>1, <1>4, <1>6 DEF EnsureSourceRepo, In, RenderLocals
<1>7. ASSUME r \in alone, NEW f \in Files, Refuse(r, f) PROVE Knows(r)'
  BY <1>1, <1>4, <1>7 DEF Refuse, In, RenderLocals
<1>8. ASSUME r \in alone, NEW f \in Files, RenderFile(r, f) PROVE Knows(r)'
  <2>1. /\ render'[r].scope = render[r].scope /\ render'[r].owner = render[r].owner
        /\ render'[r].force = render[r].force /\ render'[r].made.file = f
    BY <1>1, <1>8 DEF RenderFile, RenderLocals
  <2>2. render[r].pc = "file" /\ ~Conflict(r, f) /\ UNCHANGED records
    BY <1>8 DEF RenderFile, In
  <2>3. Knows(r) BY <1>8, <2>1, <2>2 DEF OwnerInv
  <2>4. OwnerOf(f) \in render[r].scope \cup {NoRec} BY <2>1, <2>2, <2>3, AcceptedOwner
  <2> QED BY <2>1, <2>2, <2>3, <2>4 DEF Knows, OwnerOf
<1>9. CASE r \in alone /\ (UpdateSourceRecord(r) \/ UpdateSourceRecordFails(r))
  <2> PICK file : file = render[r].made.file OBVIOUS
  <2>1. render[r].pc = "record" /\ render[r].made \in Made
    BY <1>9 DEF UpdateSourceRecord, UpdateSourceRecordFails, In, RenderInv
  <2>2. /\ render'[r].scope = render[r].scope /\ render'[r].force = render[r].force
        /\ render'[r].pc = "file"
        /\ \A f \in Files \ {file} : render'[r].owner[f] = render[r].owner[f]
    BY <1>1, <1>9 DEF UpdateSourceRecord, UpdateSourceRecordFails, Recorded, RenderLocals
  <2>3. Knows(r) BY <1>9, <2>1, <2>2 DEF OwnerInv
  <2>4. \A f \in Files \ {file} : records'[f] = records[f]
    BY <1>9 DEF UpdateSourceRecord, UpdateSourceRecordFails, TypeOK
  <2>5. OwnerOf(file)' \in render[r].scope \cup {NoRec}
    <3>1. CASE UpdateSourceRecordFails(r)
      BY <2>1, <2>3, <3>1 DEF UpdateSourceRecordFails, Knows, OwnerOf
    <3>2. CASE UpdateSourceRecord(r)
      <4>1. file \in Files BY <2>1 DEF Made
      <4>2. records'[file] = [owner |-> Act(r).profile, hash |-> render[r].made.content]
        BY <3>2, <4>1 DEF UpdateSourceRecord, TypeOK
      <4>3. Act(r).profile \in render[r].scope BY <2>1 DEF RenderInv
      <4> QED BY <4>2, <4>3 DEF OwnerOf
    <3> QED BY <1>9, <3>1, <3>2
  <2> QED BY <2>2, <2>3, <2>4, <2>5 DEF Knows, OwnerOf
<1>10. CASE RenderReturn(r) \/ RenderFails(r)
  <2>1. render'[r] = IdleRender BY <1>1, <1>10 DEF RenderReturn, RenderFails
  <2> QED BY <2>1 DEF IdleRender
<1> QED BY <1>2, <1>3, <1>5, <1>6, <1>7, <1>8, <1>9, <1>10, AloneStep DEF RenderStep

-----------------------------------------------------------------------------
(* Owners are kept.                                                        *)

\* A step that changes the local state of a render is one of its own.
LEMMA OwnStep ==
  ASSUME TypeInv, [Next]_vars, NEW r \in Renders, render'[r] # render[r]
  PROVE  RenderStarts(r) \/ RenderStep(r) \/ UpdateSourceRecordFails(r) \/ RenderFails(r)
<1>1. render \in [Renders -> RenderLocals] BY DEF TypeInv, TypeOK
<1>2. ~UNCHANGED vars BY DEF vars
<1>3. ~UserNext
  BY DEF UserNext, PublishSource, Edit, Delete, Untrack, Track, SourcePull, SourceList, UseCmd,
    ValuesCmd, SourceUse, commands
<1>4. \A s \in Syncs : ~SyncLoad(s) /\ \A f \in Files : ~SyncFile(s, f)
  BY DEF SyncLoad, SyncFile
<1>5. \A a \in Applies : /\ ~ApplyStep(a) /\ ~ApplyFails(a)
                         /\ \A force \in BOOLEAN : ~ApplyLoad(a, force)
  BY ZenonT(60) DEF ApplyStep, ApplyRecord, RunSourceHooks, ApplySkips, ApplyChecks, ApplyReads,
    ApplyMissing, ApplyWrites, ApplyFails, ApplyLoad
<1>6. \A q \in Renders :
        RenderStarts(q) \/ RenderStep(q) \/ UpdateSourceRecordFails(q) \/ RenderFails(q) => q = r
  BY ZenonT(60), <1>1 DEF RenderStarts, RenderLoad, RenderStep, RenderSkips, EnsureSourceRepo,
    UpdateSourceRecord, RenderNext, RenderReturn, Refuse, RenderFile, UpdateSourceRecordFails,
    RenderFails, Continue, Recorded
<1> QED BY <1>2, <1>3, <1>4, <1>5, <1>6 DEF Next

\* A step of an undisturbed render keeps the files of others.
LEMMA KeepStep ==
  ASSUME TypeInv, OwnerInv, [Next]_vars, NEW r \in alone \cap Renders, NEW f \in Files,
         render'[r] # render[r], ~render[r].force, OwnerOf(f) \notin render[r].scope \cup {NoRec}
  PROVE  records'[f] = records[f] /\ tree'[f] = tree[f]
<1> USE DEF TypeInv
<1>1. CASE RenderStarts(r) BY <1>1 DEF RenderStarts, RenderLoad
<1>2. CASE \/ RenderSkips(r) \/ EnsureSourceRepo(r) \/ RenderNext(r) \/ RenderReturn(r)
           \/ RenderFails(r) \/ UpdateSourceRecordFails(r)
  BY <1>2 DEF RenderSkips, EnsureSourceRepo, RenderNext, RenderReturn, RenderFails,
    UpdateSourceRecordFails
<1>3. CASE UpdateSourceRecord(r)
  <2>1. render[r].pc = "record" BY <1>3 DEF UpdateSourceRecord, In
  <2>2. f # render[r].made.file BY <2>1 DEF OwnerInv, Knows
  <2> QED BY <1>3, <2>2 DEF UpdateSourceRecord, TypeOK
<1>4. ASSUME NEW g \in Files, Refuse(r, g) \/ RenderFile(r, g)
      PROVE  records'[f] = records[f] /\ tree'[f] = tree[f]
  <2>1. CASE Refuse(r, g) BY <2>1 DEF Refuse
  <2>2. CASE RenderFile(r, g)
    <3>1. render[r].pc = "file" /\ ~Conflict(r, g) BY <2>2 DEF RenderFile, In
    <3>2. f # g BY <3>1, AcceptedOwner DEF OwnerInv
    <3> QED BY <2>2, <3>2 DEF RenderFile, TypeOK
  <2> QED BY <1>4, <2>1, <2>2
<1> QED BY <1>1, <1>2, <1>3, <1>4, OwnStep DEF RenderStep

\* OwnersKept of Sources (SourceRender's conflict check, sources.go:537): without
\* --force an undisturbed render touches no file of the user or of a profile it
\* does not render, whatever it has committed, recorded, or failed to record.
THEOREM OwnersAreKept == Spec => OwnersKept
<1> DEFINE Kept(r, f) ==
      render'[r] # render[r] /\ ~render[r].force /\ OwnerOf(f) \notin render[r].scope \cup {NoRec}
        => records'[f] = records[f] /\ tree'[f] = tree[f]
<1>1. Init => TypeInv /\ OwnerInv
  <2>1. Init => OwnerInv BY DEF Init, OwnerInv
  <2> QED BY <2>1, TypeInit
<1>2. TypeInv /\ OwnerInv /\ [Next]_vars => (TypeInv /\ OwnerInv)' BY TypeStep, OwnerStep
<1>3. TypeInv /\ OwnerInv /\ [Next]_vars
        => [\A r \in alone \cap Renders, f \in Files : Kept(r, f)]_vars
  BY KeepStep
<1> QED BY <1>1, <1>2, <1>3, PTL DEF Spec, OwnersKept

-----------------------------------------------------------------------------
(* An undisturbed render settles its files.                                *)

\* Where in the activations render r is, and whether it is through with what
\* activation i says of f.
Position(r)   == Len(activations) - Len(render[r].todo) + 1
Past(r, f, i) ==
  \/ i < Position(r)
  \/ i = Position(r) /\ render[r].pc \in {"file", "record"} /\ f \notin render[r].files
Taken(r, f, p) == {i \in Claims(f, p) : Past(r, f, i)}

\* What is left to do is the end of the activations.
Queue(r) ==
  /\ Len(render[r].todo) <= Len(activations)
  /\ \A i \in 1..Len(render[r].todo) : render[r].todo[i] = activations[Position(r) + i - 1]
  /\ render[r].pc = "done" => render[r].todo = <<>>

\* Once a profile is rendered the cache is as the next pull would make it.
Pulled(r) ==
  \/ render[r].pc \in {"file", "record"}
  \/ \E i \in DOMAIN activations : i < Position(r) /\ activations[i].profile \in render[r].scope
  => cached = Fetched

\* The files it is about to render, and the one it has committed.
Making(r) ==
  /\ render[r].pc \in {"file", "record"} => render[r].files \subseteq Declares[Act(r).profile]
  /\ render[r].pc = "record" =>
       /\ render[r].made.file \in Declares[Act(r).profile] \ render[r].files
       /\ render[r].made.content = Result(r) /\ tree[render[r].made.file] = Result(r)
       /\ ~render[r].force => render[r].owner[render[r].made.file] \in {NoRec, Act(r).profile}

\* Without --force it knows the owner of a file, or takes it for free.
Remembers(r) == ~render[r].force => \A f \in Files : render[r].owner[f] \in {NoRec, OwnerOf(f)}

\* What RenderSettles says of f and p, of the activations so far.
Underway(r, f)   == render[r].pc = "record" /\ f = render[r].made.file
Settled(r, f, p) ==
  \A last \in Taken(r, f, p) : (\A i \in Taken(r, f, p) : i <= last) =>
    /\ f \in Tracked
    /\ OwnerOf(f) = p => /\ tree[f] = Rendering(activations[last], cached)
                         /\ records[f].hash = tree[f]
Settling(r) == \A p \in render[r].scope, f \in Files : Underway(r, f) \/ Settled(r, f, p)

OnTheWay(r) == Queue(r) /\ Pulled(r) /\ Making(r) /\ Remembers(r) /\ Settling(r)
SettleInv ==
  \A r \in alone \cap Renders : render[r].pc # "idle" /\ render[r].whole => OnTheWay(r)

\* The activation a render works on is where it is.
LEMMA QueueHead ==
  ASSUME TypeInv, NEW r \in Renders, Queue(r), render[r].todo # <<>>
  PROVE  Position(r) \in DOMAIN activations /\ activations[Position(r)] = Act(r)
<1>1. render[r].todo \in Seq(Activations) /\ activations \in Seq(Activations)
  BY DEF TypeInv, TypeOK, RenderLocals
<1>2. Len(render[r].todo) \in Nat \ {0} /\ Len(activations) \in Nat BY <1>1
<1>3. Position(r) \in 1..Len(activations) BY <1>2 DEF Queue, Position
<1>4. render[r].todo[1] = activations[Position(r) + 1 - 1] BY <1>2 DEF Queue
<1>5. render[r].todo[1] = Act(r) BY <1>1 DEF Act
<1>6. Position(r) + 1 - 1 = Position(r) BY <1>2 DEF Position
<1>7. DOMAIN activations = 1..Len(activations) BY <1>1
<1> QED BY <1>3, <1>4, <1>5, <1>6, <1>7

\* The next one is one further.
LEMMA QueueTail ==
  ASSUME TypeInv, NEW r \in Renders, Queue(r), render[r].todo # <<>>, UNCHANGED activations,
         Continue(r)
  PROVE  Queue(r)' /\ Position(r)' = Position(r) + 1
<1>1. /\ render[r].todo \in Seq(Activations) /\ activations \in Seq(Activations)
      /\ render[r] \in RenderLocals /\ render \in [Renders -> RenderLocals]
  BY DEF TypeInv, TypeOK, RenderLocals
<1> DEFINE todo == render[r].todo
           rest == Tail(todo)
<1>2. Len(todo) \in Nat \ {0} /\ Len(activations) \in Nat /\ Len(rest) = Len(todo) - 1
        /\ \A i \in 1..Len(rest) : rest[i] = todo[i + 1]
  BY <1>1
<1>3. render'[r].todo = rest /\ (render'[r].pc = "done" => rest = <<>>)
  BY <1>1 DEF Continue, RenderLocals
<1>4. Position(r)' = Position(r) + 1
  <2>1. Position(r)' = Len(activations) - Len(rest) + 1 BY <1>3 DEF Position
  <2>2. Position(r) = Len(activations) - Len(todo) + 1 BY DEF Position
  <2> HIDE DEF rest, todo
  <2> QED BY <1>2, <2>1, <2>2
<1>5. \A i \in 1..Len(rest) : rest[i] = activations[Position(r) + 1 + i - 1]
  <2> TAKE i \in 1..Len(rest)
  <2>1. i + 1 \in 1..Len(todo) BY <1>2
  <2>2. todo[i + 1] = activations[Position(r) + (i + 1) - 1] BY <2>1 DEF Queue
  <2>3. Position(r) + (i + 1) - 1 = Position(r) + 1 + i - 1 BY <1>2 DEF Position
  <2> QED BY <1>2, <2>2, <2>3
<1> QED BY <1>2, <1>3, <1>4, <1>5 DEF Queue

\* A file nobody touches stays settled.
LEMMA SettledKept ==
  ASSUME NEW r \in Renders, NEW p, NEW f \in Files, Settled(r, f, p), Taken(r, f, p)' = Taken(r, f, p),
         UNCHANGED activations, records'[f] = records[f], tree'[f] = tree[f],
         Taken(r, f, p) # {} => cached' = cached
  PROVE  Settled(r, f, p)'
BY DEF Settled, Tracked, OwnerOf, Rendering

\* A render that begins.
LEMMA SettleLoad ==
  ASSUME TypeInv, NEW r \in Renders, RenderStarts(r) PROVE OnTheWay(r)'
<1>1. /\ render'[r].pc = "pull" /\ render'[r].todo = activations /\ UNCHANGED activations
      /\ render'[r].owner = [f \in Files |-> OwnerOf(f)] /\ UNCHANGED records
  BY DEF RenderStarts, RenderLoad, IdleRender, TypeInv, TypeOK, catalog
<1>2. Len(activations) \in Nat BY DEF TypeInv, TypeOK
<1>3. Position(r)' = 1 BY <1>1, <1>2 DEF Position
<1>4. Queue(r)' BY <1>1, <1>2, <1>3 DEF Queue
<1>5. \A i \in DOMAIN activations : ~(i < 1) BY DEF TypeInv, TypeOK
<1>6. Pulled(r)' BY <1>1, <1>3, <1>5 DEF Pulled
<1>7. Making(r)' /\ Remembers(r)' BY <1>1 DEF Making, Remembers, OwnerOf
<1>8. \A f \in Files : \A p : Taken(r, f, p)' = {}
  BY <1>1, <1>3, <1>5 DEF Taken, Claims, Past
<1>9. Settling(r)' BY <1>8 DEF Settling, Settled
<1> QED BY <1>4, <1>6, <1>7, <1>9 DEF OnTheWay

\* One that goes on to the next activation, through with the last one.
LEMMA SettleContinue ==
  ASSUME TypeInv, NEW r \in Renders, OnTheWay(r), render[r].pc \in {"pull", "file"}, Continue(r),
         UNCHANGED <<catalog, tree, records>>,
         Act(r).profile \in render[r].scope => render[r].pc = "file" /\ render[r].files = {}
  PROVE  OnTheWay(r)'
<1>1. /\ render[r] \in RenderLocals /\ render \in [Renders -> RenderLocals]
      /\ activations \in Seq(Activations)
  BY DEF TypeInv, TypeOK
<1>2. render[r].todo # <<>> BY DEF TypeInv, RenderInv
<1>3. Queue(r) BY DEF OnTheWay
<1>4. UNCHANGED <<activations, cached, remote, published>> BY DEF catalog
<1>5. Queue(r)' /\ Position(r)' = Position(r) + 1 BY <1>2, <1>3, <1>4, QueueTail
<1>6. Position(r) \in DOMAIN activations /\ activations[Position(r)] = Act(r) BY <1>2, <1>3, QueueHead
<1>7. Position(r) \in Nat /\ DOMAIN activations \subseteq Nat BY <1>1, <1>6
<1>8. /\ render'[r].pc \in {"pull", "done"} /\ render'[r].scope = render[r].scope
      /\ render'[r].owner = render[r].owner /\ render'[r].force = render[r].force
  BY <1>1 DEF Continue, RenderLocals
<1>9. Pulled(r)'
  <2> SUFFICES ASSUME NEW i \in DOMAIN activations, i < Position(r) + 1,
                      activations[i].profile \in render[r].scope
               PROVE  cached = Fetched
    BY <1>4, <1>5, <1>8 DEF Pulled, Fetched
  <2>1. CASE i < Position(r) BY <2>1 DEF OnTheWay, Pulled
  <2>2. CASE i = Position(r) BY <1>6, <2>2 DEF OnTheWay, Pulled
  <2> QED BY <1>7, <2>1, <2>2
<1>10. Making(r)' BY <1>8 DEF Making
<1>11. Remembers(r)' BY <1>8 DEF OnTheWay, Remembers, OwnerOf
<1>12. Settling(r)'
  <2> SUFFICES ASSUME NEW p \in render[r].scope, NEW f \in Files PROVE Settled(r, f, p)'
    BY <1>8 DEF Settling
  <2>1. Settled(r, f, p) BY DEF OnTheWay, Settling, Underway
  <2>2. ASSUME NEW i \in Claims(f, p) PROVE Past(r, f, i)' <=> Past(r, f, i)
    <3>1. i \in Nat /\ activations[i].profile = p BY <1>7 DEF Claims
    <3>2. Past(r, f, i)' <=> i < Position(r) + 1 BY <1>5, <1>8 DEF Past
    <3>3. i = Position(r) => Past(r, f, i) BY <1>6, <3>1 DEF Past
    <3> QED BY <1>7, <3>1, <3>2, <3>3 DEF Past
  <2>3. Taken(r, f, p)' = Taken(r, f, p) BY <1>4, <2>2 DEF Taken, Claims
  <2> QED BY <1>4, <2>1, <2>3, SettledKept
<1> QED BY <1>5, <1>9, <1>10, <1>11, <1>12 DEF OnTheWay

\* One that begins an activation.
LEMMA SettlePull ==
  ASSUME TypeInv, NEW r \in Renders, OnTheWay(r), EnsureSourceRepo(r)
  PROVE  OnTheWay(r)'
<1>1. /\ render[r] \in RenderLocals /\ render \in [Renders -> RenderLocals]
      /\ activations \in Seq(Activations)
  BY DEF TypeInv, TypeOK
<1>2. render[r].pc = "pull" /\ render[r].todo # <<>> BY DEF EnsureSourceRepo, In, TypeInv, RenderInv
<1>3. /\ render'[r].pc = "file" /\ render'[r].files = Declares[Act(r).profile]
      /\ render'[r].todo = render[r].todo /\ render'[r].scope = render[r].scope
      /\ render'[r].owner = render[r].owner /\ render'[r].force = render[r].force
      /\ UNCHANGED <<activations, remote, published, tree, records>> /\ cached' = Fetched
  BY <1>1 DEF EnsureSourceRepo, RenderLocals
<1>4. Queue(r) BY DEF OnTheWay
<1>5. Queue(r)' /\ Position(r)' = Position(r) BY <1>3, <1>4 DEF Queue, Position
<1>6. Position(r) \in DOMAIN activations /\ activations[Position(r)] = Act(r) BY <1>2, <1>4, QueueHead
<1>7. Fetched' = cached'
  <2>1. published \in Nat \ {0} BY DEF TypeInv, TypeOK, Versions
  <2> QED BY <1>3, <2>1 DEF Fetched
<1>8. Pulled(r)' BY <1>7 DEF Pulled
<1>9. Making(r)' /\ Remembers(r)' BY <1>3 DEF OnTheWay, Making, Remembers, OwnerOf, Act
<1>10. Settling(r)'
  <2> SUFFICES ASSUME NEW p \in render[r].scope, NEW f \in Files PROVE Settled(r, f, p)'
    BY <1>3 DEF Settling
  <2>1. Settled(r, f, p) BY <1>2 DEF OnTheWay, Settling, Underway
  <2>2. ASSUME NEW i \in Claims(f, p) PROVE Past(r, f, i)' <=> Past(r, f, i)
    <3>1. activations[i].profile = p /\ f \in Declares[p] BY DEF Claims
    <3>2. i = Position(r) => f \in Declares[Act(r).profile] BY <1>6, <3>1
    <3> QED BY <1>2, <1>3, <1>5, <3>2 DEF Past
  <2>3. Taken(r, f, p)' = Taken(r, f, p) BY <1>3, <2>2 DEF Taken, Claims
  <2>4. Taken(r, f, p) # {} => cached' = cached
    <3> SUFFICES ASSUME NEW i \in Taken(r, f, p) PROVE cached' = cached OBVIOUS
    <3>1. i \in DOMAIN activations /\ i < Position(r) /\ activations[i].profile \in render[r].scope
      BY <1>2 DEF Taken, Past, Claims
    <3> QED BY <1>3, <3>1 DEF OnTheWay, Pulled
  <2> QED BY <1>3, <2>1, <2>3, <2>4, SettledKept
<1> QED BY <1>5, <1>8, <1>9, <1>10 DEF OnTheWay

\* One that leaves a file to another profile.
LEMMA SettleRefuse ==
  ASSUME TypeInv, NEW r \in Renders, OnTheWay(r), NEW g \in Files, Refuse(r, g)
  PROVE  OnTheWay(r)'
<1>1. /\ render[r] \in RenderLocals /\ render \in [Renders -> RenderLocals]
      /\ activations \in Seq(Activations)
  BY DEF TypeInv, TypeOK
<1>2. render[r].pc = "file" /\ render[r].todo # <<>> BY DEF Refuse, In, TypeInv, RenderInv
<1>3. /\ render'[r].pc = "file" /\ render'[r].files = render[r].files \ {g}
      /\ render'[r].todo = render[r].todo /\ render'[r].scope = render[r].scope
      /\ render'[r].owner = render[r].owner /\ render'[r].force = render[r].force
      /\ UNCHANGED <<activations, remote, published, cached, tree, records>>
  BY <1>1, <1>2 DEF Refuse, RenderLocals, catalog
<1>4. Queue(r) BY DEF OnTheWay
<1>5. Queue(r)' /\ Position(r)' = Position(r) BY <1>3, <1>4 DEF Queue, Position
<1>6. Position(r) \in DOMAIN activations /\ activations[Position(r)] = Act(r) BY <1>2, <1>4, QueueHead
<1>7. Pulled(r)' BY <1>2, <1>3 DEF OnTheWay, Pulled, Fetched
<1>8. Making(r)' /\ Remembers(r)' BY <1>2, <1>3 DEF OnTheWay, Making, Remembers, OwnerOf, Act
<1>9. OwnerOf(g) \notin {NoRec, Act(r).profile} /\ g \in Tracked
  BY DEF OnTheWay, Remembers, Refuse, Conflict, OwnerOf, Tracked
<1>10. Settling(r)'
  <2> SUFFICES ASSUME NEW p \in render[r].scope, NEW f \in Files PROVE Settled(r, f, p)'
    BY <1>3 DEF Settling
  <2>1. Settled(r, f, p) BY <1>2 DEF OnTheWay, Settling, Underway
  <2>2. CASE f = g /\ p = Act(r).profile
    <3>1. OwnerOf(g)' # p /\ g \in Tracked' BY <1>3, <1>9, <2>2 DEF OwnerOf, Tracked
    <3> QED BY <2>2, <3>1 DEF Settled
  <2>3. CASE f # g \/ p # Act(r).profile
    <3>1. ASSUME NEW i \in Claims(f, p) PROVE Past(r, f, i)' <=> Past(r, f, i)
      <4>1. i = Position(r) => f # g BY <1>6, <2>3 DEF Claims
      <4> QED BY <1>2, <1>3, <1>5, <4>1 DEF Past
    <3>2. Taken(r, f, p)' = Taken(r, f, p) BY <1>3, <3>1 DEF Taken, Claims
    <3> QED BY <1>3, <2>1, <3>2, SettledKept
  <2> QED BY <2>2, <2>3
<1> QED BY <1>5, <1>7, <1>8, <1>10 DEF OnTheWay

\* One that commits a file.
LEMMA SettleFile ==
  ASSUME TypeInv, NEW r \in Renders, OnTheWay(r), NEW g \in Files, RenderFile(r, g)
  PROVE  OnTheWay(r)'
<1>1. /\ render[r] \in RenderLocals /\ render \in [Renders -> RenderLocals]
      /\ activations \in Seq(Activations) /\ tree \in [Files -> Contents \cup {Gone}]
  BY DEF TypeInv, TypeOK
<1>2. /\ render[r].pc = "file" /\ render[r].todo # <<>> /\ g \in render[r].files
      /\ ~Conflict(r, g)
  BY DEF RenderFile, In, TypeInv, RenderInv
<1>3. /\ render'[r].pc = "record" /\ render'[r].files = render[r].files \ {g}
      /\ render'[r].todo = render[r].todo /\ render'[r].scope = render[r].scope
      /\ render'[r].owner = render[r].owner /\ render'[r].force = render[r].force
      /\ render'[r].made.file = g /\ render'[r].made.content = Result(r)
      /\ UNCHANGED <<activations, remote, published, cached, records>>
      /\ tree' = [tree EXCEPT ![g] = Result(r)]
  BY <1>1, <1>2 DEF RenderFile, RenderLocals, catalog
<1>4. Queue(r) BY DEF OnTheWay
<1>5. Queue(r)' /\ Position(r)' = Position(r) BY <1>3, <1>4 DEF Queue, Position
<1>6. Position(r) \in DOMAIN activations /\ activations[Position(r)] = Act(r) BY <1>2, <1>4, QueueHead
<1>7. Pulled(r)' BY <1>2, <1>3 DEF OnTheWay, Pulled, Fetched
<1>8. Act(r)' = Act(r) /\ Result(r)' = Result(r) BY <1>3 DEF Act, Result, Rendering
<1>9. Making(r)' BY <1>1, <1>2, <1>3, <1>8 DEF OnTheWay, Making, Conflict
<1>10. Remembers(r)' BY <1>3 DEF OnTheWay, Remembers, OwnerOf
<1>11. Settling(r)'
  <2> SUFFICES ASSUME NEW p \in render[r].scope, NEW f \in Files, f # g PROVE Settled(r, f, p)'
    BY <1>3 DEF Settling, Underway
  <2>1. Settled(r, f, p) BY <1>2 DEF OnTheWay, Settling, Underway
  <2>2. ASSUME NEW i \in Claims(f, p) PROVE Past(r, f, i)' <=> Past(r, f, i)
    BY <1>2, <1>3, <1>5 DEF Past
  <2>3. Taken(r, f, p)' = Taken(r, f, p) BY <1>3, <2>2 DEF Taken, Claims
  <2> QED BY <1>1, <1>3, <2>1, <2>3, SettledKept
<1> QED BY <1>5, <1>7, <1>9, <1>10, <1>11 DEF OnTheWay

\* One that records what it committed.
LEMMA SettleRecord ==
  ASSUME TypeInv, NEW r \in Renders, OnTheWay(r), UpdateSourceRecord(r)
  PROVE  OnTheWay(r)'
<1>1. /\ render[r] \in RenderLocals /\ render \in [Renders -> RenderLocals]
      /\ activations \in Seq(Activations) /\ records \in [Files -> Records \cup {NoRec}]
  BY DEF TypeInv, TypeOK
<1>a. PICK g : g = render[r].made.file OBVIOUS
<1>b. PICK new : new = [owner |-> Act(r).profile, hash |-> render[r].made.content] OBVIOUS
<1>2. /\ render[r].pc = "record" /\ render[r].todo # <<>> /\ render[r].made \in Made
      /\ g \in Files /\ new \in Records
  BY <1>a, <1>b, RecordTypes DEF UpdateSourceRecord, In, TypeInv, RenderInv, RecordedTypes
<1>3. /\ render'[r].pc = "file" /\ render'[r].files = render[r].files
      /\ render'[r].todo = render[r].todo /\ render'[r].scope = render[r].scope
      /\ render'[r].force = render[r].force
      /\ render'[r].owner = IF render[r].made.same THEN render[r].owner
                            ELSE [render[r].owner EXCEPT ![g] = Act(r).profile]
      /\ UNCHANGED <<activations, remote, published, cached, tree>>
      /\ records' = [records EXCEPT ![g] = new]
  BY <1>1, <1>2, <1>a, <1>b DEF UpdateSourceRecord, Recorded, RenderLocals, catalog
<1>4. Queue(r) BY DEF OnTheWay
<1>5. Queue(r)' /\ Position(r)' = Position(r) BY <1>2, <1>3, <1>4 DEF Queue, Position
<1>6. Position(r) \in DOMAIN activations /\ activations[Position(r)] = Act(r) BY <1>2, <1>4, QueueHead
<1>7. Position(r) \in Nat /\ DOMAIN activations \subseteq Nat BY <1>1, <1>6
<1>8. Pulled(r)' BY <1>2, <1>3 DEF OnTheWay, Pulled, Fetched
<1>9. Making(r)' BY <1>2, <1>3 DEF OnTheWay, Making, Act
<1>10. /\ g \in Declares[Act(r).profile] \ render[r].files /\ new.hash = Result(r) /\ tree[g] = Result(r)
       /\ ~render[r].force => render[r].owner[g] \in {NoRec, Act(r).profile}
  BY <1>2, <1>a, <1>b DEF OnTheWay, Making
<1>11. OwnerOf(g)' = Act(r).profile /\ g \in Tracked' /\ records'[g].hash = tree'[g]
  <2>1. records'[g] = new /\ new # NoRec BY <1>1, <1>2, <1>3
  <2>2. OwnerOf(g)' = new.owner /\ g \in Tracked' BY <1>2, <1>b, <2>1 DEF OwnerOf, Tracked
  <2> QED BY <1>3, <1>10, <1>b, <2>1, <2>2
<1>12. \A f \in Files \ {g} : records'[f] = records[f] BY <1>1, <1>3
<1>13. Remembers(r)'
  <2> SUFFICES ASSUME ~render[r].force, NEW f \in Files
               PROVE  render'[r].owner[f] \in {NoRec, OwnerOf(f)'}
    BY <1>3 DEF Remembers
  <2>1. render[r].owner \in [Files -> Owners \cup {NoRec}] BY <1>1 DEF RenderLocals
  <2>2. CASE f = g
    <3>1. render'[r].owner[g] \in {NoRec, Act(r).profile} BY <1>2, <1>3, <1>10, <2>1
    <3> QED BY <1>11, <2>2, <3>1 DEF OwnerOf
  <2>3. CASE f # g
    <3>1. render'[r].owner[f] = render[r].owner[f] BY <1>3, <2>1, <2>3
    <3> QED BY <1>12, <2>3, <3>1 DEF OnTheWay, Remembers, OwnerOf
  <2> QED BY <2>2, <2>3
<1>14. Settling(r)'
  <2> SUFFICES ASSUME NEW p \in render[r].scope, NEW f \in Files PROVE Settled(r, f, p)'
    BY <1>3 DEF Settling
  <2>1. ASSUME NEW i \in Claims(f, p) PROVE Past(r, f, i)' <=> Past(r, f, i)
    BY <1>2, <1>3, <1>5 DEF Past
  <2>2. Taken(r, f, p)' = Taken(r, f, p) BY <1>3, <2>1 DEF Taken, Claims
  <2>3. CASE f # g
    <3>1. Settled(r, f, p) BY <2>3, <1>a DEF OnTheWay, Settling, Underway
    <3> QED BY <1>3, <1>12, <2>2, <2>3, <3>1, SettledKept
  <2>4. CASE f = g /\ p # Act(r).profile
    <3>1. OwnerOf(f)' # p /\ f \in Tracked' BY <1>11, <2>4 DEF OwnerOf
    <3> QED BY <3>1 DEF Settled
  <2>5. CASE f = g /\ p = Act(r).profile
    <3>1. Position(r) \in Taken(r, f, p)
      BY <1>2, <1>6, <1>10, <2>5 DEF Taken, Claims, Past
    <3>2. \A i \in Taken(r, f, p) : i \in Nat /\ i <= Position(r) BY <1>7 DEF Taken, Claims, Past
    <3> SUFFICES ASSUME NEW last \in Taken(r, f, p), \A i \in Taken(r, f, p) : i <= last
                 PROVE  tree'[g] = Rendering(activations[last], cached)
      BY <1>3, <1>11, <2>2, <2>5 DEF Settled, Rendering
    <3>3. last = Position(r) BY <1>7, <3>1, <3>2
    <3> QED BY <1>3, <1>6, <1>10, <3>3 DEF Result
  <2> QED BY <2>3, <2>4, <2>5
<1> QED BY <1>5, <1>8, <1>9, <1>13, <1>14 DEF OnTheWay

\* The invariant is kept.
LEMMA SettleStep ==
  ASSUME TypeInv, SettleInv, [Next]_vars
  PROVE  SettleInv'
<1> SUFFICES ASSUME NEW r \in Renders, r \in alone', render'[r].pc # "idle", render'[r].whole
             PROVE  OnTheWay(r)'
  BY DEF SettleInv
<1>1. render[r] \in RenderLocals /\ render \in [Renders -> RenderLocals] BY DEF TypeInv, TypeOK
<1>2. CASE UNCHANGED vars
  <2>1. OnTheWay(r) BY <1>2 DEF vars, SettleInv
  <2>2. Queue(r)' BY <1>2, <2>1 DEF vars, OnTheWay, Queue, Position
  <2>3. Pulled(r)' BY <1>2, <2>1 DEF vars, OnTheWay, Pulled, Position, Fetched
  <2>4. Making(r)' BY <1>2, <2>1 DEF vars, OnTheWay, Making, Act, Result, Rendering
  <2>5. Remembers(r)' BY <1>2, <2>1 DEF vars, OnTheWay, Remembers, OwnerOf
  <2>6. ASSUME NEW p, NEW f \in Files PROVE Settled(r, f, p)' <=> Settled(r, f, p)
    BY <1>2 DEF vars, Settled, Taken, Claims, Past, Position, Tracked, OwnerOf, Rendering
  <2>7. Settling(r)' BY <1>2, <2>1, <2>6 DEF vars, OnTheWay, Settling, Underway
  <2> QED BY <2>2, <2>3, <2>4, <2>5, <2>7 DEF OnTheWay
<1>3. CASE RenderStarts(r) BY <1>3, SettleLoad
<1>4. ASSUME r \in alone, render[r].pc # "idle", render'[r].whole = render[r].whole
      PROVE  OnTheWay(r)
  BY <1>4 DEF SettleInv
<1>5. CASE r \in alone /\ (RenderSkips(r) \/ RenderNext(r))
  <2>1. Continue(r) /\ render[r].pc \in {"pull", "file"} /\ UNCHANGED <<catalog, tree, records>>
    BY <1>5 DEF RenderSkips, RenderNext, In
  <2>2. Act(r).profile \in render[r].scope => render[r].pc = "file" /\ render[r].files = {}
    BY <1>5 DEF RenderSkips, RenderNext, In
  <2>3. render'[r].whole = render[r].whole BY <1>1, <2>1 DEF Continue, RenderLocals
  <2> QED BY <1>4, <1>5, <2>1, <2>2, <2>3, SettleContinue
<1>6. CASE r \in alone /\ EnsureSourceRepo(r)
  <2>1. render'[r].whole = render[r].whole /\ render[r].pc # "idle"
    BY <1>1, <1>6 DEF EnsureSourceRepo, In, RenderLocals
  <2> QED BY <1>4, <1>6, <2>1, SettlePull
<1>7. ASSUME r \in alone, NEW g \in Files, Refuse(r, g) \/ RenderFile(r, g) PROVE OnTheWay(r)'
  <2>1. render'[r].whole = render[r].whole /\ render[r].pc # "idle"
    <3>1. CASE Refuse(r, g) BY <1>1, <3>1 DEF Refuse, In, RenderLocals
    <3>2. CASE RenderFile(r, g) BY <1>1, <3>2 DEF RenderFile, In, RenderLocals
    <3> QED BY <1>7, <3>1, <3>2
  <2> QED BY <1>4, <1>7, <2>1, SettleRefuse, SettleFile
<1>8. CASE r \in alone /\ UpdateSourceRecord(r)
  <2>1. render'[r].whole = render[r].whole /\ render[r].pc # "idle"
    BY <1>1, <1>8 DEF UpdateSourceRecord, Recorded, In, RenderLocals
  <2> QED BY <1>4, <1>8, <2>1, SettleRecord
<1>9. ~UpdateSourceRecordFails(r)
  <2> SUFFICES ASSUME UpdateSourceRecordFails(r) PROVE FALSE OBVIOUS
  <2>1. PICK l \in RenderLocals : Recorded(r) = [render EXCEPT ![r] = l]
    BY RecordTypes DEF UpdateSourceRecordFails, In, RecordedTypes
  <2> QED BY <1>1, <2>1 DEF UpdateSourceRecordFails, RenderLocals
<1>10. ~RenderReturn(r) /\ ~RenderFails(r) BY <1>1 DEF RenderReturn, RenderFails, IdleRender
<1> QED BY <1>2, <1>3, <1>5, <1>6, <1>7, <1>8, <1>9, <1>10, AloneStep DEF RenderStep

\* RenderSettles of Sources (SourceRender, sources.go:449): an undisturbed
\* render no step of which failed leaves every file of its profiles tracked,
\* and a file that it owns with the branch and the recorded hash of the last
\* activation that declares it, however often profiles claim the same files.
THEOREM UndisturbedRenderSettles == Spec => []RenderSettles
<1>1. Init => TypeInv /\ SettleInv
  <2>1. Init => SettleInv BY DEF Init, SettleInv
  <2> QED BY <2>1, TypeInit
<1>2. TypeInv /\ SettleInv /\ [Next]_vars => (TypeInv /\ SettleInv)' BY TypeStep, SettleStep
<1>3. TypeInv /\ SettleInv => RenderSettles
  <2> SUFFICES ASSUME TypeInv, SettleInv, NEW r \in alone \cap Renders, render[r].pc = "done",
                      render[r].whole, NEW p \in render[r].scope, NEW f \in Files
               PROVE  Settled(r, f, p) /\ Taken(r, f, p) = Claims(f, p)
    BY DEF RenderSettles, Settled
  <2>1. OnTheWay(r) BY DEF SettleInv
  <2>2. Settled(r, f, p) BY <2>1 DEF OnTheWay, Settling, Underway
  <2>3. activations \in Seq(Activations) BY DEF TypeInv, TypeOK
  <2>4. Len(activations) \in Nat /\ DOMAIN activations = 1..Len(activations) BY <2>3
  <2>5. Len(render[r].todo) = 0 BY <2>1 DEF OnTheWay, Queue
  <2>6. Position(r) = Len(activations) + 1 BY <2>4, <2>5 DEF Position
  <2>7. \A i \in DOMAIN activations : i < Position(r) BY <2>4, <2>6
  <2> QED BY <2>2, <2>7 DEF Taken, Claims, Past
<1> QED BY <1>1, <1>2, <1>3, PTL DEF Spec
=============================================================================
