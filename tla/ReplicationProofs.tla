------------------------- MODULE ReplicationProofs -------------------------
(***************************************************************************)
(* Proofs about Replication, for any machines, files, processes and kinds  *)
(* of remotes: its types, that --local files stay on their machine, that   *)
(* what was pushed stays on the server, and that a machine which only      *)
(* follows never gets ahead of its publishers.                             *)
(***************************************************************************)
EXTENDS Replication, SequenceTheorems, TLAPS

USE DEF Files, Refs

-----------------------------------------------------------------------------
(* Local variables of the commands.                                        *)

\* What a process is before and after its commands.
LEMMA IdleTypes == Idle \in Locals /\ Idle.file = NoFile /\ Idle.left = {}
BY EmptySeq DEF Idle, Locals, Commands

\* The phases of a command.
LEMMA ProgramTypes ==
  ASSUME kind \in Kinds, NEW m \in Machines, NEW cmd \in Commands
  PROVE  Program(m, cmd) \in Seq(Phases)
<1>1. /\ <<>> \in Seq(Phases) /\ <<"apply">> \in Seq(Phases) /\ <<"init">> \in Seq(Phases)
      /\ <<"clone">> \in Seq(Phases) /\ <<"seed", "apply">> \in Seq(Phases)
  BY DEF Phases
<1>2. Sync \in Seq(Phases) BY DEF Sync, Phases
<1>3. Pulling \in Seq(Phases)
  <2>1. <<"fetch">> \in Seq(Phases) /\ <<"download", "import">> \in Seq(Phases) BY DEF Phases
  <2> QED BY <2>1 DEF Pulling
<1>4. Pushing \in Seq(Phases)
  <2>1. /\ <<"push">> \in Seq(Phases) /\ <<"export", "publish">> \in Seq(Phases)
        /\ <<"export", "truncate", "publish">> \in Seq(Phases)
    BY DEF Phases
  <2> QED BY <2>1, ReplicationAssumption DEF Pushing
<1>5. Setup(m) \in Seq(Phases) BY <1>1, <1>3 DEF Setup
<1>6. /\ Pulling \o Sync \in Seq(Phases) /\ Pulling \o <<"apply">> \in Seq(Phases)
      /\ Setup(m) \o <<"seed", "apply">> \in Seq(Phases) /\ Sync \o Pushing \in Seq(Phases)
  BY <1>1, <1>2, <1>3, <1>4, <1>5
<1> QED BY <1>2, <1>6 DEF Program

\* Goto, Done and GiveUp leave well-typed locals behind.
LEMMA GotoTypes ==
  ASSUME work \in [Procs -> Locals], NEW p \in Procs, NEW local \in Locals, Goto(p, local)
  PROVE  work' \in [Procs -> Locals]
BY IdleTypes DEF Goto

LEMMA DoneTypes ==
  ASSUME work \in [Procs -> Locals], NEW p \in Procs, work[p].todo # <<>>, Done(p)
  PROVE  work' \in [Procs -> Locals]
<1>1. Tail(work[p].todo) \in Seq(Phases) BY DEF Locals
<1>2. [work[p] EXCEPT !.todo = Tail(@)] \in Locals BY <1>1 DEF Locals
<1> QED BY <1>2, GotoTypes DEF Done

LEMMA GiveUpTypes ==
  ASSUME work \in [Procs -> Locals], NEW p \in Procs, GiveUp(p)
  PROVE  work' \in [Procs -> Locals]
<1> DEFINE todo == work[p].todo
           from == IF Head(todo) = "download" THEN 3 ELSE 2
           left == IF work[p].cmd \in {"sync --pull", "deploy"} /\ Head(todo) \in {"fetch", "download", "import"}
                   THEN SubSeq(todo, from, Len(todo)) ELSE <<>>
<1>1. todo \in Seq(Phases) BY DEF Locals
<1>2. SubSeq(todo, from, Len(todo)) \in Seq(Phases)
  <2>1. CASE from = 3 BY <1>1, <2>1
  <2>2. CASE from = 2 BY <1>1, <2>2
  <2> QED BY <2>1, <2>2
<1>3. left \in Seq(Phases)
  <2>1. <<>> \in Seq(Phases) OBVIOUS
  <2> HIDE DEF todo, from
  <2> QED BY <1>2, <2>1
<1>4. [work[p] EXCEPT !.todo = left] \in Locals
  <2> HIDE DEF left
  <2> QED BY <1>3 DEF Locals
<1>5. Goto(p, [work[p] EXCEPT !.todo = left]) BY DEF GiveUp
<1> HIDE DEF left
<1> QED BY <1>4, <1>5, GotoTypes

\* Every process keeps its bundle and the refs it has left to import, or
\* forgets both.
Keeps ==
  \A q \in Procs :
    \/ work'[q].file = work[q].file /\ work'[q].left = work[q].left
    \/ work'[q].file = NoFile /\ work'[q].left = {}

LEMMA GotoKeeps ==
  ASSUME work \in [Procs -> Locals], NEW p \in Procs, NEW local \in Locals,
         local.file = work[p].file, local.left = work[p].left, Goto(p, local)
  PROVE  Keeps
BY IdleTypes DEF Goto, Keeps

LEMMA DoneKeeps ==
  ASSUME work \in [Procs -> Locals], NEW p \in Procs, Done(p)
  PROVE  Keeps
<1>1. work[p] \in Locals OBVIOUS
<1>2. /\ [work[p] EXCEPT !.todo = Tail(@)].file = work[p].file
      /\ [work[p] EXCEPT !.todo = Tail(@)].left = work[p].left
  BY <1>1 DEF Locals
<1> QED BY <1>2, IdleTypes DEF Done, Goto, Keeps

LEMMA GiveUpKeeps ==
  ASSUME work \in [Procs -> Locals], NEW p \in Procs, GiveUp(p)
  PROVE  Keeps
<1>1. PICK todo : Goto(p, [work[p] EXCEPT !.todo = todo]) BY DEF GiveUp
<1>2. /\ [work[p] EXCEPT !.todo = todo].file = work[p].file
      /\ [work[p] EXCEPT !.todo = todo].left = work[p].left
  BY DEF Locals
<1> QED BY <1>1, <1>2, IdleTypes DEF Goto, Keeps

-----------------------------------------------------------------------------
(* Type correctness.                                                       *)

\* What the operators of the model return.
LEMMA OperatorTypes ==
  ASSUME TypeOK, NEW m \in Machines
  PROVE  /\ Tracked(m) \subseteq Files /\ Missing(m) \subseteq Tracked(m) /\ Dirty(m) \subseteq Tracked(m)
         /\ Changed(m) \subseteq Files /\ Leaves(m) \subseteq Pushable
         /\ Pushable \subseteq Refs /\ Sent(m) \in Exports
<1>1. repo[m] \in Exports BY DEF TypeOK
<1>2. \A r \in Refs : repo[m][r] \in Seq(Commits) BY <1>1 DEF Exports
<1>3. \A r \in Refs : (IF r \in Leaves(m) THEN repo[m][r] ELSE <<>>) \in Seq(Commits) BY <1>2
<1>4. Sent(m) \in Exports BY <1>3 DEF Sent, Exports
<1> QED BY <1>4 DEF Tracked, Missing, Dirty, Changed, Leaves, Pushable

\* What is in a tip.
LEMMA TipTypes ==
  ASSUME TypeOK, NEW m \in Machines
  PROVE  (\A f \in Files : Tip(m, f) \in Content) /\ Listed(m) \subseteq Files
<1>1. \A r \in Refs : repo[m][r] \in Seq(Commits) BY DEF TypeOK, Exports
<1>2. \A r \in Refs : repo[m][r] # <<>> => Last(repo[m][r]) \in Commits BY <1>1 DEF Last
<1>3. \A c \in Commits : c.content \in Content /\ c.lists \subseteq Files BY DEF Commits
<1> QED BY <1>2, <1>3 DEF Tip, Listed, Content

\* A commit on some of the branches of a machine.
LEMMA ExtendTypes ==
  ASSUME TypeOK, NEW m \in Machines, NEW refs \in SUBSET Refs, NEW content \in [Files -> Content],
         NEW lists \in SUBSET Files, Extend(m, refs, content, lists)
  PROVE  repo' \in [Machines -> Exports]
<1> DEFINE new(r) == [by |-> m, content |-> IF r \in Files THEN content[r] ELSE Gone, lists |-> lists]
<1>1. \A r \in Refs : new(r) \in Commits BY DEF Commits, Content
<1>2. \A r \in Refs : repo[m][r] \in Seq(Commits) BY DEF TypeOK, Exports
<1>3. repo' = [repo EXCEPT ![m] = [r \in Refs |-> IF r \in refs THEN Append(repo[m][r], new(r)) ELSE repo[m][r]]]
  BY DEF Extend, TypeOK
<1> HIDE DEF new
<1>4. \A r \in Refs : Append(repo[m][r], new(r)) \in Seq(Commits) BY <1>1, <1>2
<1>5. [r \in Refs |-> IF r \in refs THEN Append(repo[m][r], new(r)) ELSE repo[m][r]] \in Exports
  BY <1>2, <1>4 DEF Exports
<1> QED BY <1>3, <1>5 DEF TypeOK

\* Every step keeps every variable in its type.
LEMMA TypeStep ==
  ASSUME TypeOK, FileInv, [Next]_vars
  PROVE  TypeOK'
<1>0. work \in [Procs -> Locals] /\ MaxOps[kind] \in Nat /\ MaxFailures[kind] \in Nat
  BY ReplicationAssumption DEF TypeOK
<1> \A p \in Procs : MachineOf[p] \in Machines BY ReplicationAssumption
<1>1. ASSUME NEW m \in Machines, NEW f \in Files, NEW content \in Content, Write(m, f, content) PROVE TypeOK'
  <2>1. disk' \in [Machines -> [Files -> Content]] BY <1>1 DEF TypeOK, Write
  <2>2. ops' \in 0..MaxOps[kind] BY <1>0, <1>1 DEF TypeOK, Write, CanOp
  <2>3. pending' \subseteq Machines BY <1>1 DEF TypeOK, Write
  <2> QED BY <1>1, <2>1, <2>2, <2>3 DEF TypeOK, Write, remoteVars
<1>2. ASSUME NEW t \in Touched, Edit(t[1], t[2]) PROVE TypeOK'
  <2>1. t[1] \in Machines /\ t[2] \in Files BY ReplicationAssumption
  <2>2. ops + 1 \in Content BY DEF TypeOK, Content, Contents
  <2> QED BY <1>1, <1>2, <2>1, <2>2 DEF Edit
<1>3. ASSUME NEW t \in Touched, Delete(t[1], t[2]) PROVE TypeOK'
  <2>1. t[1] \in Machines /\ t[2] \in Files BY ReplicationAssumption
  <2> QED BY <1>1, <1>3, <2>1 DEF Delete, Content
<1>4. ASSUME NEW t \in Touched, Track(t[1], t[2]) PROVE TypeOK'
  <2>1. t[1] \in Machines /\ t[2] \in Files BY ReplicationAssumption
  <2>2. disk[t[1]][t[2]] \in Contents BY <1>4, <2>1 DEF TypeOK, Track, Content
  <2>3. recorded' \in [Machines -> [Files -> Contents \cup {Unknown, Untracked}]]
    BY <1>4, <2>1, <2>2 DEF TypeOK, Track
  <2>4. ops' \in 0..MaxOps[kind] BY <1>0, <1>4 DEF TypeOK, Track, CanOp
  <2> QED BY <1>4, <2>3, <2>4 DEF TypeOK, Track, remoteVars
<1>5. ASSUME NEW p \in Procs, NEW cmd \in Commands, Begin(p, cmd) PROVE TypeOK'
  <2>1. Program(MachineOf[p], cmd) \in Seq(Phases) BY ProgramTypes DEF TypeOK
  <2>2. [Idle EXCEPT !.cmd = cmd, !.todo = Program(MachineOf[p], cmd)] \in Locals
    BY <2>1, IdleTypes DEF Locals
  <2>3. work' \in [Procs -> Locals] BY <1>0, <1>5, <2>2 DEF Begin
  <2> QED BY <1>5, <2>3 DEF TypeOK, Begin, remoteVars
<1>6. ASSUME NEW p \in Procs, WatchStart(p) PROVE TypeOK'
  BY <1>6, OperatorTypes DEF TypeOK, WatchStart, remoteVars
<1>7. ASSUME NEW p \in Procs, Fail(p) PROVE TypeOK'
  <2>1. work' \in [Procs -> Locals] BY <1>0, <1>7, GiveUpTypes, IdleTypes DEF Fail
  <2>2. failures' \in 0..MaxFailures[kind] BY <1>0, <1>7 DEF Fail, TypeOK
  <2> QED BY <1>7, <2>1, <2>2 DEF TypeOK, Fail, remoteVars, machineVars
<1>8. ASSUME NEW p \in Procs, Commit(p) PROVE TypeOK'
  <2> DEFINE m == MachineOf[p]
  <2>1. disk[m] \in [Files -> Content] BY DEF TypeOK
  <2>2. repo' \in [Machines -> Exports] BY <1>8, <2>1, ExtendTypes, OperatorTypes DEF Commit
  <2>3. recorded' \in [Machines -> [Files -> Contents \cup {Unknown, Untracked}]]
    <3>1. \A f \in Tracked(m) \ Missing(m) : disk[m][f] \in Contents
      BY <2>1, OperatorTypes DEF Missing, Content
    <3>2. [f \in Files |-> IF f \in Tracked(m) \ Missing(m) THEN disk[m][f] ELSE Untracked]
            \in [Files -> Contents \cup {Unknown, Untracked}]
      BY <3>1
    <3> QED BY <1>8, <3>2 DEF TypeOK, Commit
  <2>4. work' \in [Procs -> Locals]
    <3> DEFINE local == [work[p] EXCEPT !.todo = Tail(@), !.listed = Tracked(m),
                                        !.made = Missing(m) \cup Changed(m) # {}]
    <3>1. Tail(work[p].todo) \in Seq(Phases) BY <1>0, <1>8 DEF Commit, At, Locals
    <3>2. local \in Locals BY <1>0, <3>1, OperatorTypes DEF Locals
    <3>3. Goto(p, local) BY <1>8 DEF Commit
    <3> QED BY <1>0, <3>2, <3>3, GotoTypes
  <2> QED BY <1>8, <2>2, <2>3, <2>4 DEF TypeOK, Commit, remoteVars
<1>9. ASSUME NEW p \in Procs, WriteManifest(p) PROVE TypeOK'
  <2>1. disk[MachineOf[p]] \in [Files -> Content] BY DEF TypeOK
  <2>2. work[p].listed \in SUBSET Files BY <1>0 DEF Locals
  <2>3. repo' \in [Machines -> Exports]
    BY <1>9, <2>1, <2>2, ExtendTypes DEF WriteManifest, TypeOK
  <2>4. work' \in [Procs -> Locals]
    BY <1>0, <1>9, DoneTypes, GotoTypes, IdleTypes DEF WriteManifest, At
  <2> QED BY <1>9, <2>3, <2>4 DEF TypeOK, WriteManifest, remoteVars
<1>10. ASSUME NEW p \in Procs, Apply(p) PROVE TypeOK'
  <2> DEFINE m     == MachineOf[p]
             taken == {f \in Tracked(m) \ Dirty(m) : Tip(m, f) # Gone}
             tips  == [f \in Files |-> IF f \in taken THEN Tip(m, f) ELSE disk[m][f]]
  <2>1. tips \in [Files -> Content] BY TipTypes DEF TypeOK
  <2>2. disk' = [disk EXCEPT ![m] = tips] BY <1>10 DEF Apply
  <2>3. disk' \in [Machines -> [Files -> Content]] /\ disk'[m] = tips
    <3> HIDE DEF tips
    <3> QED BY <2>1, <2>2 DEF TypeOK
  <2>4. recorded' \in [Machines -> [Files -> Contents \cup {Unknown, Untracked}]]
    <3>1. CASE taken # Tracked(m) \ Dirty(m)
      BY <1>10, <3>1 DEF Apply, TypeOK
    <3>2. CASE taken = Tracked(m) \ Dirty(m)
      <4>1. \A f \in Tracked(m) : tips[f] # Gone BY <3>2, OperatorTypes DEF Dirty
      <4>2. [f \in Files |-> IF f \in Tracked(m) THEN tips[f] ELSE Untracked]
              \in [Files -> Contents \cup {Unknown, Untracked}]
        <5> HIDE DEF tips
        <5> QED BY <2>1, <4>1 DEF Content
      <4>3. recorded' = [recorded EXCEPT ![m] = [f \in Files |-> IF f \in Tracked(m) THEN disk'[m][f] ELSE Untracked]]
        BY <1>10, <3>2 DEF Apply
      <4> QED BY <2>3, <4>2, <4>3 DEF TypeOK
    <3> QED BY <3>1, <3>2
  <2>5. work' \in [Procs -> Locals] BY <1>0, <1>10, DoneTypes DEF Apply, At
  <2>6. pending' \subseteq Machines BY <1>10 DEF Apply, TypeOK
  <2> QED BY <1>10, <2>3, <2>4, <2>5, <2>6 DEF TypeOK, Apply, remoteVars
<1>11. ASSUME NEW p \in Procs, Push(p) PROVE TypeOK'
  <2> DEFINE m == MachineOf[p]
             force == work[p].cmd = "sync --push --force"
             accepted == {r \in Leaves(m) : force \/ IsPrefix(server[r], repo[m][r])}
  <2>1. server' \in Exports
    <3>1. server' = [r \in Refs |-> IF r \in accepted THEN repo[m][r] ELSE server[r]] BY <1>11 DEF Push
    <3> HIDE DEF accepted
    <3> QED BY <3>1 DEF TypeOK, Exports
  <2>2. acked' \in [Machines -> Exports]
    <3>1. CASE Ack(m, force)
      <4>1. \A n \in Machines : acked[n] \in Exports /\
              [r \in Refs |-> IF force /\ r \in Leaves(m) THEN <<>> ELSE acked[n][r]] \in Exports
        <5> HIDE DEF force
        <5> QED BY DEF TypeOK, Exports
      <4> HIDE DEF force, m
      <4>2. m \in Machines BY DEF m
      <4> QED BY <3>1, <4>1, <4>2, OperatorTypes DEF Ack
    <3>2. CASE acked' = acked BY <3>2 DEF TypeOK
    <3> QED BY <1>11, <3>1, <3>2 DEF Push
  <2>3. work' \in [Procs -> Locals] BY <1>0, <1>11, DoneTypes, GiveUpTypes DEF Push, At
  <2> QED BY <1>11, <2>1, <2>2, <2>3 DEF TypeOK, Push, machineVars
<1>12. ASSUME NEW p \in Procs, Export(p) PROVE TypeOK'
  <2> DEFINE m == MachineOf[p]
             local == [work[p] EXCEPT !.todo = Tail(@), !.file = Sent(m)]
  <2>1. Tail(work[p].todo) \in Seq(Phases) BY <1>0, <1>12 DEF Export, At, Locals
  <2>2. Sent(m) \in Exports BY OperatorTypes
  <2>3. local \in Locals BY <1>0, <2>1, <2>2 DEF Locals
  <2>4. GiveUp(p) \/ Goto(p, local) BY <1>12 DEF Export
  <2>5. work' \in [Procs -> Locals] BY <1>0, <2>3, <2>4, GotoTypes, GiveUpTypes
  <2> QED BY <1>12, <2>5 DEF TypeOK, Export, remoteVars, machineVars
<1>13. ASSUME NEW p \in Procs, Truncate(p) PROVE TypeOK'
  <2>1. work' \in [Procs -> Locals] BY <1>0, <1>13, DoneTypes DEF Truncate, At
  <2> QED BY <1>13, <2>1 DEF TypeOK, Truncate, machineVars
<1>14. ASSUME NEW p \in Procs, Publish(p) PROVE TypeOK'
  <2>1. work' \in [Procs -> Locals] BY <1>0, <1>14, DoneTypes DEF Publish, At
  <2>2. bundle' \in Exports \cup {NoFile, Torn} BY <1>0, <1>14 DEF Publish, Locals
  <2> QED BY <1>14, <2>1, <2>2 DEF TypeOK, Publish, machineVars
<1>15. ASSUME NEW p \in Procs, Fetch(p) PROVE TypeOK'
  <2>1. work' \in [Procs -> Locals] BY <1>0, <1>15, DoneTypes, GiveUpTypes DEF Fetch, At
  <2> QED BY <1>15, <2>1 DEF TypeOK, Fetch, remoteVars, machineVars
<1>16. ASSUME NEW p \in Procs, Download(p) PROVE TypeOK'
  <2> DEFINE local == [work[p] EXCEPT !.todo = Tail(@), !.file = bundle, !.left = {r \in Refs : bundle[r] # <<>>}]
  <2>1. CASE bundle \in {NoFile, Torn}
    <3>1. work' \in [Procs -> Locals] BY <1>0, <1>16, <2>1, GiveUpTypes DEF Download
    <3> QED BY <1>16, <3>1 DEF TypeOK, Download, remoteVars, machineVars
  <2>2. CASE bundle \notin {NoFile, Torn}
    <3>1. bundle \in Exports BY <2>2 DEF TypeOK
    <3>2. Tail(work[p].todo) \in Seq(Phases) BY <1>0, <1>16 DEF Download, At, Locals
    <3>3. local \in Locals BY <1>0, <3>1, <3>2 DEF Locals
    <3>4. Goto(p, local) BY <1>16, <2>2 DEF Download
    <3>5. work' \in [Procs -> Locals] BY <1>0, <3>3, <3>4, GotoTypes
    <3> QED BY <1>16, <3>5 DEF TypeOK, Download, remoteVars, machineVars
  <2> QED BY <2>1, <2>2
<1>17. ASSUME NEW p \in Procs, Import(p) PROVE TypeOK'
  <2>1. PICK r \in work[p].left :
          /\ repo' = [repo EXCEPT ![MachineOf[p]][r] = work[p].file[r]]
          /\ IF work[p].left = {r}
             THEN Goto(p, [work[p] EXCEPT !.todo = Tail(@), !.file = NoFile, !.left = {}])
             ELSE Goto(p, [work[p] EXCEPT !.left = @ \ {r}])
    BY <1>17 DEF Import
  <2>2. r \in Refs /\ work[p].file \in Exports BY <1>0, <2>1 DEF Locals, FileInv
  <2>3. repo' \in [Machines -> Exports] BY <2>1, <2>2 DEF TypeOK, Exports
  <2>4. Tail(work[p].todo) \in Seq(Phases) BY <1>0, <1>17 DEF Import, At, Locals
  <2>5. /\ [work[p] EXCEPT !.todo = Tail(@), !.file = NoFile, !.left = {}] \in Locals
        /\ [work[p] EXCEPT !.left = @ \ {r}] \in Locals
    BY <1>0, <2>4 DEF Locals
  <2>6. work' \in [Procs -> Locals] BY <1>0, <2>1, <2>5, GotoTypes
  <2> QED BY <1>17, <2>3, <2>6 DEF TypeOK, Import, remoteVars
<1>18. ASSUME NEW p \in Procs, InitRepo(p) PROVE TypeOK'
  <2>1. work' \in [Procs -> Locals] BY <1>0, <1>18, DoneTypes DEF InitRepo, At
  <2> QED BY <1>18, <2>1 DEF TypeOK, InitRepo, remoteVars
<1>19. ASSUME NEW p \in Procs, CloneRepo(p) PROVE TypeOK'
  <2>1. work' \in [Procs -> Locals] BY <1>0, <1>19, DoneTypes DEF CloneRepo, At
  <2>2. repo' \in [Machines -> Exports] BY <1>19 DEF TypeOK, CloneRepo
  <2> QED BY <1>19, <2>1, <2>2 DEF TypeOK, CloneRepo, remoteVars
<1>20. ASSUME NEW p \in Procs, Seed(p) PROVE TypeOK'
  <2>1. work' \in [Procs -> Locals] BY <1>0, <1>20, DoneTypes DEF Seed, At
  <2>2. recorded' \in [Machines -> [Files -> Contents \cup {Unknown, Untracked}]]
    BY <1>20 DEF TypeOK, Seed
  <2> QED BY <1>20, <2>1, <2>2 DEF TypeOK, Seed, remoteVars
<1>21. CASE UNCHANGED vars BY <1>21 DEF TypeOK, vars, remoteVars, machineVars
<1> QED BY <1>2, <1>3, <1>4, <1>5, <1>6, <1>7, <1>8, <1>9, <1>10, <1>11, <1>12, <1>13, <1>14,
  <1>15, <1>16, <1>17, <1>18, <1>19, <1>20, <1>21 DEF Next, Step

-----------------------------------------------------------------------------
(* What a command carries.                                                 *)

\* A command keeps its bundle, forgets it, exports or downloads one.
LEMMA FilesMove ==
  ASSUME TypeOK, [Next]_vars, NEW q \in Procs
  PROVE  \/ work'[q].file = work[q].file /\ work'[q].left \subseteq work[q].left
         \/ work'[q].file = NoFile /\ work'[q].left = {}
         \/ work'[q].file = Sent(MachineOf[q])
         \/ bundle \notin {NoFile, Torn} /\ work'[q].file = bundle
<1> DEFINE Goal == \/ work'[q].file = work[q].file /\ work'[q].left \subseteq work[q].left
                   \/ work'[q].file = NoFile /\ work'[q].left = {}
                   \/ work'[q].file = Sent(MachineOf[q])
                   \/ bundle \notin {NoFile, Torn} /\ work'[q].file = bundle
<1>0. work \in [Procs -> Locals] BY DEF TypeOK
<1>1. ASSUME Keeps PROVE Goal BY <1>1 DEF Keeps
<1>2. ASSUME NEW p \in Procs, \E cmd \in Commands : Begin(p, cmd) PROVE Goal
  <2>1. PICK cmd, todo : work' = [work EXCEPT ![p] = [Idle EXCEPT !.cmd = cmd, !.todo = todo]]
    BY <1>2 DEF Begin
  <2>2. /\ [Idle EXCEPT !.cmd = cmd, !.todo = todo].file = NoFile
        /\ [Idle EXCEPT !.cmd = cmd, !.todo = todo].left = {}
    BY DEF Idle
  <2> QED BY <1>0, <2>1, <2>2
<1>3. ASSUME NEW p \in Procs, Fail(p) PROVE Goal
  <2>1. CASE GiveUp(p) BY <1>0, <1>1, <2>1, GiveUpKeeps
  <2>2. CASE work' = [work EXCEPT ![p] = Idle] BY <1>0, <2>2, IdleTypes
  <2> QED BY <1>3, <2>1, <2>2 DEF Fail
<1>4. ASSUME NEW p \in Procs, Commit(p) PROVE Goal
  <2>1. PICK todo, listed, made :
          Goto(p, [work[p] EXCEPT !.todo = todo, !.listed = listed, !.made = made])
    BY <1>4 DEF Commit
  <2>2. /\ [work[p] EXCEPT !.todo = todo, !.listed = listed, !.made = made].file = work[p].file
        /\ [work[p] EXCEPT !.todo = todo, !.listed = listed, !.made = made].left = work[p].left
    BY <1>0 DEF Locals
  <2> QED BY <1>0, <2>1, <2>2, IdleTypes DEF Goto
<1>5. ASSUME NEW p \in Procs, WriteManifest(p) PROVE Goal
  <2>1. CASE Done(p) BY <1>0, <1>1, <2>1, DoneKeeps
  <2>2. CASE Goto(p, Idle) BY <1>0, <2>2, IdleTypes DEF Goto
  <2> QED BY <1>5, <2>1, <2>2 DEF WriteManifest
<1>6. ASSUME NEW p \in Procs,
             Apply(p) \/ Truncate(p) \/ Publish(p) \/ InitRepo(p) \/ CloneRepo(p) \/ Seed(p)
      PROVE  Goal
  <2>1. Done(p) BY <1>6 DEF Apply, Truncate, Publish, InitRepo, CloneRepo, Seed
  <2> QED BY <1>0, <1>1, <2>1, DoneKeeps
<1>7. ASSUME NEW p \in Procs, Push(p) \/ Fetch(p) PROVE Goal
  <2>1. Done(p) \/ GiveUp(p) BY <1>7 DEF Push, Fetch
  <2> QED BY <1>0, <1>1, <2>1, DoneKeeps, GiveUpKeeps
<1>8. ASSUME NEW p \in Procs, Export(p) PROVE Goal
  <2>1. CASE GiveUp(p) BY <1>0, <1>1, <2>1, GiveUpKeeps
  <2>2. CASE Goto(p, [work[p] EXCEPT !.todo = Tail(@), !.file = Sent(MachineOf[p])])
    <3>1. [work[p] EXCEPT !.todo = Tail(@), !.file = Sent(MachineOf[p])].file = Sent(MachineOf[p])
      BY <1>0 DEF Locals
    <3> QED BY <1>0, <2>2, <3>1, IdleTypes DEF Goto
  <2> QED BY <1>8, <2>1, <2>2 DEF Export
<1>9. ASSUME NEW p \in Procs, Download(p) PROVE Goal
  <2>1. CASE GiveUp(p) BY <1>0, <1>1, <2>1, GiveUpKeeps
  <2>2. CASE bundle \notin {NoFile, Torn}
    <3>1. PICK left : Goto(p, [work[p] EXCEPT !.todo = Tail(@), !.file = bundle, !.left = left])
      BY <1>9, <2>2 DEF Download
    <3>2. [work[p] EXCEPT !.todo = Tail(@), !.file = bundle, !.left = left].file = bundle
      BY <1>0 DEF Locals
    <3> QED BY <1>0, <2>2, <3>1, <3>2, IdleTypes DEF Goto
  <2> QED BY <1>9, <2>1, <2>2 DEF Download
<1>10. ASSUME NEW p \in Procs, Import(p) PROVE Goal
  <2>1. CASE Goto(p, [work[p] EXCEPT !.todo = Tail(@), !.file = NoFile, !.left = {}])
    <3>1. /\ [work[p] EXCEPT !.todo = Tail(@), !.file = NoFile, !.left = {}].file = NoFile
          /\ [work[p] EXCEPT !.todo = Tail(@), !.file = NoFile, !.left = {}].left = {}
      BY <1>0 DEF Locals
    <3> QED BY <1>0, <2>1, <3>1, IdleTypes DEF Goto
  <2>2. CASE \E r : Goto(p, [work[p] EXCEPT !.left = @ \ {r}])
    <3>1. PICK r : Goto(p, [work[p] EXCEPT !.left = @ \ {r}]) BY <2>2
    <3>2. /\ [work[p] EXCEPT !.left = @ \ {r}].file = work[p].file
          /\ [work[p] EXCEPT !.left = @ \ {r}].left = work[p].left \ {r}
      BY <1>0 DEF Locals
    <3> QED BY <1>0, <3>1, <3>2, IdleTypes DEF Goto
  <2> QED BY <1>10, <2>1, <2>2 DEF Import
<1>11. CASE UNCHANGED work BY <1>11
<1>12. ASSUME NEW t \in Touched, Edit(t[1], t[2]) \/ Delete(t[1], t[2]) \/ Track(t[1], t[2])
       PROVE  UNCHANGED work
  BY <1>12 DEF Edit, Delete, Write, Track
<1>13. ASSUME NEW p \in Procs, WatchStart(p) PROVE UNCHANGED work BY <1>13 DEF WatchStart
<1> QED BY <1>2, <1>3, <1>4, <1>5, <1>6, <1>7, <1>8, <1>9, <1>10, <1>11, <1>12, <1>13
      DEF Next, Step, vars

\* Refs to import come with their bundle.
LEMMA FileStep ==
  ASSUME TypeOK, FileInv, [Next]_vars
  PROVE  FileInv'
<1> SUFFICES ASSUME NEW q \in Procs, work'[q].left # {} PROVE work'[q].file # NoFile
  BY DEF FileInv
<1>1. Sent(MachineOf[q]) \in Exports /\ NoFile \notin Exports
  BY ReplicationAssumption, OperatorTypes
<1> QED BY <1>1, FilesMove DEF FileInv

-----------------------------------------------------------------------------
(* --local files.                                                          *)

\* Nothing that is sent has a local/ branch.
LEMMA SentIsShared ==
  ASSUME NEW m \in Machines, NEW f \in Local
  PROVE  f \in Refs /\ f \notin Leaves(m) /\ Sent(m)[f] = <<>>
BY ReplicationAssumption DEF Leaves, Pushable, Sent

\* A process of machine m is at one of these phases.
Within(m, phases) == \E p \in Procs, phase \in phases : MachineOf[p] = m /\ At(p, phase)

\* A step leaves a branch alone, or a process of its machine commits to it,
\* imports it or clones it.
LEMMA BranchMoves ==
  ASSUME TypeOK, [Next]_vars, NEW m \in Machines, NEW r \in Refs
  PROVE  \/ repo'[m][r] = repo[m][r]
         \/ /\ Within(m, {"commit", "manifest"})
            /\ \E c \in Commits : c.by = m /\ repo'[m][r] = Append(repo[m][r], c)
         \/ /\ Within(m, {"import"})
            /\ \E p \in Procs : r \in work[p].left /\ repo'[m][r] = work[p].file[r]
         \/ Within(m, {"clone"}) /\ repo'[m][r] = server[r]
<1> DEFINE Goal == \/ repo'[m][r] = repo[m][r]
                   \/ /\ Within(m, {"commit", "manifest"})
                      /\ \E c \in Commits : c.by = m /\ repo'[m][r] = Append(repo[m][r], c)
                   \/ /\ Within(m, {"import"})
                      /\ \E p \in Procs : r \in work[p].left /\ repo'[m][r] = work[p].file[r]
                   \/ Within(m, {"clone"}) /\ repo'[m][r] = server[r]
<1>0. repo \in [Machines -> [Refs -> Seq(Commits)]] /\ disk \in [Machines -> [Files -> Content]]
  BY DEF TypeOK, Exports
<1>1. ASSUME NEW n \in Machines, NEW refs, NEW lists \in SUBSET Files, Extend(n, refs, disk[n], lists),
             Within(n, {"commit", "manifest"})
      PROVE  Goal
  <2> DEFINE c == [by |-> n, content |-> IF r \in Files THEN disk[n][r] ELSE Gone, lists |-> lists]
  <2>1. repo'[m][r] = IF m = n /\ r \in refs THEN Append(repo[m][r], c) ELSE repo[m][r]
    BY <1>0, <1>1 DEF Extend
  <2>2. c \in Commits /\ c.by = n BY <1>0 DEF Commits, Content
  <2> HIDE DEF c
  <2> QED BY <1>1, <2>1, <2>2
<1>2. ASSUME NEW p \in Procs, Commit(p) PROVE Goal
  BY <1>1, <1>2, ReplicationAssumption DEF Commit, Within
<1>3. ASSUME NEW p \in Procs, WriteManifest(p) PROVE Goal
  <2>1. work[p].listed \in SUBSET Files BY DEF TypeOK, Locals
  <2>2. MachineOf[p] \in Machines /\ Within(MachineOf[p], {"commit", "manifest"})
    BY <1>3, ReplicationAssumption DEF WriteManifest, Within
  <2>3. repo' = repo \/ Extend(MachineOf[p], {Manifest}, disk[MachineOf[p]], work[p].listed)
    BY <1>3 DEF WriteManifest
  <2> QED BY <1>1, <2>1, <2>2, <2>3
<1>4. ASSUME NEW p \in Procs, Import(p) PROVE Goal
  <2>1. PICK s \in work[p].left : repo' = [repo EXCEPT ![MachineOf[p]][s] = work[p].file[s]]
    BY <1>4 DEF Import
  <2>2. s \in Refs BY DEF TypeOK, Locals
  <2> QED BY <1>0, <1>4, <2>1, <2>2, ReplicationAssumption DEF Import, Within
<1>5. ASSUME NEW p \in Procs, CloneRepo(p) PROVE Goal
  BY <1>0, <1>5, ReplicationAssumption DEF CloneRepo, Within
<1>6. CASE repo' = repo BY <1>6
<1>7. ASSUME NEW t \in Touched, Edit(t[1], t[2]) \/ Delete(t[1], t[2]) \/ Track(t[1], t[2])
      PROVE  repo' = repo
  BY <1>7 DEF Edit, Delete, Write, Track
<1>8. ASSUME NEW p \in Procs, WatchStart(p) \/ Fail(p) \/ \E cmd \in Commands : Begin(p, cmd)
      PROVE  repo' = repo
  BY <1>8 DEF WatchStart, Fail, Begin, machineVars
<1>9. ASSUME NEW p \in Procs, \/ Apply(p) \/ Push(p) \/ Export(p) \/ Truncate(p) \/ Publish(p)
                              \/ Fetch(p) \/ Download(p) \/ InitRepo(p) \/ Seed(p)
      PROVE  repo' = repo
  BY <1>9 DEF Apply, Push, Export, Truncate, Publish, Fetch, Download, InitRepo, Seed, machineVars
<1> QED BY <1>2, <1>3, <1>4, <1>5, <1>6, <1>7, <1>8, <1>9 DEF Next, Step, vars, machineVars

\* No step takes a --local file off its machine.
LEMMA LocalStep ==
  ASSUME TypeOK, FileInv, LocalInv, [Next]_vars
  PROVE  LocalInv'
<1> SUFFICES ASSUME NEW f \in Local
             PROVE  /\ server'[f] = <<>>
                    /\ bundle' \notin {NoFile, Torn} => bundle'[f] = <<>>
                    /\ \A m \in Machines : \A i \in DOMAIN repo'[m][f] : repo'[m][f][i].by = m
                    /\ \A p \in Procs : work'[p].file # NoFile => work'[p].file[f] = <<>>
  BY DEF LocalInv, LocalStays
<1>0. /\ f \in Refs /\ \A p \in Procs : MachineOf[p] \in Machines
      /\ \A m \in Machines : f \notin Leaves(m) /\ Sent(m)[f] = <<>>
  BY SentIsShared, ReplicationAssumption
<1>1. server'[f] = <<>>
  <2>1. CASE server' = server BY <2>1 DEF LocalInv, LocalStays
  <2>2. ASSUME NEW p \in Procs, Push(p) PROVE server'[f] = server[f]
    <3>1. PICK accepted \in SUBSET Leaves(MachineOf[p]) :
            server' = [r \in Refs |-> IF r \in accepted THEN repo[MachineOf[p]][r] ELSE server[r]]
      BY <2>2 DEF Push
    <3> QED BY <1>0, <3>1
  <2>3. server' = server \/ \E p \in Procs : Push(p)
    BY DEF Next, Step, vars, remoteVars, Edit, Delete, Write, Track, WatchStart, Fail, Begin, Commit,
      WriteManifest, Apply, Export, Truncate, Publish, Fetch, Download, Import, InitRepo, CloneRepo, Seed
  <2> QED BY <2>1, <2>2, <2>3 DEF LocalInv, LocalStays
<1>2. bundle' \notin {NoFile, Torn} => bundle'[f] = <<>>
  <2>1. CASE bundle' = bundle BY <2>1 DEF LocalInv, LocalStays
  <2>2. ASSUME NEW p \in Procs, Truncate(p) \/ Publish(p) PROVE bundle' \in {Torn, work[p].file}
    BY <2>2 DEF Truncate, Publish
  <2>3. bundle' = bundle \/ \E p \in Procs : Truncate(p) \/ Publish(p)
    BY DEF Next, Step, vars, remoteVars, Edit, Delete, Write, Track, WatchStart, Fail, Begin, Commit,
      WriteManifest, Apply, Push, Export, Fetch, Download, Import, InitRepo, CloneRepo, Seed
  <2> QED BY <2>1, <2>2, <2>3 DEF LocalInv
<1>3. ASSUME NEW m \in Machines, NEW i \in DOMAIN repo'[m][f] PROVE repo'[m][f][i].by = m
  <2>0. repo[m][f] \in Seq(Commits) BY <1>0 DEF TypeOK, Exports
  <2>1. CASE repo'[m][f] = repo[m][f] BY <1>3, <2>1 DEF LocalInv, LocalStays
  <2>2. ASSUME NEW c \in Commits, c.by = m, repo'[m][f] = Append(repo[m][f], c)
        PROVE  repo'[m][f][i].by = m
    <3>1. i \in 1..(Len(repo[m][f]) + 1) /\ repo'[m][f][i] = IF i <= Len(repo[m][f]) THEN repo[m][f][i] ELSE c
      BY <1>3, <2>0, <2>2
    <3>2. \A j \in 1..Len(repo[m][f]) : repo[m][f][j].by = m BY <2>0 DEF LocalInv, LocalStays
    <3> QED BY <2>0, <2>2, <3>1, <3>2
  <2>3. CASE repo'[m][f] = <<>> BY <1>3, <2>3
  <2>4. \A p \in Procs : f \in work[p].left => work[p].file[f] = <<>> BY DEF FileInv, LocalInv
  <2>5. server[f] = <<>> BY DEF LocalInv, LocalStays
  <2> QED BY <1>0, <2>1, <2>2, <2>3, <2>4, <2>5, BranchMoves
<1>4. ASSUME NEW p \in Procs, work'[p].file # NoFile PROVE work'[p].file[f] = <<>>
  BY <1>0, <1>4, FilesMove DEF LocalInv, LocalStays
<1> QED BY <1>1, <1>2, <1>3, <1>4

-----------------------------------------------------------------------------
(* What was pushed.                                                        *)

\* Prefixes, element by element.
LEMMA PrefixElements ==
  ASSUME NEW S, NEW s \in Seq(S), NEW t \in Seq(S)
  PROVE  IsPrefix(s, t) <=> Len(s) <= Len(t) /\ \A i \in 1..Len(s) : s[i] = t[i]
<1>1. CASE Len(s) <= Len(t)
  <2>1. SubSeq(s, 1, Len(s)) = s OBVIOUS
  <2>2. /\ SubSeq(t, 1, Len(s)) \in Seq(S) /\ Len(SubSeq(t, 1, Len(s))) = Len(s)
        /\ \A i \in 1..Len(s) : SubSeq(t, 1, Len(s))[i] = t[i]
    BY <1>1
  <2>3. s = SubSeq(t, 1, Len(s)) <=> \A i \in 1..Len(s) : s[i] = SubSeq(t, 1, Len(s))[i]
    BY <2>2, SeqEqual
  <2> QED BY <1>1, <2>1, <2>2, <2>3 DEF IsPrefix
<1>2. CASE ~(Len(s) <= Len(t)) BY <1>2 DEF IsPrefix
<1> QED BY <1>1, <1>2

\* IsPrefix is reflexive and transitive, with the empty history below all.
LEMMA PrefixOrder ==
  ASSUME NEW S, NEW s \in Seq(S), NEW t \in Seq(S), NEW u \in Seq(S)
  PROVE  IsPrefix(<<>>, s) /\ IsPrefix(s, s) /\ (IsPrefix(s, t) /\ IsPrefix(t, u) => IsPrefix(s, u))
<1>1. <<>> \in Seq(S) /\ Len(<<>>) = 0 OBVIOUS
<1>2. IsPrefix(<<>>, s)
  <2>1. ASSUME NEW e \in Seq(S), Len(e) = 0 PROVE IsPrefix(e, s)
    <3>1. Len(e) <= Len(s) /\ \A i \in 1..Len(e) : e[i] = s[i] BY <2>1
    <3> QED BY <3>1, PrefixElements
  <2> QED BY <1>1, <2>1
<1>3. IsPrefix(s, s) BY PrefixElements
<1>4. ASSUME IsPrefix(s, t), IsPrefix(t, u) PROVE IsPrefix(s, u)
  <2>1. Len(s) <= Len(t) /\ \A i \in 1..Len(s) : s[i] = t[i] BY <1>4, PrefixElements
  <2>2. Len(t) <= Len(u) /\ \A i \in 1..Len(t) : t[i] = u[i] BY <1>4, PrefixElements
  <2>3. Len(s) <= Len(u) /\ \A i \in 1..Len(s) : s[i] = u[i] BY <2>1, <2>2
  <2> QED BY <2>3, PrefixElements
<1> QED BY <1>2, <1>3, <1>4

\* The server's branches only move forward, but for a forced push, and a
\* push that reports success is all on the server.
LEMMA AckedStep ==
  ASSUME TypeOK, AckedStays, [Next]_vars
  PROVE  AckedStays'
<1>1. CASE server' = server /\ acked' = acked BY <1>1 DEF AckedStays
<1>2. ASSUME NEW p \in Procs, Push(p) PROVE AckedStays'
  <2> DEFINE m == MachineOf[p]
             force == work[p].cmd = "sync --push --force"
             accepted == {r \in Leaves(m) : force \/ IsPrefix(server[r], repo[m][r])}
  <2> SUFFICES ASSUME NEW n \in Machines, NEW r \in Refs PROVE IsPrefix(acked'[n][r], server'[r])
    BY DEF AckedStays
  <2>0. m \in Machines BY ReplicationAssumption
  <2>1. /\ server[r] \in Seq(Commits) /\ repo[m][r] \in Seq(Commits) /\ acked[n][r] \in Seq(Commits)
        /\ <<>> \in Seq(Commits)
    BY <2>0 DEF TypeOK, Exports
  <2>2. server'[r] = IF r \in accepted THEN repo[m][r] ELSE server[r] BY <1>2 DEF Push
  <2>3. IsPrefix(acked[n][r], server[r]) BY DEF AckedStays
  <2>4. CASE acked' = acked /\ accepted # Leaves(m)
    <3>1. ~force BY <2>4
    <3>2. r \in accepted => IsPrefix(server[r], repo[m][r]) BY <3>1
    <3> HIDE DEF accepted, m
    <3> QED BY <2>1, <2>2, <2>3, <2>4, <3>2, PrefixOrder
  <2>5. CASE Ack(m, force) /\ accepted = Leaves(m)
    <3>1. acked'[n][r] = IF n = m THEN IF r \in Leaves(m) THEN repo[m][r] ELSE <<>>
                         ELSE IF force /\ r \in Leaves(m) THEN <<>> ELSE acked[n][r]
      <4> HIDE DEF m, force
      <4> QED BY <2>5 DEF Ack, Sent
    <3>2. r \in Leaves(m) /\ ~force => IsPrefix(server[r], repo[m][r]) BY <2>5
    <3>3. r \in accepted <=> r \in Leaves(m) BY <2>5
    <3> HIDE DEF accepted, m, force
    <3> QED BY <2>1, <2>2, <2>3, <3>1, <3>2, <3>3, PrefixOrder
  <2> QED BY <1>2, <2>4, <2>5 DEF Push
<1>3. (server' = server /\ acked' = acked) \/ \E p \in Procs : Push(p)
  BY ZenonT(60) DEF Next, Step, vars, remoteVars, Edit, Delete, Write, Track, WatchStart, Fail, Begin, Commit,
    WriteManifest, Apply, Export, Truncate, Publish, Fetch, Download, Import, InitRepo, CloneRepo, Seed
<1> QED BY <1>1, <1>2, <1>3

-----------------------------------------------------------------------------
(* The inductive invariant.                                                *)

\* It holds at the start.
LEMMA InitIInv == Init => IInv
<1> SUFFICES ASSUME Init PROVE IInv OBVIOUS
<1>1. NoRefs \in Exports /\ \A r \in Refs : NoRefs[r] = <<>> BY DEF NoRefs, Exports
<1>2. PICK tracked \in {Shared, Local \cup Shared} : recorded =
        [m \in Machines |-> [f \in Files |-> IF m \in Owners /\ f \in tracked THEN 0 ELSE Untracked]]
  BY DEF Init
<1>3. recorded \in [Machines -> [Files -> Contents \cup {Unknown, Untracked}]] BY <1>2 DEF Contents
<1>4. watched \in [Machines -> SUBSET Files] BY DEF Init, Tracked
<1>5. disk \in [Machines -> [Files -> Content]] BY DEF Init, Content, Contents
<1>6. MaxOps[kind] \in Nat /\ MaxFailures[kind] \in Nat BY ReplicationAssumption DEF Init
<1>7. work \in [Procs -> Locals] /\ \A p \in Procs : work[p].file = NoFile /\ work[p].left = {}
  BY IdleTypes DEF Init
<1>8. TypeOK
  <2>1. bundle \in Exports \cup {NoFile, Torn} /\ mixed \in BOOLEAN BY DEF Init
  <2>2. kind \in Kinds /\ server \in Exports /\ acked \in [Machines -> Exports] BY <1>1 DEF Init
  <2>3. hasRepo \subseteq Machines /\ repo \in [Machines -> Exports] /\ pending \subseteq Machines
    BY <1>1, ReplicationAssumption DEF Init
  <2>4. ops \in 0..MaxOps[kind] /\ failures \in 0..MaxFailures[kind] BY <1>6 DEF Init
  <2> QED BY <2>1, <2>2, <2>3, <2>4, <1>3, <1>4, <1>5, <1>7 DEF TypeOK
<1>9. LocalInv BY <1>1, <1>7 DEF LocalInv, LocalStays, Init
<1>10. AckedStays
  <2>1. \A m \in Machines, r \in Refs : acked[m][r] = <<>> /\ server[r] = <<>> BY <1>1 DEF Init
  <2>2. IsPrefix(<<>>, <<>>) BY PrefixOrder DEF IsPrefix
  <2> QED BY <2>1, <2>2 DEF AckedStays
<1> QED BY <1>7, <1>8, <1>9, <1>10 DEF IInv, FileInv

\* The inductive invariant holds in every reachable state (Init, Next).
THEOREM Inductive == Spec => []IInv
<1>1. IInv /\ [Next]_vars => IInv'
  BY TypeStep, FileStep, LocalStep, AckedStep DEF IInv
<1> QED BY InitIInv, <1>1, PTL DEF Spec

\* Replication keeps its types.
THEOREM TypeCorrect == Spec => []TypeOK
<1>1. IInv => TypeOK BY DEF IInv
<1> QED BY Inductive, <1>1, PTL

\* No sequence of exports, imports, clones, pushes and kills, by any number
\* of processes on any number of machines, takes a file tracked with --local
\* to the server, into a bundle or to another machine (the refspecs of Push
\* and the ref list of BundlePush).
THEOREM LocalNeverLeaves == Spec => []LocalStays
<1>1. IInv => LocalStays BY DEF IInv, LocalInv
<1> QED BY Inductive, <1>1, PTL

\* What a Push without --force has reported as pushed stays in the server's
\* history until somebody forces another push, whatever other machines push.
THEOREM PushedStays == Spec => []AckedStays
<1>1. IInv => AckedStays BY DEF IInv
<1> QED BY Inductive, <1>1, PTL

-----------------------------------------------------------------------------
(* Machines that only follow.                                              *)

\* Over a bundle, the owners of the files publish and never pull, and the
\* other machines only bootstrap and deploy.
OneWay ==
  /\ Owners # {}
  /\ \A p \in Procs, k \in Kinds \ {"git"} :
       MayRun[p][k] \subseteq IF MachineOf[p] \in Owners
                              THEN {"sync", "sync --push", "sync --push --force", "watch"}
                              ELSE {"bootstrap", "deploy"}

OwnerPhases    == {"commit", "manifest", "export", "truncate", "publish"}
FollowerPhases == {"init", "download", "import", "seed", "apply"}
PhasesOf(p)    == IF MachineOf[p] \in Owners THEN OwnerPhases ELSE FollowerPhases

\* A history of r that some owner has, or has gone on from.
Owned(h, r) == \E o \in Owners : IsPrefix(h, repo[o][r])

FollowInv ==
  /\ \A p \in Procs : work[p].todo \in Seq(PhasesOf(p))
  /\ \A r \in Pushable :
       /\ \A m \in Machines \ Owners : Owned(repo[m][r], r)
       /\ bundle \notin {NoFile, Torn} => Owned(bundle[r], r)
       /\ \A p \in Procs : work[p].file # NoFile => Owned(work[p].file[r], r)

\* The phases of the commands of OneWay.
LEMMA OneWayPrograms ==
  ASSUME OneWay, kind \in Kinds, kind # "git", NEW p \in Procs, NEW cmd \in MayRun[p][kind]
  PROVE  Program(MachineOf[p], cmd) \in Seq(PhasesOf(p))
<1>1. CASE MachineOf[p] \in Owners
  <2>1. cmd \in {"sync", "sync --push", "sync --push --force", "watch"} BY <1>1 DEF OneWay
  <2>2. Sync \in Seq(OwnerPhases) BY DEF Sync, OwnerPhases
  <2>3. Pushing \in Seq(OwnerPhases)
    <3>1. <<"export", "publish">> \in Seq(OwnerPhases) /\ <<"export", "truncate", "publish">> \in Seq(OwnerPhases)
      BY DEF OwnerPhases
    <3> QED BY <3>1, ReplicationAssumption DEF Pushing
  <2>4. Sync \o Pushing \in Seq(OwnerPhases) BY <2>2, <2>3
  <2> QED BY <1>1, <2>1, <2>2, <2>4 DEF Program, PhasesOf
<1>2. CASE MachineOf[p] \notin Owners
  <2>1. cmd \in {"bootstrap", "deploy"} BY <1>2 DEF OneWay
  <2>2. /\ <<>> \in Seq(FollowerPhases) /\ <<"apply">> \in Seq(FollowerPhases)
        /\ <<"init">> \in Seq(FollowerPhases) /\ <<"seed", "apply">> \in Seq(FollowerPhases)
        /\ <<"download", "import">> \in Seq(FollowerPhases)
    BY DEF FollowerPhases
  <2>3. Pulling = <<"download", "import">> BY DEF Pulling
  <2>4. Setup(MachineOf[p]) \in Seq(FollowerPhases) BY <2>2, <2>3 DEF Setup
  <2>5. /\ Pulling \o <<"apply">> \in Seq(FollowerPhases)
        /\ Setup(MachineOf[p]) \o <<"seed", "apply">> \in Seq(FollowerPhases)
    BY <2>2, <2>3, <2>4
  <2> QED BY <1>2, <2>1, <2>5 DEF Program, PhasesOf
<1> QED BY <1>1, <1>2

\* A command only ever goes on with a part of its program.
LEMMA TodoMoves ==
  ASSUME TypeOK, [Next]_vars, NEW q \in Procs, NEW S, work[q].todo \in Seq(S)
  PROVE  \/ work'[q].todo \in Seq(S)
         \/ \E cmd \in MayRun[q][kind] : work'[q].todo = Program(MachineOf[q], cmd)
<1> DEFINE Goal == \/ work'[q].todo \in Seq(S)
                   \/ \E cmd \in MayRun[q][kind] : work'[q].todo = Program(MachineOf[q], cmd)
<1>0. work \in [Procs -> Locals] BY DEF TypeOK
<1>e. Idle.todo = <<>> /\ <<>> \in Seq(S) BY EmptySeq DEF Idle
<1>1. ASSUME NEW p \in Procs, NEW local, Goto(p, local), p = q => local.todo \in Seq(S) PROVE Goal
  BY <1>0, <1>e, <1>1 DEF Goto
<1>t. ASSUME work[q].todo # <<>> PROVE Tail(work[q].todo) \in Seq(S) BY <1>t
<1>2. ASSUME NEW p \in Procs, Done(p), work[p].todo # <<>> PROVE Goal
  <2>1. [work[p] EXCEPT !.todo = Tail(@)].todo = Tail(work[p].todo) BY <1>0 DEF Locals
  <2> QED BY <1>1, <1>2, <1>t, <2>1 DEF Done
<1>3. ASSUME NEW p \in Procs, GiveUp(p) PROVE Goal
  <2> DEFINE todo == work[p].todo
             from == IF Head(todo) = "download" THEN 3 ELSE 2
             left == IF work[p].cmd \in {"sync --pull", "deploy"} /\ Head(todo) \in {"fetch", "download", "import"}
                     THEN SubSeq(todo, from, Len(todo)) ELSE <<>>
  <2>1. Goto(p, [work[p] EXCEPT !.todo = left]) BY <1>3 DEF GiveUp
  <2>2. [work[p] EXCEPT !.todo = left].todo = left BY <1>0 DEF Locals
  <2>3. p = q => left \in Seq(S)
    <3>1. ASSUME p = q PROVE SubSeq(todo, from, Len(todo)) \in Seq(S)
      <4>1. CASE from = 3 BY <3>1, <4>1
      <4>2. CASE from = 2 BY <3>1, <4>2
      <4> QED BY <4>1, <4>2
    <3> HIDE DEF todo, from
    <3> QED BY <1>e, <3>1
  <2> HIDE DEF left
  <2> QED BY <1>1, <2>1, <2>2, <2>3
<1>4. ASSUME NEW p \in Procs, \E cmd \in Commands : Begin(p, cmd) PROVE Goal
  <2>1. PICK cmd \in MayRun[p][kind] :
          work' = [work EXCEPT ![p] = [Idle EXCEPT !.cmd = cmd, !.todo = Program(MachineOf[p], cmd)]]
    BY <1>4 DEF Begin
  <2>2. [Idle EXCEPT !.cmd = cmd, !.todo = Program(MachineOf[p], cmd)].todo = Program(MachineOf[p], cmd)
    BY DEF Idle
  <2>3. CASE p = q BY <1>0, <2>1, <2>2, <2>3
  <2>4. CASE p # q BY <1>0, <2>1, <2>4
  <2> QED BY <2>3, <2>4
<1>5. ASSUME NEW p \in Procs, Fail(p) PROVE Goal
  BY <1>0, <1>3, <1>5, <1>e DEF Fail
<1>6. ASSUME NEW p \in Procs, Commit(p) PROVE Goal
  <2>1. PICK listed, made :
          Goto(p, [work[p] EXCEPT !.todo = Tail(@), !.listed = listed, !.made = made])
    BY <1>6 DEF Commit
  <2>2. [work[p] EXCEPT !.todo = Tail(@), !.listed = listed, !.made = made].todo = Tail(work[p].todo)
    BY <1>0 DEF Locals
  <2> QED BY <1>1, <1>6, <1>t, <2>1, <2>2 DEF Commit, At
<1>7. ASSUME NEW p \in Procs, WriteManifest(p) PROVE Goal
  <2>1. Goto(p, Idle) \/ Done(p) BY <1>7 DEF WriteManifest
  <2> QED BY <1>1, <1>2, <1>7, <1>e, <2>1 DEF WriteManifest, At
<1>8. ASSUME NEW p \in Procs,
             Apply(p) \/ Truncate(p) \/ Publish(p) \/ InitRepo(p) \/ CloneRepo(p) \/ Seed(p)
      PROVE  Goal
  BY <1>2, <1>8 DEF Apply, Truncate, Publish, InitRepo, CloneRepo, Seed, At
<1>9. ASSUME NEW p \in Procs, Push(p) \/ Fetch(p) PROVE Goal
  <2>1. (Done(p) \/ GiveUp(p)) /\ work[p].todo # <<>> BY <1>9 DEF Push, Fetch, At
  <2> QED BY <1>2, <1>3, <2>1
<1>10. ASSUME NEW p \in Procs, Export(p) PROVE Goal
  <2>1. CASE Goto(p, [work[p] EXCEPT !.todo = Tail(@), !.file = Sent(MachineOf[p])])
    <3>1. [work[p] EXCEPT !.todo = Tail(@), !.file = Sent(MachineOf[p])].todo = Tail(work[p].todo)
      BY <1>0 DEF Locals
    <3> QED BY <1>1, <1>10, <1>t, <2>1, <3>1 DEF Export, At
  <2> QED BY <1>3, <1>10, <2>1 DEF Export
<1>11. ASSUME NEW p \in Procs, Download(p) PROVE Goal
  <2>1. ASSUME NEW left, Goto(p, [work[p] EXCEPT !.todo = Tail(@), !.file = bundle, !.left = left]) PROVE Goal
    <3>1. [work[p] EXCEPT !.todo = Tail(@), !.file = bundle, !.left = left].todo = Tail(work[p].todo)
      BY <1>0 DEF Locals
    <3> QED BY <1>1, <1>11, <1>t, <2>1, <3>1 DEF Download, At
  <2> QED BY <1>3, <1>11, <2>1 DEF Download
<1>12. ASSUME NEW p \in Procs, Import(p) PROVE Goal
  <2>1. CASE Goto(p, [work[p] EXCEPT !.todo = Tail(@), !.file = NoFile, !.left = {}])
    <3>1. [work[p] EXCEPT !.todo = Tail(@), !.file = NoFile, !.left = {}].todo = Tail(work[p].todo)
      BY <1>0 DEF Locals
    <3> QED BY <1>1, <1>12, <1>t, <2>1, <3>1 DEF Import, At
  <2>2. ASSUME NEW r, Goto(p, [work[p] EXCEPT !.left = @ \ {r}]) PROVE Goal
    <3>1. [work[p] EXCEPT !.left = @ \ {r}].todo = work[p].todo BY <1>0 DEF Locals
    <3> QED BY <1>1, <2>2, <3>1
  <2> QED BY <1>12, <2>1, <2>2 DEF Import
<1>13. ASSUME UNCHANGED work PROVE Goal BY <1>13
<1>14. ASSUME NEW t \in Touched, Edit(t[1], t[2]) \/ Delete(t[1], t[2]) \/ Track(t[1], t[2])
       PROVE  UNCHANGED work
  BY <1>14 DEF Edit, Delete, Write, Track
<1>15. ASSUME NEW p \in Procs, WatchStart(p) PROVE UNCHANGED work BY <1>15 DEF WatchStart
<1> HIDE DEF Goal
<1>99. Goal BY <1>4, <1>5, <1>6, <1>7, <1>8, <1>9, <1>10, <1>11, <1>12, <1>13, <1>14, <1>15
      DEF Next, Step, vars
<1> QED BY <1>99 DEF Goal

\* The kind of remote never changes.
LEMMA KindStays == ASSUME [Next]_vars PROVE kind' = kind
BY DEF Next, Step, vars, Edit, Delete, Write, Track, WatchStart, Fail, Begin, Commit, WriteManifest,
  Apply, Push, Export, Truncate, Publish, Fetch, Download, Import, InitRepo, CloneRepo, Seed

\* A process is in no phase its program does not have.
LEMMA PhaseKnown ==
  ASSUME NEW p \in Procs, NEW S, work[p].todo \in Seq(S), NEW phase, At(p, phase)
  PROVE  phase \in S
BY DEF At

\* Under OneWay the branches of an owner only move forward.
LEMMA OwnersGrow ==
  ASSUME TypeOK, FollowInv, [Next]_vars, NEW o \in Owners, NEW r \in Refs
  PROVE  IsPrefix(repo[o][r], repo'[o][r])
<1>0. o \in Machines /\ repo[o][r] \in Seq(Commits) BY ReplicationAssumption DEF TypeOK, Exports
<1>1. ~Within(o, {"import"}) /\ ~Within(o, {"clone"})
  <2>1. ASSUME NEW p \in Procs, NEW phase \in {"import", "clone"}, MachineOf[p] = o, At(p, phase)
        PROVE  FALSE
    <3>1. work[p].todo \in Seq(OwnerPhases) BY <2>1 DEF FollowInv, PhasesOf
    <3> QED BY <2>1, <3>1, PhaseKnown DEF OwnerPhases
  <2> QED BY <2>1 DEF Within
<1>2. CASE repo'[o][r] = repo[o][r] BY <1>0, <1>2, PrefixOrder
<1>3. ASSUME NEW c \in Commits, repo'[o][r] = Append(repo[o][r], c)
      PROVE  IsPrefix(repo[o][r], repo'[o][r])
  <2> DEFINE s == repo[o][r]
             t == Append(s, c)
  <2>1. t \in Seq(Commits) /\ Len(s) <= Len(t) /\ \A i \in 1..Len(s) : s[i] = t[i] BY <1>0
  <2> HIDE DEF s, t
  <2>2. IsPrefix(s, t) BY <1>0, <2>1, PrefixElements DEF s
  <2> QED BY <1>3, <2>2 DEF s, t
<1> QED BY <1>0, <1>1, <1>2, <1>3, BranchMoves

\* No machine that only follows gets ahead of the owners.
LEMMA FollowStep ==
  ASSUME OneWay, TypeOK, TypeOK', FileInv, kind # "git", FollowInv, [Next]_vars
  PROVE  FollowInv'
<1>1. ASSUME NEW p \in Procs PROVE work'[p].todo \in Seq(PhasesOf(p))
  <2>1. work[p].todo \in Seq(PhasesOf(p)) /\ kind \in Kinds BY DEF FollowInv, TypeOK
  <2> QED BY <2>1, TodoMoves, OneWayPrograms
<1> SUFFICES ASSUME NEW r \in Pushable
             PROVE  /\ \A m \in Machines \ Owners : Owned(repo[m][r], r)'
                    /\ bundle' \notin {NoFile, Torn} => Owned(bundle[r], r)'
                    /\ \A p \in Procs : work'[p].file # NoFile => Owned(work[p].file[r], r)'
  BY <1>1 DEF FollowInv, PhasesOf
<1>0. r \in Refs /\ Owners \subseteq Machines /\ \A p \in Procs : MachineOf[p] \in Machines
  BY ReplicationAssumption DEF Pushable
<1>2. ASSUME NEW h \in Seq(Commits), Owned(h, r) PROVE \E o \in Owners : IsPrefix(h, repo'[o][r])
  <2>1. PICK o \in Owners : IsPrefix(h, repo[o][r]) BY <1>2 DEF Owned
  <2>2. repo[o][r] \in Seq(Commits) /\ repo'[o][r] \in Seq(Commits) BY <1>0 DEF TypeOK, Exports
  <2>3. IsPrefix(repo[o][r], repo'[o][r]) BY <1>0, OwnersGrow
  <2> QED BY <1>2, <2>1, <2>2, <2>3, PrefixOrder
<1>3. ASSUME NEW m \in Machines PROVE Sent(m)[r] \in {repo[m][r], <<>>} BY <1>0 DEF Sent
<1>4. ASSUME NEW m \in Machines PROVE Owned(repo[m][r], r) /\ repo[m][r] \in Seq(Commits)
  <2>1. repo[m][r] \in Seq(Commits) BY <1>0 DEF TypeOK, Exports
  <2>2. CASE m \in Owners BY <2>1, <2>2, PrefixOrder DEF Owned
  <2>3. CASE m \notin Owners BY <2>1, <2>3 DEF FollowInv
  <2> QED BY <2>1, <2>2, <2>3
<1>5. Owned(<<>>, r)
  <2>1. PICK o \in Owners : TRUE BY DEF OneWay
  <2>2. IsPrefix(<<>>, repo[o][r]) BY <1>0, <1>4, PrefixOrder
  <2> QED BY <2>2 DEF Owned
<1>6. ASSUME NEW p \in Procs, work[p].file # NoFile
      PROVE  Owned(work[p].file[r], r) /\ work[p].file[r] \in Seq(Commits)
  BY <1>0, <1>6 DEF FollowInv, TypeOK, Locals, Exports
<1>7. bundle \notin {NoFile, Torn} => Owned(bundle[r], r) /\ bundle[r] \in Seq(Commits)
  BY <1>0 DEF FollowInv, TypeOK, Exports
<1>8. <<>> \in Seq(Commits) OBVIOUS
<1>9. ASSUME NEW m \in Machines \ Owners PROVE \E o \in Owners : IsPrefix(repo'[m][r], repo'[o][r])
  <2>1. ~Within(m, {"commit", "manifest"}) /\ ~Within(m, {"clone"})
    <3>1. ASSUME NEW p \in Procs, NEW phase \in {"commit", "manifest", "clone"}, MachineOf[p] = m, At(p, phase)
          PROVE  FALSE
      <4>1. work[p].todo \in Seq(FollowerPhases) BY <3>1 DEF FollowInv, PhasesOf
      <4> QED BY <3>1, <4>1, PhaseKnown DEF FollowerPhases
    <3> QED BY <3>1 DEF Within
  <2>2. CASE repo'[m][r] = repo[m][r] BY <1>2, <1>4, <2>2
  <2>3. ASSUME NEW p \in Procs, r \in work[p].left, repo'[m][r] = work[p].file[r]
        PROVE  \E o \in Owners : IsPrefix(repo'[m][r], repo'[o][r])
    <3>1. work[p].file # NoFile BY <2>3 DEF FileInv
    <3> QED BY <1>2, <1>6, <2>3, <3>1
  <2> QED BY <1>0, <2>1, <2>2, <2>3, BranchMoves
<1>10. ASSUME bundle' \notin {NoFile, Torn} PROVE \E o \in Owners : IsPrefix(bundle'[r], repo'[o][r])
  <2>1. CASE bundle' = bundle BY <1>2, <1>7, <1>10, <2>1
  <2>2. ASSUME NEW p \in Procs, Truncate(p) \/ Publish(p) PROVE bundle' \in {Torn, work[p].file}
    BY <2>2 DEF Truncate, Publish
  <2>3. bundle' = bundle \/ \E p \in Procs : Truncate(p) \/ Publish(p)
    BY DEF Next, Step, vars, remoteVars, Edit, Delete, Write, Track, WatchStart, Fail, Begin, Commit,
      WriteManifest, Apply, Push, Export, Fetch, Download, Import, InitRepo, CloneRepo, Seed
  <2> QED BY <1>2, <1>6, <1>10, <2>1, <2>2, <2>3
<1>11. ASSUME NEW p \in Procs, work'[p].file # NoFile
       PROVE  \E o \in Owners : IsPrefix(work'[p].file[r], repo'[o][r])
  <2>1. CASE work'[p].file = work[p].file BY <1>2, <1>6, <1>11, <2>1
  <2>2. CASE work'[p].file = Sent(MachineOf[p])
    <3>1. Owned(Sent(MachineOf[p])[r], r) /\ Sent(MachineOf[p])[r] \in Seq(Commits)
      BY <1>0, <1>3, <1>4, <1>5, <1>8
    <3> QED BY <1>2, <2>2, <3>1
  <2>3. CASE bundle \notin {NoFile, Torn} /\ work'[p].file = bundle BY <1>2, <1>7, <2>3
  <2> QED BY <1>11, <2>1, <2>2, <2>3, FilesMove
<1> QED BY <1>9, <1>10, <1>11 DEF Owned

\* Over a bundle, machines that only bootstrap and deploy never have a commit
\* that no publisher has, whichever of its own commands are cut short or fail
\* and however many publishers overwrite each other's bundle (OneWay).
THEOREM FollowersNeverLead == OneWay => (Spec => []FollowersFollow)
<1> SUFFICES ASSUME OneWay PROVE Spec => []FollowersFollow OBVIOUS
<1> DEFINE Inv == kind # "git" => FollowInv
<1>1. Init => Inv
  <2> SUFFICES ASSUME Init PROVE FollowInv OBVIOUS
  <2>1. PICK o \in Owners : TRUE BY DEF OneWay
  <2>2. \A r \in Pushable : r \in Refs /\ NoRefs[r] = <<>> BY DEF NoRefs, Pushable
  <2>3. <<>> \in Seq(Commits) /\ IsPrefix(<<>>, <<>>) BY PrefixOrder DEF IsPrefix
  <2>4. \A r \in Pushable, m \in Machines : Owned(repo[m][r], r)
    BY <2>1, <2>2, <2>3, ReplicationAssumption DEF Init, Owned
  <2>5. \A p \in Procs : work[p].todo \in Seq(PhasesOf(p)) BY EmptySeq DEF Init, Idle
  <2> QED BY <2>4, <2>5, IdleTypes DEF Init, FollowInv
<1>2. IInv /\ IInv' /\ Inv /\ [Next]_vars => Inv'
  BY KindStays, FollowStep DEF IInv
<1>3. Inv => FollowersFollow BY DEF FollowInv, FollowersFollow, Owned
<1> HIDE DEF Inv
<1> QED BY <1>1, <1>2, <1>3, Inductive, PTL DEF Spec
=============================================================================
