------------------------- MODULE TrackingSyncProofs -------------------------
(***************************************************************************)
(* Proofs about Tracking, continued: what is tracked is in the repository  *)
(* when track returns, and a Sync of all files that reports no error       *)
(* leaves nothing for the other commands to complain of.                   *)
(***************************************************************************)
EXTENDS TrackingProofs

-----------------------------------------------------------------------------
(* From which name the rounds came.                                        *)

\* What resolveTrackBranch puts into names.
Filling == {Dashes, Dir}

\* Growing functions from the places of base to those of b, where the same
\* tokens are; at all other places of b is filling.
Fits(f, base, b) ==
  /\ f \in [1..Len(base) -> 1..Len(b)]
  /\ \A i \in 1..Len(base) : b[f[i]] = base[i] /\ base[i] \notin Filling
  /\ \A i, j \in 1..Len(base) : i < j => f[i] < f[j]
  /\ \A k \in 1..Len(b) : b[k] \in Filling \/ \E i \in 1..Len(base) : k = f[i]

\* b is base with some filling.
Filled(base, b) == \E f : Fits(f, base, b)

\* It is so of one base at most.
LEMMA FilledOne ==
  ASSUME NEW a \in Seq(Nat), NEW c \in Seq(Nat), NEW b \in Seq(Nat), Filled(a, b), Filled(c, b)
  PROVE  a = c
<1>1. PICK f : Fits(f, a, b) BY DEF Filled
<1>2. PICK g : Fits(g, c, b) BY DEF Filled
<1>3. /\ f \in [1..Len(a) -> 1..Len(b)] /\ \A i \in 1..Len(a) : b[f[i]] = a[i] /\ a[i] \notin Filling
      /\ \A i, j \in 1..Len(a) : i < j => f[i] < f[j]
      /\ \A k \in 1..Len(b) : b[k] \in Filling \/ \E i \in 1..Len(a) : k = f[i]
  BY <1>1 DEF Fits
<1>4. /\ g \in [1..Len(c) -> 1..Len(b)] /\ \A i \in 1..Len(c) : b[g[i]] = c[i] /\ c[i] \notin Filling
      /\ \A i, j \in 1..Len(c) : i < j => g[i] < g[j]
      /\ \A k \in 1..Len(b) : b[k] \in Filling \/ \E i \in 1..Len(c) : k = g[i]
  BY <1>2 DEF Fits
<1>5. Len(a) \in Nat /\ Len(c) \in Nat /\ Len(b) \in Nat OBVIOUS
<1>6. ASSUME NEW i \in 1..Len(a) PROVE \E j \in 1..Len(c) : f[i] = g[j]
  <2>1. f[i] \in 1..Len(b) /\ b[f[i]] \notin Filling BY <1>3
  <2> QED BY <1>4, <2>1
<1>7. ASSUME NEW i \in 1..Len(c) PROVE \E j \in 1..Len(a) : g[i] = f[j]
  <2>1. g[i] \in 1..Len(b) /\ b[g[i]] \notin Filling BY <1>4
  <2> QED BY <1>3, <2>1
<1> DEFINE Same(i) == (i <= Len(a) <=> i <= Len(c)) /\ (i <= Len(a) => f[i] = g[i])
           T == {k \in Nat : \A i \in 1..k : Same(i)}
<1>8. ASSUME NEW k \in T PROVE Same(k + 1)
  <2> DEFINE m == k + 1
  <2>0. k \in Nat /\ m \in Nat \ {0} /\ \A i \in Nat \ {0} : i < m => Same(i) OBVIOUS
  <2> HIDE DEF T, m
  <2>1. ASSUME NEW j \in 1..Len(c), m <= Len(a), f[m] = g[j] PROVE j >= m
    <3> SUFFICES ASSUME j < m PROVE FALSE BY <2>0
    <3>1. j \in 1..Len(a) /\ m \in 1..Len(a) BY <1>5, <2>0, <2>1
    <3>2. f[j] = g[j] BY <2>0, <3>1
    <3>3. f[j] \in Nat /\ f[m] \in Nat
      <4>1. f[j] \in 1..Len(b) /\ f[m] \in 1..Len(b) BY <1>3, <3>1
      <4>2. 1..Len(b) \subseteq Nat OBVIOUS
      <4> QED BY <4>1, <4>2
    <3>4. f[j] < f[m] BY <1>3, <3>1
    <3> QED BY <2>1, <3>2, <3>3, <3>4
  <2>2. ASSUME NEW j \in 1..Len(a), m <= Len(c), g[m] = f[j] PROVE j >= m
    <3> SUFFICES ASSUME j < m PROVE FALSE BY <2>0
    <3>1. j \in 1..Len(c) /\ m \in 1..Len(c) BY <1>5, <2>0, <2>2
    <3>2. f[j] = g[j] BY <2>0
    <3>3. g[j] \in Nat /\ g[m] \in Nat
      <4>1. g[j] \in 1..Len(b) /\ g[m] \in 1..Len(b) BY <1>4, <3>1
      <4>2. 1..Len(b) \subseteq Nat OBVIOUS
      <4> QED BY <4>1, <4>2
    <3>4. g[j] < g[m] BY <1>4, <3>1
    <3> QED BY <2>2, <3>2, <3>3, <3>4
  <2>3. CASE m <= Len(a)
    <3>1. m \in 1..Len(a) BY <1>5, <2>0, <2>3
    <3>2. PICK j \in 1..Len(c) : f[m] = g[j] BY <1>6, <3>1
    <3>3. j >= m BY <2>1, <2>3, <3>2
    <3>4. m \in 1..Len(c) BY <1>5, <2>0, <3>3
    <3>5. PICK i \in 1..Len(a) : g[m] = f[i] BY <1>7, <3>4
    <3>6. i >= m BY <2>2, <3>4, <3>5
    <3>7. f[m] \in Nat /\ f[i] \in Nat /\ g[m] \in Nat /\ g[j] \in Nat
      <4>1. f[m] \in 1..Len(b) /\ f[i] \in 1..Len(b) BY <1>3, <3>1
      <4>2. g[m] \in 1..Len(b) /\ g[j] \in 1..Len(b) BY <1>4, <3>4
      <4>3. 1..Len(b) \subseteq Nat OBVIOUS
      <4> QED BY <4>1, <4>2, <4>3
    <3>8. j # m => g[m] < g[j]
      <4>1. j # m => m < j BY <2>0, <3>3
      <4> QED BY <1>4, <3>4, <4>1
    <3>9. i # m => f[m] < f[i]
      <4>1. i # m => m < i BY <2>0, <3>6
      <4> QED BY <1>3, <3>1, <4>1
    <3>10. f[m] = g[m] BY <3>2, <3>5, <3>7, <3>8, <3>9
    <3> QED BY <3>1, <3>4, <3>10 DEF m
  <2>4. CASE ~(m <= Len(a))
    <3> SUFFICES ASSUME m <= Len(c) PROVE FALSE BY <2>4 DEF m
    <3>1. m \in 1..Len(c) BY <1>5, <2>0
    <3>2. PICK j \in 1..Len(a) : g[m] = f[j] BY <1>7, <3>1
    <3>3. j >= m BY <2>2, <3>2
    <3> QED BY <1>5, <2>0, <2>4, <3>3
  <2> QED BY <2>3, <2>4 DEF m
<1>9. Nat \subseteq T
  <2>1. 0 \in T OBVIOUS
  <2>2. ASSUME NEW k \in Nat, k \in T PROVE k + 1 \in T
    <3>1. Same(k + 1) BY <1>8, <2>2
    <3>2. \A i \in 1..k + 1 : i \in 1..k \/ i = k + 1 OBVIOUS
    <3>3. \A i \in 1..k : Same(i) BY <2>2
    <3> HIDE DEF Same
    <3> QED BY <2>2, <3>1, <3>2, <3>3
  <2> HIDE DEF T
  <2> QED BY <2>1, <2>2, NaturalsAll
<1>10. ASSUME NEW i \in Nat \ {0} PROVE Same(i)
  <2>1. i \in T
    <3> HIDE DEF T
    <3> QED BY <1>9
  <2>2. i \in 1..i OBVIOUS
  <2> QED BY <2>1, <2>2
<1>11. Len(a) = Len(c)
  <2>1. Len(a) # 0 => Same(Len(a)) BY <1>5, <1>10
  <2>2. Len(c) # 0 => Same(Len(c)) BY <1>5, <1>10
  <2> QED BY <1>5, <2>1, <2>2
<1>12. \A i \in 1..Len(a) : a[i] = c[i]
  <2> TAKE i \in 1..Len(a)
  <2>1. f[i] = g[i] BY <1>10
  <2> QED BY <1>3, <1>4, <1>11, <2>1
<1> QED BY <1>11, <1>12, SeqEqual

\* A round leaves what b is filled from.
LEMMA AvoidFills ==
  ASSUME NEW base \in Seq(Nat), NEW ref \in Seq(Nat), NEW b \in Seq(Nat), Filled(base, b)
  PROVE  Filled(base, AvoidRef(ref, b))
<1> DEFINE n == AvoidRef(ref, b)
<1>1. PICK f : Fits(f, base, b) BY DEF Filled
<1>2. /\ f \in [1..Len(base) -> 1..Len(b)]
      /\ \A i \in 1..Len(base) : b[f[i]] = base[i] /\ base[i] \notin Filling
      /\ \A i, j \in 1..Len(base) : i < j => f[i] < f[j]
      /\ \A k \in 1..Len(b) : b[k] \in Filling \/ \E i \in 1..Len(base) : k = f[i]
  BY <1>1 DEF Fits
<1>3. Len(base) \in Nat /\ Len(b) \in Nat /\ Len(ref) \in Nat OBVIOUS
<1>4. CASE Inside(ref, b)
  <2>0. Len(ref) < Len(b) BY <1>4, InsideElements
  <2>1. /\ Len(n) = Len(b) + 1 /\ \A i \in 1..Len(ref) : n[i] = b[i]
        /\ n[Len(ref) + 1] = Dashes
        /\ \A i \in Len(ref) + 2..Len(b) + 1 : n[i] = b[i - 1]
    BY <1>4, AvoidAbove
  <2> DEFINE move(k) == IF k <= Len(ref) THEN k ELSE k + 1
             g == [i \in 1..Len(base) |-> move(f[i])]
  <2> HIDE DEF n
  <2>2. ASSUME NEW k \in 1..Len(b) PROVE move(k) \in 1..Len(n) /\ n[move(k)] = b[k]
    <3>1. CASE k <= Len(ref) BY <1>3, <2>0, <2>1, <3>1
    <3>2. CASE ~(k <= Len(ref))
      <4>1. k + 1 \in Len(ref) + 2..Len(b) + 1 /\ (k + 1) - 1 = k BY <1>3, <3>2
      <4>2. n[k + 1] = b[(k + 1) - 1] BY <2>1, <4>1
      <4> QED BY <1>3, <2>1, <3>2, <4>1, <4>2
    <3> QED BY <3>1, <3>2
  <2>3. \A k, m \in 1..Len(b) : k < m => move(k) < move(m) BY <1>3
  <2>4. ASSUME NEW k \in 1..Len(n) PROVE n[k] \in Filling \/ \E m \in 1..Len(b) : k = move(m)
    <3>1. CASE k <= Len(ref)
      <4>1. k \in 1..Len(b) /\ k = move(k) BY <1>3, <2>0, <3>1
      <4> QED BY <4>1
    <3>2. CASE k = Len(ref) + 1 BY <2>1, <3>2 DEF Filling
    <3>3. CASE k > Len(ref) + 1
      <4>1. k - 1 \in 1..Len(b) /\ k = move(k - 1) BY <1>3, <2>1, <3>3
      <4> QED BY <4>1
    <3> QED BY <1>3, <3>1, <3>2, <3>3
  <2> HIDE DEF move
  <2>5. g \in [1..Len(base) -> 1..Len(n)] BY <1>2, <2>2
  <2>6. \A i \in 1..Len(base) : n[g[i]] = base[i] /\ base[i] \notin Filling BY <1>2, <2>2
  <2>7. \A i, j \in 1..Len(base) : i < j => g[i] < g[j] BY <1>2, <2>3
  <2>8. \A k \in 1..Len(n) : n[k] \in Filling \/ \E i \in 1..Len(base) : k = g[i]
    <3> SUFFICES ASSUME NEW k \in 1..Len(n), n[k] \notin Filling PROVE \E i \in 1..Len(base) : k = g[i]
      OBVIOUS
    <3>1. PICK m \in 1..Len(b) : k = move(m) BY <2>4
    <3>2. b[m] \notin Filling BY <2>2, <3>1
    <3>3. PICK i \in 1..Len(base) : m = f[i] BY <1>2, <3>2
    <3> QED BY <3>1, <3>3
  <2> HIDE DEF g
  <2>9. Fits(g, base, n) BY <2>5, <2>6, <2>7, <2>8 DEF Fits
  <2> QED BY <2>9 DEF Filled, n
<1>5. CASE Inside(b, ref)
  <2>1. /\ Len(n) = Len(b) + 2 /\ \A i \in 1..Len(b) : n[i] = b[i]
        /\ n[Len(b) + 1] = Dashes /\ n[Len(b) + 2] = Dir
    BY <1>5, AvoidBelow
  <2> HIDE DEF n
  <2>2. f \in [1..Len(base) -> 1..Len(n)] BY <1>2, <1>3, <2>1
  <2>3. \A i \in 1..Len(base) : n[f[i]] = base[i] /\ base[i] \notin Filling BY <1>2, <2>1
  <2>4. ASSUME NEW k \in 1..Len(b) + 2 PROVE n[k] \in Filling \/ \E i \in 1..Len(base) : k = f[i]
    <3>1. k \in 1..Len(b) \/ k = Len(b) + 1 \/ k = Len(b) + 2 BY <1>3
    <3> QED BY <1>2, <2>1, <3>1 DEF Filling
  <2>5. Fits(f, base, n) BY <1>2, <2>1, <2>2, <2>3, <2>4 DEF Fits
  <2> QED BY <2>5 DEF Filled, n
<1>6. CASE ~Inside(ref, b) /\ ~Inside(b, ref)
  <2>1. ~Clash(b, ref) BY <1>6 DEF Clash, Inside
  <2> QED BY <2>1, AvoidNothing
<1> QED BY <1>4, <1>5, <1>6

\* The rounds lead to one branch from one name at most.
LEMMA ReachesFrom ==
  ASSUME NEW names \in SUBSET Branches, NEW a \in Branches, NEW c \in Branches, NEW b,
         Filled(a, a), Filled(c, c), Reaches(names, a, b), Reaches(names, c, b)
  PROVE  a = c
<1>0. Branches \subseteq Seq(Nat) BY DEF Branches
<1>1. ASSUME NEW x \in Branches, Filled(x, x), Reaches(names, x, b) PROVE b \in Branches /\ Filled(x, b)
  <2> DEFINE X == {d \in Branches : Filled(x, d)}
  <2>1. \A r \in names, d \in X : AvoidRef(r, d) \in X
    <3> TAKE r \in names, d \in X
    <3>1. x \in Seq(Nat) /\ r \in Seq(Nat) /\ d \in Seq(Nat) BY <1>0
    <3>2. Filled(x, AvoidRef(r, d)) BY <3>1, AvoidFills
    <3> QED BY <3>2, AvoidIsBranch
  <2>2. x \in X /\ X \in SUBSET Branches BY <1>1
  <2> HIDE DEF X
  <2>3. b \in X BY <1>1, <2>1, <2>2 DEF Reaches, Closed
  <2> QED BY <2>3 DEF X
<1>2. Filled(a, b) /\ Filled(c, b) /\ b \in Branches BY <1>1
<1> QED BY <1>0, <1>2, FilledOne

\* Names of files and directories are filled with nothing.
LEMMA BranchNameFills ==
  ASSUME NEW prefix \in {"local", "remote", "track"}, NEW p \in Seq(Names)
  PROVE  Filled(BranchName(prefix, p), BranchName(prefix, p))
<1> DEFINE b == BranchName(prefix, p)
           f == [i \in 1..Len(b) |-> i]
<1>1. b \in Seq(Nat) /\ \A i \in 1..Len(b) : b[i] \notin Filling BY BranchNameElements DEF Filling
<1> HIDE DEF b
<1>2. f \in [1..Len(b) -> 1..Len(b)] /\ \A i \in 1..Len(b) : f[i] = i OBVIOUS
<1> HIDE DEF f
<1>3. Fits(f, b, b) BY <1>1, <1>2 DEF Fits
<1> QED BY <1>3 DEF Filled, b

\* And tell prefixes and paths apart.
LEMMA BranchNameOne ==
  ASSUME NEW x \in {"local", "remote", "track"}, NEW p \in Seq(Names),
         NEW y \in {"local", "remote", "track"}, NEW q \in Seq(Names),
         BranchName(x, p) = BranchName(y, q)
  PROVE  x = y /\ SanitizeBranchName(p) = SanitizeBranchName(q)
<1> DEFINE a  == BranchName(x, p)
           c  == BranchName(y, q)
           sp == SanitizeBranchName(p)
           sq == SanitizeBranchName(q)
<1>1. /\ sp \in Seq(Names) /\ Len(a) = 1 + 2 * Len(sp) /\ a[1] = Prefix[x]
      /\ \A i \in 1..Len(sp) : a[2 * i + 1] = sp[i]
  BY BranchNameElements
<1>2. /\ sq \in Seq(Names) /\ Len(c) = 1 + 2 * Len(sq) /\ c[1] = Prefix[y]
      /\ \A i \in 1..Len(sq) : c[2 * i + 1] = sq[i]
  BY BranchNameElements
<1>0. a = c OBVIOUS
<1> HIDE DEF a, c, sp, sq
<1>3. x = y BY <1>0, <1>1, <1>2 DEF Prefix
<1>4. sp \in Seq(Nat) /\ sq \in Seq(Nat) BY <1>1, <1>2 DEF Names
<1>5. Len(sp) = Len(sq) BY <1>0, <1>1, <1>2, <1>4
<1>6. sp = sq BY <1>0, <1>1, <1>2, <1>4, <1>5, SeqEqual
<1> QED BY <1>3, <1>6 DEF sp, sq
-----------------------------------------------------------------------------
(* What is assumed of the files the user tracks.                           *)

USE TrackingAssumption

\* Files of servers are tracked with their content in the repository, and it is
\* not encrypted.
RemotePlain == \A t \in FileTracks \cup DirTracks : t[1] # Here => t[3] \in {"plain", "template"}

\* No two paths differ in leading dots alone.
Unlike == \A p, q \in Paths \cup Dirs : SanitizeBranchName(p) = SanitizeBranchName(q) => p = q

\* Then a branch is of one group, if it is of files of this machine.
LEMMA OneBranchOneGroup ==
  ASSUME TrackInv, RemotePlain, Unlike, NEW i \in DOMAIN recs, NEW w \in DOMAIN recs, HostOf(i) = Here,
         recs[i].mode # "hash", recs[w].mode # "hash", recs[i].branch = recs[w].branch
  PROVE  GroupKey(i, recs[i]) = GroupKey(w, recs[w])
<1> DEFINE prefix(id) == CASE recs[id].mode = "local" -> "local"
                           [] recs[id].mode # "local" /\ HostOf(id) # Here -> "remote"
                           [] OTHER -> "track"
           place(id) == CASE recs[id].group # None -> recs[id].group
                          [] recs[id].group = None /\ HostOf(id) = Here -> PathOf(id)
                          [] OTHER -> <<HostOf(id)>> \o PathOf(id)
           base(id) == BaseName(id, recs[id].group, recs[id].mode)
<1>1. ASSUME NEW id \in {i, w}
      PROVE  /\ id \in Ids /\ PathOf(id) \in Paths /\ recs[id].group \in Dirs \cup {None}
             /\ HostOf(id) \in {Here} \cup Servers /\ recs[id].mode \in Modes
             /\ HostOf(id) # Here => recs[id].mode \in {"plain", "template"}
             /\ Reaches(DOMAIN refs, base(id), recs[id].branch)
  <2>1. id \in Ids /\ RecordFits(id, recs[id], DOMAIN refs) BY DEF TrackInv, RecMaps
  <2>2. ServerModes \subseteq {"plain", "template"} BY DEF RemotePlain, ServerModes
  <2> QED BY <2>1, <2>2 DEF RecordFits, Records, Ids, Hosts, HostOf, PathOf
<1>2. ASSUME NEW id \in {i, w}
      PROVE  prefix(id) \in {"local", "remote", "track"} /\ place(id) \in Seq(Names)
  <2>1. CASE recs[id].group # None BY <1>1, <2>1, NameSequences
  <2>2. CASE recs[id].group = None /\ HostOf(id) = Here BY <1>1, <2>2, NameSequences
  <2>3. CASE recs[id].group = None /\ HostOf(id) # Here BY <1>1, <2>3, NameSequences
  <2> QED BY <2>1, <2>2, <2>3
<1>3. \A id \in {i, w} : base(id) = BranchName(prefix(id), place(id)) BY DEF BaseName
<1> HIDE DEF prefix, place, base
<1>4. \A id \in {i, w} : base(id) \in Branches /\ Filled(base(id), base(id))
  BY <1>2, <1>3, BranchNames, BranchNameFills
<1>5. DOMAIN refs \in SUBSET Branches BY DEF TrackInv, RepoInv, Repos
<1>6. base(i) = base(w) BY <1>1, <1>4, <1>5, ReachesFrom
<1>7. prefix(i) = prefix(w) /\ SanitizeBranchName(place(i)) = SanitizeBranchName(place(w))
  <2>1. BranchName(prefix(i), place(i)) = BranchName(prefix(w), place(w)) BY <1>3, <1>6
  <2> QED BY <1>2, <2>1, BranchNameOne
<1>8. HostOf(w) = Here
  <2> SUFFICES ASSUME HostOf(w) # Here PROVE FALSE OBVIOUS
  <2>1. recs[w].mode \in {"plain", "template"} BY <1>1
  <2>2. prefix(w) = "remote" BY <2>1 DEF prefix
  <2>3. prefix(i) # "remote" BY DEF prefix
  <2> QED BY <1>7, <2>2, <2>3
<1>9. \A id \in {i, w} : place(id) = IF recs[id].group # None THEN recs[id].group ELSE PathOf(id)
  BY <1>8 DEF place
<1>10. place(i) = place(w)
  <2>1. \A id \in {i, w} : place(id) \in Paths \cup Dirs BY <1>1, <1>9
  <2> QED BY <1>7, <2>1 DEF Unlike
<1>11. recs[i].group = None <=> recs[w].group = None
  <2>1. \A id \in {i, w} : place(id) \in Dirs <=> recs[id].group # None
    <3> TAKE id \in {i, w}
    <3>1. PathOf(id) \in Paths /\ recs[id].group \in Dirs \cup {None} BY <1>1
    <3>2. place(id) = IF recs[id].group # None THEN recs[id].group ELSE PathOf(id) BY <1>9
    <3>3. CASE recs[id].group = None
      <4>1. place(id) \in Paths BY <3>1, <3>2, <3>3
      <4> QED BY <3>3, <4>1
    <3>4. CASE recs[id].group # None BY <3>1, <3>2, <3>4
    <3> QED BY <3>3, <3>4
  <2> QED BY <1>10, <2>1
<1>12. CASE recs[i].group = None
  <2>1. PathOf(i) = PathOf(w) BY <1>9, <1>10, <1>11, <1>12
  <2>2. i = w BY <1>1, <1>8, <2>1 DEF Ids, HostOf, PathOf
  <2> QED BY <2>2
<1>13. CASE recs[i].group # None BY <1>8, <1>9, <1>10, <1>11, <1>13 DEF GroupKey
<1> QED BY <1>12, <1>13

-----------------------------------------------------------------------------
(* What a Sync commits.                                                    *)

\* The parts of what a Sync makes.
LEMMA SyncStateParts ==
  ASSUME NEW rs, NEW r \in SyncStates(rs)
  PROVE  /\ r = [refs |-> r.refs, commits |-> r.commits, recs |-> r.recs, ok |-> r.ok]
         /\ DOMAIN r.recs \subseteq DOMAIN rs /\ \A id \in DOMAIN r.recs : r.recs[id] \in Records
         /\ \A id \in DOMAIN r.recs : r.recs[id] = [rs[id] EXCEPT !.hash = r.recs[id].hash]
BY DEF SyncStates

\* What becomes of r when a group is committed: R.
GroupCommitted(R, r, rs, live, gone, lead) ==
  /\ r.ok
  /\ \A id \in live : Show(R.refs, rs[lead].branch, id) = Data(id, rs[id])
  /\ \A id, b : id \notin live \cup gone => Show(R.refs, b, id) = Show(r.refs, b, id)
  /\ DOMAIN R.recs = DOMAIN r.recs \ gone
  /\ \A id \in DOMAIN r.recs \ gone : R.recs[id].hash = IF id \in live THEN disk[id] ELSE r.recs[id].hash

\* One group that did not fail.
LEMMA GroupShows ==
  ASSUME NEW rs, NEW r \in SyncStates(rs), NEW live, NEW gone, live \cap gone = {}, NEW lead,
         SyncGroup(r, rs, live, gone, lead).ok
  PROVE  GroupCommitted(SyncGroup(r, rs, live, gone, lead), r, rs, live, gone, lead)
<1> DEFINE R      == SyncGroup(r, rs, live, gone, lead)
           blobs  == [id \in live |-> Data(id, rs[id])]
           b      == rs[lead].branch
           old    == IF b \in DOMAIN r.refs THEN r.refs[b] ELSE <<>>
           tree   == Over(blobs, [id \in DOMAIN old \ gone |-> old[id]])
           c      == CommitTo(r, b, blobs, gone)
           marked == [id \in DOMAIN r.recs \ gone |->
                        IF id \in live THEN [r.recs[id] EXCEPT !.hash = disk[id]] ELSE r.recs[id]]
           refs2  == SetBranch(r.refs, b, tree)
<1>0. /\ r = [refs |-> r.refs, commits |-> r.commits, recs |-> r.recs, ok |-> r.ok]
      /\ \A id \in DOMAIN r.recs : r.recs[id] \in Records
  BY SyncStateParts
<1>1. R = IF ~c.ok THEN c
          ELSE [c EXCEPT !.recs = [id \in DOMAIN c.recs \ gone |->
                  IF id \in live THEN [c.recs[id] EXCEPT !.hash = disk[id]] ELSE c.recs[id]]]
  BY DEF SyncGroup
<1>2. c = IF ~r.ok \/ \E d \in DOMAIN r.refs : Clash(b, d) THEN [r EXCEPT !.ok = FALSE]
          ELSE [refs |-> refs2, commits |-> r.commits \cup {tree}, recs |-> r.recs, ok |-> TRUE]
  BY DEF CommitTo, SetBranch
<1> HIDE DEF c, R, refs2
<1>3. r.ok /\ c = [refs |-> refs2, commits |-> r.commits \cup {tree}, recs |-> r.recs, ok |-> TRUE]
  <2>1. SUFFICES ASSUME c = [r EXCEPT !.ok = FALSE] PROVE FALSE BY <1>2
  <2>2. ~c.ok BY <1>0, <2>1
  <2>3. R.ok BY DEF R
  <2> QED BY <1>1, <2>2, <2>3
<1>4. R.recs = marked /\ R.refs = refs2
  <2> HIDE DEF tree
  <2> QED BY <1>1, <1>3
<1>5. \A id, d : Show(refs2, d, id) = IF d = b THEN (IF id \in DOMAIN tree THEN tree[id] ELSE Gone)
                                      ELSE Show(r.refs, d, id)
  <2>1. DOMAIN refs2 = {b} \cup DOMAIN r.refs /\ \A d \in DOMAIN refs2 : refs2[d] = IF d = b THEN tree ELSE r.refs[d]
    <3> HIDE DEF b, tree
    <3> QED BY DEF refs2, SetBranch, Over
  <2> HIDE DEF b, tree
  <2> QED BY <2>1 DEF Show
<1>6. /\ DOMAIN tree = live \cup (DOMAIN old \ gone)
      /\ \A id \in DOMAIN tree : tree[id] = IF id \in live THEN Data(id, rs[id]) ELSE old[id]
  <2> HIDE DEF old, b
  <2> QED BY DEF Over
<1>7. \A id : Show(r.refs, b, id) = IF id \in DOMAIN old THEN old[id] ELSE Gone
  <2>1. CASE b \in DOMAIN r.refs
    <3>1. old = r.refs[b] BY <2>1
    <3> HIDE DEF old, b
    <3> QED BY <2>1, <3>1 DEF Show
  <2>2. CASE b \notin DOMAIN r.refs
    <3>1. old = <<>> BY <2>2
    <3>2. DOMAIN old = {}
      <4> HIDE DEF old
      <4> QED BY <3>1
    <3> HIDE DEF old, b
    <3> QED BY <2>2, <3>2 DEF Show
  <2> QED BY <2>1, <2>2
<1>a. /\ DOMAIN marked = DOMAIN r.recs \ gone
      /\ \A id \in DOMAIN r.recs \ gone : marked[id].hash = IF id \in live THEN disk[id] ELSE r.recs[id].hash
  BY <1>0 DEF Records
<1> HIDE DEF tree, old, marked, b
<1>8. \A id \in live : Show(refs2, b, id) = Data(id, rs[id]) BY <1>5, <1>6
<1>9. \A id, d : id \notin live \cup gone => Show(refs2, d, id) = Show(r.refs, d, id) BY <1>5, <1>6, <1>7
<1> QED BY <1>3, <1>4, <1>8, <1>9, <1>a DEF R, b, GroupCommitted
\* What becomes of the repository and the records when all groups are: R.
SyncCommitted(R, rs, ids, up, l) ==
  /\ \A id \in SyncLive(rs, ids, up) :
       /\ Show(R.refs, rs[l[GroupKey(id, rs[id])]].branch, id) = Data(id, rs[id])
       /\ R.recs[id].hash = disk[id]
  /\ \A id \in SyncRead(rs, ids, up) \ SyncLive(rs, ids, up) :
       /\ \A b : Show(R.refs, b, id) = Show(refs, b, id)
       /\ R.recs[id].hash = disk[id]
  /\ DOMAIN R.recs = DOMAIN rs \ SyncGone(rs, ids)

\* All groups, in a Sync that did not fail.
LEMMA RunShows ==
  ASSUME TrackInv, NEW rs \in RecMaps(DOMAIN refs), NEW ids \in SUBSET DOMAIN rs, NEW up,
         NEW it, NEW n, NEW order, NEW l, SyncRun(it, n, order, l, rs, ids, up), it[1..n].ok
  PROVE  SyncCommitted(it[1..n], rs, ids, up, l)
<1> DEFINE live == SyncLive(rs, ids, up)
           gone == SyncGone(rs, ids)
           read == SyncRead(rs, ids, up)
           keys == SyncKeys(rs, ids, up)
           key(id) == GroupKey(id, rs[id])
           Done(s) == {order[i] : i \in s}
           Shown(q, s) ==
             /\ \A id \in live : key(id) \in Done(s) =>
                  Show(q.refs, rs[l[key(id)]].branch, id) = Data(id, rs[id]) /\ q.recs[id].hash = disk[id]
             /\ \A id \in read \ live :
                  (\A b : Show(q.refs, b, id) = Show(refs, b, id)) /\ q.recs[id].hash = disk[id]
             /\ DOMAIN q.recs = DOMAIN rs \ {id \in gone : key(id) \in Done(s)}
           Good == {s \in SUBSET (1..n) : it[s].ok => Shown(it[s], s)}
<1>1. /\ n \in Nat /\ order \in [1..n -> keys] /\ \A k \in keys : \E i \in 1..n : order[i] = k
      /\ \A s \in SUBSET (1..n) :
           /\ it[s] \in SyncStates(rs)
           /\ it[s] = IF s = {} THEN SyncStart(rs, ids, up)
                      ELSE OfGroup(it[s \ {Max(s)}], order[Max(s)], l, rs, ids, up)
  BY DEF SyncRun
<1>2. /\ live \subseteq read /\ read \subseteq DOMAIN rs /\ gone \subseteq DOMAIN rs /\ gone \cap read = {}
      /\ \A id \in live \cup gone : key(id) \in keys
  BY DEF SyncLive, SyncGone, SyncRead, SyncScope, SyncKeys
<1>3. \A id \in DOMAIN rs : rs[id] \in Records BY DEF RecMaps, RecordFits
<1>4. {} \in Good
  <2>1. it[{}] = SyncStart(rs, ids, up) BY <1>1
  <2>2. it[{}].refs = refs /\ it[{}].recs = SyncFresh(rs, ids, up) BY <2>1 DEF SyncStart
  <2>3. DOMAIN it[{}].recs = DOMAIN rs /\ \A id \in read \ live : it[{}].recs[id].hash = disk[id]
    BY <1>2, <1>3, <2>2 DEF SyncFresh, Records
  <2>4. Done({}) = {} OBVIOUS
  <2> HIDE DEF live, read, gone, Done
  <2> QED BY <2>2, <2>3, <2>4
<1>5. ASSUME NEW s \in (SUBSET (1..n)) \ {{}}, s \ {Max(s)} \in Good, it[s].ok
      PROVE  Shown(it[s], s)
  <2> DEFINE u == s \ {Max(s)}
             k == order[Max(s)]
             L == InGroup(rs, k, live)
             G == InGroup(rs, k, gone)
  <2>0. it[s].ok BY <1>5
  <2>1. Max(s) \in s /\ u \in SUBSET (1..n) BY <1>1, MaxIsIn
  <2>2. it[s] = SyncGroup(it[u], rs, L, G, l[k]) BY <1>1 DEF OfGroup
  <2>3. it[u] \in SyncStates(rs) /\ \A id \in DOMAIN it[u].recs : it[u].recs[id] \in Records
    <3>1. it[u] \in SyncStates(rs) BY <1>1, <2>1
    <3> HIDE DEF u
    <3> QED BY <3>1, SyncStateParts
  <2>4. Done(s) = Done(u) \cup {k} BY <2>1
  <2>5. /\ L = {id \in live : key(id) = k} /\ G = {id \in gone : key(id) = k} /\ L \cap G = {}
    BY <1>2 DEF InGroup
  <2> HIDE DEF u, k, L, G, live, gone, read, Done
  <2>6. GroupCommitted(it[s], it[u], rs, L, G, l[k]) BY <2>0, <2>2, <2>3, <2>5, GroupShows
  <2> USE DEF GroupCommitted
  <2>7. Shown(it[u], u) BY <1>5, <2>6 DEF u
  <2>8. DOMAIN it[s].recs = DOMAIN rs \ {id \in gone : key(id) \in Done(s)}
    BY <2>4, <2>5, <2>6, <2>7
  <2>9. ASSUME NEW id \in read \ G
        PROVE  it[s].recs[id].hash = IF id \in L THEN disk[id] ELSE it[u].recs[id].hash
    <3>1. id \in DOMAIN it[u].recs BY <1>2, <2>7
    <3> QED BY <2>3, <2>6, <2>9, <3>1 DEF Records
  <2>10. ASSUME NEW id \in live, key(id) \in Done(s)
         PROVE  Show(it[s].refs, rs[l[key(id)]].branch, id) = Data(id, rs[id]) /\ it[s].recs[id].hash = disk[id]
    <3>0. id \in read \ G BY <1>2, <2>5
    <3>1. CASE key(id) = k BY <2>5, <2>6, <2>9, <3>0, <3>1
    <3>2. CASE key(id) # k
      <4>1. id \notin L \cup G /\ key(id) \in Done(u) BY <2>4, <2>5, <2>10, <3>2
      <4> QED BY <2>6, <2>7, <2>9, <3>0, <4>1
    <3> QED BY <3>1, <3>2
  <2>11. ASSUME NEW id \in read \ live
         PROVE  (\A b : Show(it[s].refs, b, id) = Show(refs, b, id)) /\ it[s].recs[id].hash = disk[id]
    <3>1. id \notin L \cup G /\ id \in read \ G BY <1>2, <2>5
    <3> QED BY <2>6, <2>7, <2>9, <3>1
  <2> QED BY <2>8, <2>10, <2>11
<1> HIDE DEF Shown
<1>6. 1..n \in Good
  <2>1. \A s \in (SUBSET (1..n)) \ {{}} : Max(s) \in s BY <1>1, MaxIsIn
  <2>2. ASSUME NEW s \in SUBSET (1..n), \A v \in (SUBSET s) \ {s} : v \in Good PROVE s \in Good
    <3>1. CASE s = {} BY <1>4, <3>1
    <3>2. CASE s # {}
      <4>1. s \ {Max(s)} \in (SUBSET s) \ {s} BY <2>1, <3>2
      <4> QED BY <1>5, <2>2, <3>2, <4>1
    <3> QED BY <3>1, <3>2
  <2>3. IsFiniteSet(1..n) BY <1>1, FS_Interval
  <2>4. \A s \in SUBSET (1..n) : (\A v \in (SUBSET s) \ {s} : v \in Good) => s \in Good BY <2>2
  <2> DEFINE S == 1..n
  <2> HIDE DEF Good, S
  <2>5. SUBSET S \subseteq Good
    <3>1. IsFiniteSet(S) BY <2>3 DEF S
    <3>2. \A s \in SUBSET S : (\A v \in (SUBSET s) \ {s} : v \in Good) => s \in Good BY <2>4 DEF S
    <3> QED BY <3>1, <3>2, SubsetsAll
  <2> QED BY <2>5 DEF S
<1>7. Shown(it[1..n], 1..n) BY <1>6
<1>8. \A id \in live \cup gone : key(id) \in Done(1..n) BY <1>1, <1>2
<1> QED
  <2> HIDE DEF Done, live, gone, read
  <2>1. {id \in gone : key(id) \in Done(1..n)} = gone BY <1>8
  <2>2. DOMAIN it[1..n].recs = DOMAIN rs \ gone BY <1>7, <2>1 DEF Shown
  <2> QED BY <1>7, <1>8, <2>2 DEF Shown, live, gone, read, SyncCommitted
-----------------------------------------------------------------------------
(* The Sync of what has just been tracked.                                 *)

\* A Sync of present files of one group, whose branches are all b, which is in
\* the way of no branch, does not fail, and afterwards b has what they are.
LEMMA GroupSyncs ==
  ASSUME TrackInv, NEW rs \in RecMaps(DOMAIN refs), NEW ids \in SUBSET DOMAIN rs, NEW up, NEW b \in Branches,
         \A d \in DOMAIN refs : ~Clash(b, d),
         \A id \in ids : rs[id].branch = b /\ rs[id].mode # "hash" /\ disk[id] # Gone
                          /\ HostOf(id) \in up \cup {Here},
         NEW r \in Sync(rs, ids, up)
  PROVE  r.ok /\ \A id \in ids : Show(r.refs, b, id) = Data(id, rs[id])
<1> DEFINE live == SyncLive(rs, ids, up)
<1>1. PICK it, n, order, l : SyncRun(it, n, order, l, rs, ids, up) /\ r = it[1..n] BY SyncRuns
<1>2. SyncGone(rs, ids) = {} /\ SyncRead(rs, ids, up) = ids /\ live \subseteq ids
  BY DEF SyncGone, SyncRead, SyncScope, SyncLive
<1>3. \A k \in SyncKeys(rs, ids, up) : l[k] \in ids
  <2>1. \A k \in SyncKeys(rs, ids, up) : l[k] \in live \cup {} BY <1>1, <1>2 DEF SyncRun, SyncLeads
  <2> QED BY <1>2, <2>1
<1> DEFINE Fine(q) == q.ok /\ DOMAIN q.refs \subseteq DOMAIN refs \cup {b}
           Good    == {q \in SyncStates(rs) : Fine(q)}
<1>4. ASSUME NEW q \in Good, NEW k \in SyncKeys(rs, ids, up) PROVE Fine(OfGroup(q, k, l, rs, ids, up))
  <2> DEFINE L     == InGroup(rs, k, live)
             G     == InGroup(rs, k, SyncGone(rs, ids))
             blobs == [id \in L |-> Data(id, rs[id])]
             old   == IF b \in DOMAIN q.refs THEN q.refs[b] ELSE <<>>
             tree  == Over(blobs, [id \in DOMAIN old \ G |-> old[id]])
             refs2 == SetBranch(q.refs, b, tree)
             c     == CommitTo(q, b, blobs, G)
  <2>1. rs[l[k]].branch = b BY <1>3
  <2>2. \A d \in DOMAIN q.refs : ~Clash(b, d) BY NoSelfClash
  <2>3. q.ok BY DEF Good
  <2>4. c = [refs |-> refs2, commits |-> q.commits \cup {tree}, recs |-> q.recs, ok |-> TRUE]
    BY <2>2, <2>3 DEF CommitTo, SetBranch
  <2>5. DOMAIN refs2 = {b} \cup DOMAIN q.refs
    <3> HIDE DEF tree
    <3> QED BY DEF SetBranch, Over
  <2>6. OfGroup(q, k, l, rs, ids, up)
          = IF ~c.ok THEN c
            ELSE [c EXCEPT !.recs = [id \in DOMAIN c.recs \ G |->
                    IF id \in L THEN [c.recs[id] EXCEPT !.hash = disk[id]] ELSE c.recs[id]]]
    BY <2>1 DEF OfGroup, SyncGroup
  <2> DEFINE marked == [id \in DOMAIN c.recs \ G |->
                    IF id \in L THEN [c.recs[id] EXCEPT !.hash = disk[id]] ELSE c.recs[id]]
  <2>7. c.ok /\ OfGroup(q, k, l, rs, ids, up) = [c EXCEPT !.recs = marked] BY <2>4, <2>6
  <2> HIDE DEF marked, c, refs2, tree
  <2>8. /\ OfGroup(q, k, l, rs, ids, up).ok
        /\ OfGroup(q, k, l, rs, ids, up).refs = refs2
    BY <2>4, <2>7
  <2> QED BY <2>5, <2>8
<1>5. it[1..n] \in Good
  <2>1. it[{}] = SyncStart(rs, ids, up) /\ it[{}] \in SyncStates(rs) BY <1>1 DEF SyncRun
  <2>2. it[{}] \in Good BY <2>1 DEF SyncStart
  <2>3. ASSUME NEW s \in (SUBSET (1..n)) \ {{}}, Max(s) \in s, it[s \ {Max(s)}] \in Good
        PROVE  it[s] \in Good
    <3>1. order[Max(s)] \in SyncKeys(rs, ids, up) BY <1>1, <2>3 DEF SyncRun
    <3>2. it[s] \in SyncStates(rs) /\ it[s] = OfGroup(it[s \ {Max(s)}], order[Max(s)], l, rs, ids, up)
      BY <1>1 DEF SyncRun
    <3> DEFINE u == it[s \ {Max(s)}]
               k == order[Max(s)]
    <3>3. u \in Good /\ k \in SyncKeys(rs, ids, up) /\ it[s] = OfGroup(u, k, l, rs, ids, up)
      BY <2>3, <3>1, <3>2
    <3> HIDE DEF Good, Fine, u, k
    <3>4. Fine(OfGroup(u, k, l, rs, ids, up)) BY <1>4, <3>3
    <3>5. Fine(it[s]) BY <3>3, <3>4
    <3> QED BY <3>2, <3>5 DEF Good
  <2>4. n \in Nat BY <1>1 DEF SyncRun
  <2> HIDE DEF Good
  <2> QED BY <2>2, <2>3, <2>4, FoldLeftKeeps
<1>6. r.ok BY <1>1, <1>5
<1>7. SyncCommitted(r, rs, ids, up, l) BY <1>1, <1>6, RunShows
<1>8. ASSUME NEW id \in ids PROVE Show(r.refs, b, id) = Data(id, rs[id])
  <2>1. CASE id \in live
    <3>1. GroupKey(id, rs[id]) \in SyncKeys(rs, ids, up) BY <2>1 DEF SyncKeys
    <3>2. rs[l[GroupKey(id, rs[id])]].branch = b BY <1>3, <3>1
    <3> QED BY <1>7, <2>1, <3>2 DEF SyncCommitted
  <2>2. CASE id \notin live
    <3>1. Show(r.refs, b, id) = Show(refs, b, id) BY <1>2, <1>7, <2>2 DEF SyncCommitted
    <3>2. ~Changed(id, rs[id]) BY <1>2, <2>2 DEF SyncLive
    <3> QED BY <3>1, <3>2 DEF Changed
  <2> QED BY <2>1, <2>2
<1> QED BY <1>6, <1>8

\* A directory is told from none.
LEMMA DirIsSome == \A p \in Dirs : p # None
<1> SUFFICES ASSUME NEW p \in Dirs PROVE p \in Seq(Nat) OBVIOUS
<1>1. p \in Seq(Names) BY NameSequences
<1>2. \A i \in 1..Len(p) : p[i] \in Names BY <1>1
<1>3. DOMAIN p = 1..Len(p) /\ Len(p) \in Nat /\ p = [i \in 1..Len(p) |-> p[i]] BY <1>1
<1>4. p \in [1..Len(p) -> Nat] BY <1>2, <1>3, NameSequences
<1> QED BY <1>3, <1>4

\* track of the files ids of one host, a file or those of a directory.
LEMMA TracksStores ==
  ASSUME TrackInv, NEW ids \in SUBSET Ids, NEW group \in Dirs \cup {None}, NEW mode \in Modes, NEW host,
         Tracks(ids, {}, group, mode, Servers),
         \A id \in ids : Trackable(recs, id, mode) /\ (HostOf(id) # Here => mode \in ServerModes),
         \A id \in ids : HostOf(id) = host,
         group = None => \A i, j \in ids : i = j,
         \A id \in ids : id \in DOMAIN recs' /\ recs'[id].mode \notin {"local", "hash"} /\ LookedUp(id)
  PROVE  \A id \in ids : Show(refs', recs'[id].branch, id) = Data(id, recs'[id])
<1> SUFFICES ASSUME NEW some \in ids PROVE Show(refs', recs'[some].branch, some) = Data(some, recs'[some])
  OBVIOUS
<1> DEFINE groups == [id \in ids |-> group]
<1>1. PICK seen \in Listings(ids) :
        LET rs == Over([id \in ids |-> NewRecord(seen[id], id, group, mode)], recs) IN
        IF mode \in {"local", "hash"} THEN recs' = rs ELSE SyncFiles(rs, ids, FALSE, Servers)
  BY DEF Tracks
<1> DEFINE rs == Added(recs, ids, groups, mode, seen)
           b  == BranchFor(DOMAIN refs, some, group, mode)
<1>2. rs = Over([id \in ids |-> NewRecord(seen[id], id, group, mode)], recs) BY DEF Added
<1>3. recs \in RecMaps(DOMAIN refs) /\ groups \in [ids -> Dirs \cup {None}] BY DEF TrackInv
<1>4. \A id \in ids : /\ disk[id] # Gone /\ (PathOf(id) \in Denied => mode = "hash")
                      /\ (HostOf(id) # Here => mode \in ServerModes)
  BY DEF Trackable
<1>5. ids \subseteq DOMAIN rs /\ \A id \in ids : rs[id].mode = mode /\ rs[id].group = group
  <2> DEFINE new == [id \in ids |-> NewRecord(seen[id], id, group, mode)]
  <2>1. DOMAIN new = ids OBVIOUS
  <2>2. \A id \in ids : new[id].mode = mode /\ new[id].group = group BY DEF NewRecord
  <2>3. rs = Over(new, recs) BY <1>2
  <2> HIDE DEF new, rs
  <2>4. ids \subseteq DOMAIN rs /\ \A id \in ids : rs[id] = new[id] BY <2>1, <2>3 DEF Over
  <2> QED BY <2>2, <2>4
<1>6. IF mode \in {"local", "hash"} THEN recs' = rs ELSE SyncFiles(rs, ids, FALSE, Servers) BY <1>1, <1>2
<1> HIDE DEF groups
<1>7. rs \in RecMaps(DOMAIN refs) BY <1>3, <1>4, NewRecordsFit
<1> HIDE DEF rs
<1>8. mode \notin {"local", "hash"} /\ SyncFiles(rs, ids, FALSE, Servers) BY <1>5, <1>6
<1>9. PICK q \in Sync(rs, ids, Servers) : recs' = q.recs /\ refs' = q.refs BY <1>8 DEF SyncFiles
<1>10. q \in SyncStates(rs) BY <1>5, <1>7, <1>9, SyncKeeps
<1>11. ASSUME NEW id \in ids
       PROVE  recs'[id].mode = mode /\ recs'[id].group = group /\ recs'[id].branch = rs[id].branch
  <2>1. id \in DOMAIN q.recs BY <1>9
  <2>2. q.recs[id] = [rs[id] EXCEPT !.hash = q.recs[id].hash] BY <1>10, <2>1, SyncStateParts
  <2>3. rs[id] \in Records BY <1>5, <1>7 DEF RecMaps, RecordFits
  <2> QED BY <1>5, <1>9, <2>2, <2>3 DEF Records
<1>12. ASSUME NEW id \in ids PROVE rs[id].branch = b
  <2>1. rs[id].branch = BranchFor(DOMAIN refs, id, group, mode) BY <1>11 DEF LookedUp
  <2>2. CASE group = None BY <2>1, <2>2
  <2>3. CASE group # None
    <3>1. HostOf(id) = HostOf(some) OBVIOUS
    <3> QED BY <2>1, <2>3, <3>1 DEF BranchFor
  <2> QED BY <2>2, <2>3
<1>13. b \in Branches /\ \A d \in DOMAIN refs : ~Clash(b, d)
  <2>1. DOMAIN refs \in SUBSET Branches /\ IsFiniteSet(DOMAIN refs) BY DEF TrackInv, RepoInv, Repos
  <2>2. BaseName(some, group, mode) \in Branches BY BaseNames
  <2>3. b = resolveTrackBranch(DOMAIN refs, BaseName(some, group, mode)) BY <1>8 DEF BranchFor, BaseName
  <2> HIDE DEF b
  <2> QED BY <2>1, <2>2, <2>3, ResolveAvoids
<1> HIDE DEF b
<1>14. \A id \in ids : HostOf(id) \in Servers \cup {Here} BY DEF Ids, Hosts, HostOf
<1>15. \A id \in ids : rs[id].mode # "hash" BY <1>5, <1>8
<1>16. Show(q.refs, b, some) = Data(some, rs[some])
  BY <1>4, <1>5, <1>7, <1>9, <1>12, <1>13, <1>14, <1>15, GroupSyncs
<1> QED BY <1>5, <1>9, <1>11, <1>12, <1>16 DEF Data

-----------------------------------------------------------------------------
(* After a Sync of all files.                                              *)

\* What is committed is what there is.  A group's branch may not be that of each
\* of its files.
Stored(id) ==
  \E j \in DOMAIN recs : /\ recs[j].mode # "hash" /\ GroupKey(j, recs[j]) = GroupKey(id, recs[id])
                         /\ Show(refs, recs[j].branch, id) = Data(id, recs[id])
Synced ==
  /\ New \subseteq Denied
  /\ DOMAIN recs \subseteq manifest
  /\ \A id \in DOMAIN recs : recs[id].mode # "hash" =>
       /\ HostOf(id) = Here => disk[id] # Gone
       /\ disk[id] # Gone => recs[id].hash = disk[id] /\ Stored(id)

SyncedInv == settled => Synced

\* No file is new beside rs but the denied.
NoneNew(rs) == \A d \in GroupDirs(rs) : Walked(rs, d) \subseteq Denied

\* Nor is one when the new files have been tracked.
LEMMA AutoTrackNoneNew ==
  ASSUME TrackInv, NEW rs \in RecMaps(DOMAIN refs), NEW all \in AutoTrack(rs, GroupDirs(rs))
  PROVE  NoneNew(all)
<1> DEFINE dirs == GroupDirs(rs)
           new == {p \in UNION {Walked(rs, d) : d \in dirs} : Trackable(rs, <<Here, p>>, "plain")}
           J == {<<Here, p>> : p \in new}
<1>1. PICK own \in [new -> dirs], seen \in Listings(J) :
        all = Over([id \in J |-> NewRecord(seen[id], id, own[PathOf(id)], "plain")], rs)
  <2>1. all \in TrackedFor(rs, new, dirs) BY DEF AutoTrack
  <2> HIDE DEF new
  <2>2. PICK seen \in Listings(J) :
          all \in {Over([id \in J |-> NewRecord(seen[id], id, own[PathOf(id)], "plain")], rs) :
                     own \in {o \in [new -> dirs] : \A p \in new : p \in Walked(rs, o[p])}}
    BY <2>1 DEF TrackedFor
  <2> QED BY <2>2
<1>2. /\ DOMAIN all = J \cup DOMAIN rs
      /\ \A id \in DOMAIN all :
           all[id] = IF id \in J THEN NewRecord(seen[id], id, own[PathOf(id)], "plain") ELSE rs[id]
  <2> HIDE DEF J
  <2> QED BY <1>1 DEF Over
<1>3. \A id \in J : PathOf(id) \in new /\ own[PathOf(id)] \in dirs
  <2> HIDE DEF new, dirs
  <2> QED BY DEF PathOf
<1>4. GroupDirs(all) \subseteq dirs
  <2> SUFFICES ASSUME NEW id \in DOMAIN all, HostOf(id) = Here, all[id].group # None PROVE all[id].group \in dirs
    BY DEF GroupDirs
  <2>1. CASE id \in J
    <3>0. all[id] = NewRecord(seen[id], id, own[PathOf(id)], "plain")
      <4> HIDE DEF J
      <4> QED BY <1>2, <2>1
    <3>1. all[id].group = own[PathOf(id)] BY <3>0 DEF NewRecord
    <3> QED BY <1>3, <2>1, <3>1
  <2>2. CASE id \notin J BY <1>2, <2>2 DEF GroupDirs
  <2> QED BY <2>1, <2>2
<1>5. ASSUME NEW d \in dirs, NEW p \in Walked(all, d) PROVE p \in Denied
  <2>1. /\ p \in Paths /\ disk[<<Here, p>>] # Gone /\ Under(p, d) /\ ~Hidden(p, d)
        /\ ~\E id \in DOMAIN all : PathOf(id) = p
    BY <1>5 DEF Walked
  <2>2. p \in Walked(rs, d) BY <1>2, <2>1 DEF Walked
  <2>3. <<Here, p>> \notin DOMAIN all /\ PathOf(<<Here, p>>) = p BY <2>1 DEF PathOf
  <2>4. p \notin new BY <1>2, <2>3
  <2>5. ~Trackable(rs, <<Here, p>>, "plain") BY <2>2, <2>4
  <2> QED BY <1>2, <2>1, <2>3, <2>5 DEF Trackable
<1> QED BY <1>4, <1>5 DEF NoneNew

\* What a Sync of all the records there are leaves.
LEMMA SyncFilesSynced ==
  ASSUME TrackInv, NEW rs \in RecMaps(DOMAIN refs), NoneNew(rs), NEW up,
         SyncFiles(rs, DOMAIN rs, TRUE, up), UNCHANGED <<disk, excludes>>, settled'
  PROVE  Synced'
<1> DEFINE ids  == DOMAIN rs
           live == SyncLive(rs, ids, up)
           read == SyncRead(rs, ids, up)
           gone == SyncGone(rs, ids)
           key(id) == GroupKey(id, rs[id])
<1>1. PICK r \in Sync(rs, ids, up) :
        /\ recs' = r.recs /\ refs' = r.refs
        /\ manifest' = IF r.ok /\ DOMAIN rs # {} THEN DOMAIN rs ELSE manifest
        /\ settled' = (TRUE /\ r.ok /\ up = Servers)
  BY DEF SyncFiles
<1>2. r.ok /\ up = Servers BY <1>1
<1>3. PICK it, n, order, l : SyncRun(it, n, order, l, rs, ids, up) /\ r = it[1..n] BY <1>1, SyncRuns
<1>4. /\ \A id \in live : Show(refs', rs[l[key(id)]].branch, id) = Data(id, rs[id]) /\ recs'[id].hash = disk[id]
      /\ \A id \in read \ live : (\A b : Show(refs', b, id) = Show(refs, b, id)) /\ recs'[id].hash = disk[id]
      /\ DOMAIN recs' = DOMAIN rs \ gone
  <2>1. ids \in SUBSET DOMAIN rs OBVIOUS
  <2> HIDE DEF ids
  <2>2. SyncCommitted(r, rs, ids, up, l) BY <1>2, <1>3, <2>1, RunShows
  <2> QED BY <1>1, <2>2 DEF SyncCommitted, ids
<1>5. \A id \in DOMAIN recs' :
        recs'[id].mode = rs[id].mode /\ recs'[id].group = rs[id].group /\ recs'[id].branch = rs[id].branch
  <2> TAKE id \in DOMAIN recs'
  <2>1. r \in SyncStates(rs) BY <1>1, SyncKeeps
  <2>2. rs[id] \in Records BY <1>4 DEF RecMaps, RecordFits
  <2>3. recs'[id] = [rs[id] EXCEPT !.hash = recs'[id].hash] BY <1>1, <2>1, SyncStateParts
  <2> QED BY <2>2, <2>3 DEF Records
<1>6. /\ live \subseteq read /\ read \subseteq DOMAIN rs /\ gone \cap read = {}
      /\ gone = {id \in DOMAIN rs : rs[id].mode # "hash" /\ disk[id] = Gone /\ HostOf(id) = Here}
      /\ \A id \in read : rs[id].mode # "hash"
  BY DEF SyncLive, SyncRead, SyncGone, SyncScope
<1>7. \A id \in DOMAIN rs : rs[id].mode # "hash" /\ disk[id] # Gone => id \in read
  <2>1. \A id \in DOMAIN rs : HostOf(id) \in {Here} \cup Servers BY DEF RecMaps, Ids, Hosts, HostOf
  <2> QED BY <1>2, <2>1 DEF SyncRead, SyncScope
<1>8. ASSUME NEW id \in live
      PROVE  l[key(id)] \in live /\ key(l[key(id)]) = key(id)
  <2>1. key(id) \in SyncKeys(rs, ids, up) BY DEF SyncKeys
  <2>2. id \in InGroup(rs, key(id), live) BY DEF InGroup
  <2>3. l \in SyncLeads(rs, ids, up) BY <1>3 DEF SyncRun
  <2>4. l[key(id)] \in InGroup(rs, key(id), live) BY <2>1, <2>2, <2>3 DEF SyncLeads
  <2> QED BY <2>4 DEF InGroup
<1> HIDE DEF ids, live, read, gone
<1>9. \A id \in DOMAIN recs' : GroupKey(id, recs'[id]) = key(id) /\ Data(id, recs[id])' = Data(id, rs[id])
  BY <1>5 DEF GroupKey, Data
<1>10. ASSUME NEW id \in read
       PROVE  recs'[id].hash = disk[id] /\ Stored(id)'
  <2>0. id \in DOMAIN recs' BY <1>4, <1>6
  <2>1. CASE id \in live
    <3> DEFINE j == l[key(id)]
    <3>1. j \in live /\ key(j) = key(id) BY <1>8, <2>1
    <3> HIDE DEF j
    <3>2. j \in DOMAIN recs' /\ recs'[j].mode # "hash" BY <1>4, <1>5, <1>6, <3>1
    <3>3. GroupKey(j, recs'[j]) = GroupKey(id, recs'[id]) BY <1>9, <2>0, <3>1, <3>2
    <3>4. Show(refs', recs'[j].branch, id) = Data(id, recs[id])'
      <4>1. Show(refs', rs[j].branch, id) = Data(id, rs[id]) BY <1>4, <2>1 DEF j
      <4> QED BY <1>5, <1>9, <2>0, <3>2, <4>1
    <3>5. Stored(id)' BY <3>2, <3>3, <3>4 DEF Stored
    <3> QED BY <1>4, <2>1, <3>5
  <2>2. CASE id \notin live
    <3>1. ~Changed(id, rs[id]) BY <2>2 DEF live, read, SyncLive
    <3>2. Data(id, rs[id]) = Show(refs, rs[id].branch, id) BY <3>1 DEF Changed
    <3>3. Show(refs', recs'[id].branch, id) = Data(id, recs[id])' BY <1>4, <1>5, <1>9, <2>0, <2>2, <3>2
    <3>4. recs'[id].mode # "hash" BY <1>5, <1>6, <2>0
    <3>5. Stored(id)' BY <2>0, <3>3, <3>4 DEF Stored
    <3> QED BY <1>4, <2>2, <3>5
  <2> QED BY <2>1, <2>2
<1>11. New' \subseteq Denied
  <2> SUFFICES ASSUME NEW d \in GroupDirs(recs'), NEW p \in Walked(recs, d)' PROVE p \in Denied
    BY DEF New
  <2>1. /\ p \in Paths /\ disk[<<Here, p>>] # Gone /\ Under(p, d) /\ ~Hidden(p, d)
        /\ ~\E id \in DOMAIN recs' : PathOf(id) = p
    BY DEF Walked, Hidden
  <2>2. d \in GroupDirs(rs) BY <1>4, <1>5 DEF GroupDirs
  <2>3. ASSUME NEW id \in DOMAIN rs, PathOf(id) = p PROVE FALSE
    <3>1. id \in gone BY <1>4, <2>1, <2>3
    <3>2. id \in Ids /\ HostOf(id) = Here /\ disk[id] = Gone BY <1>6, <3>1 DEF RecMaps
    <3>3. id = <<Here, p>> BY <2>3, <3>2 DEF Ids, HostOf, PathOf
    <3> QED BY <2>1, <3>2, <3>3
  <2>4. p \in Walked(rs, d) BY <2>1, <2>3 DEF Walked
  <2> QED BY <2>2, <2>4 DEF NoneNew
<1>12. DOMAIN recs' \subseteq manifest' BY <1>1, <1>2, <1>4
<1>13. ASSUME NEW id \in DOMAIN recs', recs'[id].mode # "hash"
       PROVE  /\ HostOf(id) = Here => disk'[id] # Gone
              /\ disk'[id] # Gone => recs'[id].hash = disk'[id] /\ Stored(id)'
  <2>1. id \in DOMAIN rs /\ rs[id].mode # "hash" /\ id \notin gone BY <1>4, <1>5, <1>13
  <2> QED BY <1>6, <1>7, <1>10, <2>1
<1> QED BY <1>11, <1>12, <1>13 DEF Synced
\* A Sync of the records found is of all only when it is with the new files.
LEMMA SyncFoundSynced ==
  ASSUME TrackInv, NEW rs \in RecMaps(DOMAIN refs), NEW found, NEW host, NEW up,
         SyncFound(rs, found, host, up), UNCHANGED <<disk, excludes>>, settled'
  PROVE  Synced'
<1>1. PICK all \in AutoTrack(rs, GroupDirs(rs)) : SyncFiles(all, DOMAIN all, TRUE, up)
  BY DEF SyncFound, SyncFiles
<1>2. all \in RecMaps(DOMAIN refs) BY GroupDirsAreDirs, AutoTrackFits
<1>3. NoneNew(all) BY AutoTrackNoneNew
<1> QED BY <1>1, <1>2, <1>3, SyncFilesSynced

\* Only such a Sync makes settled true.
LEMMA SyncedStep == TrackInv /\ SyncedInv /\ [Next]_vars => SyncedInv'
<1> SUFFICES ASSUME TrackInv, SyncedInv, [Next]_vars, settled' PROVE Synced' BY DEF SyncedInv
<1>0. recs \in RecMaps(DOMAIN refs) BY DEF TrackInv
<1>1. CASE UNCHANGED vars
  BY <1>1 DEF vars, state, repo, SyncedInv, Synced, Stored, New, Walked, GroupDirs, Hidden, Data
<1>2. ASSUME NEW up, SyncAll(up) PROVE Synced'
  BY <1>0, <1>2, SyncFoundSynced DEF SyncAll
<1>3. ASSUME NEW up, NEW host, NEW id \in DOMAIN recs, SyncId(id, host, up) PROVE Synced'
  BY <1>0, <1>3, SyncFoundSynced DEF SyncId
<1>4. ASSUME NEW up, NEW host, NEW target, NEW named, SyncTarget(target, named, host, up) PROVE Synced'
  <2>1. PICK rs \in AutoTrack(recs, {d \in GroupDirs(recs) : Under(d, target)}) :
          SyncFound(rs, resolveSyncTarget(rs, target), host, up)
    BY <1>4 DEF SyncTarget
  <2>2. {d \in GroupDirs(recs) : Under(d, target)} \in SUBSET Dirs BY <1>0, GroupDirsAreDirs
  <2>3. rs \in RecMaps(DOMAIN refs) BY <1>0, <2>2, AutoTrackFits
  <2>4. UNCHANGED <<disk, excludes>> BY <1>4 DEF SyncTarget
  <2> QED BY <2>1, <2>3, <2>4, SyncFoundSynced
<1>5. ASSUME NEW ids, NEW bad, NEW group, NEW mode, NEW up, Tracks(ids, bad, group, mode, up) PROVE FALSE
  BY <1>5 DEF Tracks, SyncFiles
<1>6. \A id, t, up, d, h, m, s, b :
        ~Edit(id) /\ ~Delete(id) /\ ~TrackCmd(id, m, up) /\ ~TrackDir(h, d, m, s, b, up) /\ ~UntrackId(id)
        /\ ~Untrack(t, h)
  BY <1>5 DEF Edit, Delete, Write, OnlyDisk, TrackCmd, TrackDir, UntrackId, Untrack
<1>7. \A ids, force, tree, host, paths :
        ~ApplyCmd(ids, force) /\ ~UndoCmd(ids) /\ ~RewindCmd(tree, ids) /\ ~RemoteDeploy(host, ids)
        /\ ~DeployFrom(host, paths)
  <2>1. \A ids, force : ~ApplyCmd(ids, force) BY Zenon DEF ApplyCmd
  <2>2. \A r : ~Undone(r) BY DEF Undone
  <2>3. \A ids, tree : ~UndoCmd(ids) /\ ~RewindCmd(tree, ids) BY Zenon, <2>2 DEF UndoCmd, RewindCmd
  <2>4. \A host, ids : ~RemoteDeploy(host, ids) BY Zenon DEF RemoteDeploy, OnlyDisk
  <2>5. \A host, paths : ~DeployFrom(host, paths)
    BY Zenon DEF DeployFrom, RemoteDeployRendered, Write, OnlyDisk
  <2> QED BY Zenon, <2>1, <2>3, <2>4, <2>5
<1>8. CASE Command BY <1>2, <1>3, <1>4, <1>6, <1>7, <1>8 DEF Command
<1> QED BY <1>1, <1>8 DEF Next

\* What is settled is synced, always.
LEMMA SyncedInvHolds == Spec => [](TrackInv /\ SyncedInv)
<1>1. Init => SyncedInv BY DEF Init, SyncedInv
<1> QED BY <1>1, TrackInvInit, TrackStep, SyncedStep, PTL DEF Spec
-----------------------------------------------------------------------------
(* What the other commands then say.                                       *)

\* The files whose group has one branch, as in SyncCures.
Whole ==
  {id \in DOMAIN recs :
     /\ recs[id].mode # "hash"
     /\ \A j \in DOMAIN recs : GroupKey(j, recs[j]) = GroupKey(id, recs[id])
                                 => recs[j].branch \in {recs[id].branch, None}}

\* The records, when servers have none but plain files and templates.
LEMMA RecordFacts ==
  ASSUME TrackInv, RemotePlain, NEW id \in DOMAIN recs
  PROVE  /\ id \in Ids /\ disk[id] \in Contents \cup {Gone} /\ recs[id].hash \in Contents
         /\ recs[id].hash # Gone /\ recs[id].mode \in Modes
         /\ recs[id].branch = None <=> recs[id].mode = "hash"
         /\ HostOf(id) # Here => recs[id].mode \in {"plain", "template"}
<1>1. id \in Ids /\ RecordFits(id, recs[id], DOMAIN refs) BY DEF TrackInv, RecMaps
<1>2. ServerModes \subseteq {"plain", "template"} BY DEF RemotePlain, ServerModes
<1> QED BY <1>1, <1>2 DEF TrackInv, RecordFits, Records

\* The branch of such a file holds what there is of it.
LEMMA WholeStored ==
  ASSUME TrackInv, RemotePlain, Synced, NEW id \in Whole, disk[id] # Gone
  PROVE  Blob(id) = Data(id, recs[id]) /\ Show(refs, UndoBranch(id), id) = Data(id, recs[id])
<1>1. id \in DOMAIN recs /\ recs[id].mode # "hash" /\ recs[id].branch # None BY RecordFacts DEF Whole
<1>2. PICK j \in DOMAIN recs :
        /\ recs[j].mode # "hash" /\ GroupKey(j, recs[j]) = GroupKey(id, recs[id])
        /\ Show(refs, recs[j].branch, id) = Data(id, recs[id])
  BY <1>1 DEF Synced, Stored
<1>3. recs[j].branch # None /\ recs[j].branch \in {recs[id].branch, None} BY <1>2, RecordFacts DEF Whole
<1> QED BY <1>1, <1>2, <1>3 DEF Blob, ShowBranch, UndoBranch

\* What status says of it, on this machine and of a server.
LEMMA WholeStatus ==
  ASSUME TrackInv, RemotePlain, Synced, NEW id \in Whole
  PROVE  /\ HostOf(id) = Here =>
              /\ disk[id] # Gone
              /\ \A fetch \in BOOLEAN : Status(id, fetch) = IF recs[id].mode = "encrypt" THEN "ENCRYPTED" ELSE "SYNCED"
         /\ HostOf(id) # Here =>
              /\ Status(id, TRUE) = IF disk[id] = Gone THEN "MISSING" ELSE "SYNCED"
              /\ Status(id, FALSE) = "STALE"
<1>1. id \in DOMAIN recs /\ recs[id].mode # "hash" BY DEF Whole
<1>2. HostOf(id) = Here => disk[id] # Gone BY <1>1 DEF Synced
<1>3. ASSUME disk[id] # Gone, recs[id].mode # "encrypt" PROVE ThreeWay(id) = "SYNCED"
  <2>1. Blob(id) = disk[id] BY <1>3, WholeStored DEF Data
  <2> QED BY <1>3, <2>1 DEF ThreeWay
<1>4. HostOf(id) # Here => recs[id].mode \in {"plain", "template"} BY <1>1, RecordFacts
<1> HIDE DEF Whole
<1>5. HostOf(id) = Here =>
        \A fetch \in BOOLEAN : Status(id, fetch) = IF recs[id].mode = "encrypt" THEN "ENCRYPTED" ELSE "SYNCED"
  BY <1>1, <1>2, <1>3 DEF Status
<1>6. HostOf(id) # Here => Status(id, TRUE) = IF disk[id] = Gone THEN "MISSING" ELSE "SYNCED"
  BY <1>1, <1>3, <1>4 DEF Status
<1>7. HostOf(id) # Here => Status(id, FALSE) = "STALE" BY DEF Status
<1> QED BY <1>2, <1>5, <1>6, <1>7

\* No file differs from a branch that has nothing of it.
LEMMA DiffAnswers ==
  ASSUME TrackInv, RemotePlain, Synced PROVE ~DiffFails
<1> SUFFICES ASSUME NEW id \in DOMAIN recs, Status(id, TRUE) \in {"DIRTY", "PENDING"}, Blob(id) = Gone PROVE FALSE
  BY DEF DiffFails, Differs
<1>1. HostOf(id) # Here => recs[id].mode \in {"plain", "template"} BY RecordFacts
<1>2. recs[id].mode # "hash"
  <2> SUFFICES ASSUME recs[id].mode = "hash" PROVE FALSE OBVIOUS
  <2>1. HostOf(id) = Here BY <1>1
  <2> QED BY <2>1 DEF Status
<1>3. disk[id] # Gone
  <2> SUFFICES ASSUME disk[id] = Gone PROVE FALSE OBVIOUS
  <2>1. HostOf(id) # Here BY <1>2 DEF Synced
  <2>2. Status(id, TRUE) = "MISSING" BY <1>1, <2>1 DEF Status
  <2> QED BY <2>2
<1>4. recs[id].hash = disk[id] BY <1>2, <1>3 DEF Synced
<1>5. ThreeWay(id) = "SYNCED" BY <1>4 DEF ThreeWay
<1>6. Status(id, TRUE) \in {"ENCRYPTED", "SYNCED"} BY <1>2, <1>3, <1>5 DEF Status
<1> QED BY <1>6

\* A file of this machine that is not as it should be is of a group with more
\* branches than one, and no other group has any of them.
LEMMA DirtyIsNotWhole ==
  ASSUME TrackInv, RemotePlain, Unlike, Synced, NEW i \in DOMAIN recs, recs[i].branch # None,
         Status(i, FALSE) \in {"DIRTY", "PENDING", "MISSING", "TAMPERED"}, NEW w \in Whole
  PROVE  recs[i].branch # recs[w].branch
<1> SUFFICES ASSUME recs[i].branch = recs[w].branch PROVE FALSE OBVIOUS
<1>1. HostOf(i) = Here BY DEF Status
<1>2. recs[i].mode # "hash" /\ w \in DOMAIN recs /\ recs[w].mode # "hash" BY RecordFacts DEF Whole
<1>3. GroupKey(i, recs[i]) = GroupKey(w, recs[w]) BY <1>1, <1>2, OneBranchOneGroup
<1>4. i \in Whole BY <1>2, <1>3 DEF Whole
<1>5. Status(i, FALSE) \in {"ENCRYPTED", "SYNCED"} BY <1>1, <1>4, WholeStatus
<1> QED BY <1>5

\* After a Sync of all files that reported no error nothing is left for the
\* other commands to complain of (sync.go, status.go, cmd_diff.go, doctor.go):
\* every file of a group with one branch is SYNCED, none is new but the denied,
\* diff answers, log --dirty and the audit are clean of such files, and doctor
\* finds all records in the manifest and their content in the repository.
THEOREM SyncsCure == ASSUME RemotePlain, Unlike PROVE Spec => []SyncCures
<1>1. TrackInv /\ SyncedInv => SyncCures
  <2> SUFFICES ASSUME TrackInv, Synced
               PROVE  /\ New \subseteq Denied
                      /\ \A id \in Whole :
                           Status(id, TRUE) \in IF HostOf(id) # Here THEN {"SYNCED", "MISSING"}
                                                ELSE {"SYNCED", "ENCRYPTED"}
                      /\ Whole \cap (MissingBlob \cup Drifted)
                           = {id \in Whole : HostOf(id) # Here /\ disk[id] = Gone /\ id \in MissingBlob}
                      /\ ~DiffFails /\ Unlisted = {}
                      /\ DirtyBranches \cap {recs[id].branch : id \in Whole} = {}
                      /\ StatusFails => New # {} \/ Whole # DOMAIN recs
    BY DEF SyncCures, SyncedInv, Whole
  <2>1. New \subseteq Denied /\ Unlisted = {} BY DEF Synced, Unlisted
  <2>2. \A id \in Whole :
          Status(id, TRUE) \in IF HostOf(id) # Here THEN {"SYNCED", "MISSING"} ELSE {"SYNCED", "ENCRYPTED"}
    BY WholeStatus
  <2>3. ASSUME NEW id \in Whole, disk[id] # Gone PROVE id \notin MissingBlob
    <3>1. id \in DOMAIN recs BY DEF Whole
    <3>2. disk[id] \in Contents BY <2>3, <3>1, RecordFacts
    <3>3. Data(id, recs[id]) \in Contents BY <3>2 DEF Data, Encrypt, Contents
    <3>4. Data(id, recs[id]) # Gone BY <3>3
    <3> QED BY <2>3, <3>4, WholeStored DEF MissingBlob
  <2>4. ASSUME NEW id \in Whole PROVE id \notin Drifted
    <3>1. id \in DOMAIN recs BY DEF Whole
    <3> QED BY <3>1, RecordFacts, WholeStatus DEF Drifted
  <2>5. \A id \in Whole : HostOf(id) = Here => disk[id] # Gone BY WholeStatus
  <2>6. Whole \cap (MissingBlob \cup Drifted)
          = {id \in Whole : HostOf(id) # Here /\ disk[id] = Gone /\ id \in MissingBlob}
    BY <2>3, <2>4, <2>5
  <2>7. DirtyBranches \cap {recs[id].branch : id \in Whole} = {} BY DirtyIsNotWhole DEF DirtyBranches
  <2>8. StatusFails => New # {} \/ Whole # DOMAIN recs
    <3> SUFFICES ASSUME NEW id \in Whole, Status(id, FALSE) \in {"DIRTY", "PENDING", "MISSING"} PROVE FALSE
      BY DEF StatusFails
    <3> QED BY WholeStatus
  <2> QED BY <2>1, <2>2, <2>6, <2>7, <2>8, DiffAnswers
<1> QED BY <1>1, SyncedInvHolds, PTL

\* What the user tracks, a file or a directory, is in the branch of its record
\* when track returns, whatever the branches there are, if they could be listed
\* (resolveTrackBranch, which looks at the branches in order, and what it does
\* about one brings the name in the way of none before it; then the Sync at the
\* end of track).
THEOREM TrackedIsStored == Spec => TrackStores
<1> DEFINE new == DOMAIN recs' \ DOMAIN recs
           Stores ==
             /\ new # {} /\ \A id \in new : recs'[id].mode \notin {"local", "hash"} /\ LookedUp(id)
             /\ TracksAll(new)
             => \A id \in new : Show(refs', recs'[id].branch, id) = Data(id, recs'[id])
<1>1. ASSUME TrackInv PROVE Stores
  <2> SUFFICES ASSUME new # {}, \A id \in new : recs'[id].mode \notin {"local", "hash"} /\ LookedUp(id),
                      TracksAll(new)
               PROVE  \A id \in new : Show(refs', recs'[id].branch, id) = Data(id, recs'[id])
    OBVIOUS
  <2>1. ASSUME NEW t \in FileTracks, new = {<<t[1], t[2]>>}, TrackCmd(<<t[1], t[2]>>, t[3], Servers)
        PROVE  \A id \in new : Show(refs', recs'[id].branch, id) = Data(id, recs'[id])
    <3>1. /\ new \in SUBSET Ids /\ t[3] \in Modes /\ None \in Dirs \cup {None}
          /\ \A id \in new : HostOf(id) = t[1] /\ (HostOf(id) # Here => t[3] \in ServerModes)
      BY <2>1 DEF Ids, HostOf, ServerModes
    <3>2. Trackable(recs, <<t[1], t[2]>>, t[3]) /\ Tracks(new, {}, None, t[3], Servers)
      BY <2>1 DEF TrackCmd
    <3>3. (\A id \in new : Trackable(recs, id, t[3])) /\ \A i, j \in new : i = j BY <2>1, <3>2
    <3>4. \A id \in new : id \in DOMAIN recs' OBVIOUS
    <3> HIDE DEF new
    <3> QED BY <1>1, <3>1, <3>2, <3>3, <3>4, TracksStores
  <2>2. ASSUME NEW t \in DirTracks, NEW skip, new = Listed(t[1], t[2], t[3], skip),
               TrackDir(t[1], t[2], t[3], skip, {}, Servers)
        PROVE  \A id \in new : Show(refs', recs'[id].branch, id) = Data(id, recs'[id])
    <3>1. t[2] \in Dirs /\ t[2] # None /\ t[3] \in Modes /\ t[2] \in Dirs \cup {None}
      <4>1. t[2] \in Dirs /\ t[3] \in Modes OBVIOUS
      <4> QED BY <4>1, DirIsSome
    <3>2. /\ new \in SUBSET Ids
          /\ \A id \in new : HostOf(id) = t[1] /\ Trackable(recs, id, t[3])
                              /\ (HostOf(id) # Here => t[3] \in ServerModes)
      BY <2>2 DEF Listed, ServerModes
    <3>3. Tracks(new, {}, t[2], t[3], Servers)
      <4> DEFINE bad == {id \in new : PathOf(id) \in {}}
      <4>1. bad = {} /\ new \ bad = new OBVIOUS
      <4>2. Tracks(new \ bad, bad, t[2], t[3], Servers) BY <2>2 DEF TrackDir
      <4> HIDE DEF new, bad
      <4> QED BY <4>1, <4>2
    <3>4. \A id \in new : id \in DOMAIN recs' OBVIOUS
    <3> HIDE DEF new
    <3> QED BY <1>1, <3>1, <3>2, <3>3, <3>4, TracksStores
  <2> HIDE DEF new
  <2> QED BY <2>1, <2>2 DEF TracksAll
<1>2. TrackInv /\ [Next]_vars => [Stores]_vars BY <1>1
<1> QED BY <1>2, TrackInvHolds, PTL DEF Spec, TrackStores
=============================================================================
