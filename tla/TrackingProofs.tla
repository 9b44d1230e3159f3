--------------------------- MODULE TrackingProofs ---------------------------
(***************************************************************************)
(* Proofs about Tracking, for any files, hosts, directories, denylist and  *)
(* sequence of commands.                                                   *)
(***************************************************************************)
EXTENDS Tracking, FiniteSetTheorems, WellFoundedInduction, TLAPS

-----------------------------------------------------------------------------
(* Induction, with sets for predicates.                                    *)

\* What holds of a finite set when it holds of its proper subsets.
LEMMA SubsetsAll ==
  ASSUME NEW S, IsFiniteSet(S), NEW Good,
         \A s \in SUBSET S : (\A u \in (SUBSET s) \ {s} : u \in Good) => s \in Good
  PROVE  SUBSET S \subseteq Good
<1> DEFINE Bad == {s \in SUBSET S : s \notin Good}
<1> SUFFICES ASSUME Bad # {} PROVE FALSE OBVIOUS
<1>1. Bad \subseteq FiniteSubsetsOf(S) BY FS_FiniteSubsetsOfFinite
<1>2. PICK s \in Bad : \A u \in Bad : ~(<<u, s>> \in StrictSubsetOrdering(S))
  <2> HIDE DEF Bad
  <2> QED BY <1>1, FS_StrictSubsetOrderingWellFounded, WFMin
<1>3. ASSUME NEW u \in (SUBSET s) \ {s} PROVE u \in Good
  <2>1. <<u, s>> \in StrictSubsetOrdering(S) BY DEF StrictSubsetOrdering
  <2> QED BY <1>2, <2>1
<1> QED BY <1>3

\* Every set of natural numbers has a least element.
LEMMA LeastNatural == ASSUME NEW T, T \subseteq Nat, T # {} PROVE \E m \in T : \A k \in T : m <= k
<1> DEFINE I == {0..k : k \in T}
<1>1. I \subseteq FiniteSubsetsOf(Nat) /\ I # {}
  <2>1. \A k \in T : 0..k \in SUBSET Nat /\ IsFiniteSet(0..k) BY FS_Interval
  <2>2. \A k \in T : 0..k \in FiniteSubsetsOf(Nat) BY <2>1 DEF FiniteSubsetsOf
  <2> QED BY <2>2
<1>2. PICK i \in I : \A j \in I : ~(<<j, i>> \in StrictSubsetOrdering(Nat))
  <2> HIDE DEF I
  <2> QED BY <1>1, FS_StrictSubsetOrderingWellFounded, WFMin
<1>3. PICK m \in T : i = 0..m OBVIOUS
<1>4. ASSUME NEW k \in T, k < m PROVE FALSE
  <2>1. 0..k \subseteq 0..m /\ m \in 0..m /\ m \notin 0..k BY <1>4
  <2>2. <<0..k, 0..m>> \in StrictSubsetOrdering(Nat) BY <2>1 DEF StrictSubsetOrdering
  <2> QED BY <1>2, <1>3, <2>2
<1> QED BY <1>4

\* A set with 0 and the successors of its elements has all natural numbers.
LEMMA NaturalsAll == ASSUME NEW T, 0 \in T, \A k \in Nat : k \in T => k + 1 \in T PROVE Nat \subseteq T
<1> DEFINE Bad == {k \in Nat : k \notin T}
<1> SUFFICES ASSUME Bad # {} PROVE FALSE OBVIOUS
<1>1. PICK m \in Bad : \A k \in Bad : m <= k
  <2> HIDE DEF Bad
  <2>1. Bad \subseteq Nat BY DEF Bad
  <2> QED BY <2>1, LeastNatural
<1>2. m \in Nat /\ m # 0 /\ m - 1 \in Nat /\ m - 1 \notin Bad BY <1>1
<1> QED BY <1>1, <1>2

\* Every finite set of numbers has a greatest element.
LEMMA MaxIsIn == ASSUME NEW n \in Nat, NEW s \in SUBSET (1..n), s # {} PROVE Max(s) \in s
<1> DEFINE T == {n - k : k \in s}
<1>1. T \subseteq Nat /\ T # {}
  <2>1. \A k \in s : n - k \in Nat OBVIOUS
  <2> QED BY <2>1
<1>2. PICK m \in T : \A k \in T : m <= k
  <2> HIDE DEF T
  <2> QED BY <1>1, LeastNatural
<1>3. PICK x \in s : m = n - x OBVIOUS
<1>4. \A y \in s : x >= y
  <2> TAKE y \in s
  <2>1. m <= n - y BY <1>2
  <2>2. x \in 1..n /\ y \in 1..n OBVIOUS
  <2> QED BY <1>3, <2>1, <2>2
<1> QED BY <1>4 DEF Max

-----------------------------------------------------------------------------
(* Folds.                                                                  *)

\* A fold over S of values in D: Pick chooses the element of a set to take last,
\* Step[x] is what x does to a value.
Picks(S, Pick)  == \A s \in (SUBSET S) \ {{}} : Pick[s] \in s
Does(S, D, Step) == \A x \in S, d \in D : Step[x][d] \in D
IsFold(iter, S, D, base, Pick, Step) ==
  /\ iter \in [SUBSET S -> D]
  /\ \A s \in SUBSET S : iter[s] = IF s = {} THEN base ELSE Step[Pick[s]][iter[s \ {Pick[s]}]]

\* Its recursive function exists.
LEMMA FoldExists ==
  ASSUME NEW S, IsFiniteSet(S), NEW D, NEW base, base \in D, NEW Pick, Picks(S, Pick),
         NEW Step, Does(S, D, Step)
  PROVE  \E iter : IsFold(iter, S, D, base, Pick, Step)
<1> USE DEF Picks, Does
<1> DEFINE Value(g, s) == IF s = {} THEN base ELSE Step[Pick[s]][g[s \ {Pick[s]}]]
           UpTo(g, k)  == \A s \in SUBSET S : Cardinality(s) <= k => g[s] = Value(g, s)
           T == {k \in Nat : \E g \in [SUBSET S -> D] : UpTo(g, k)}
<1>1. \A s \in SUBSET S : /\ IsFiniteSet(s) /\ Cardinality(s) \in Nat
                          /\ Cardinality(s) = 0 <=> s = {}
                          /\ Cardinality(s) <= Cardinality(S)
  BY FS_Subset, FS_CardinalityType, FS_EmptySet
<1>2. 0 \in T
  <2>1. [s \in SUBSET S |-> base] \in [SUBSET S -> D] OBVIOUS
  <2>2. UpTo([s \in SUBSET S |-> base], 0) BY <1>1
  <2> QED BY <2>1, <2>2
<1>3. ASSUME NEW k \in Nat, k \in T PROVE k + 1 \in T
  <2>1. PICK g \in [SUBSET S -> D] : UpTo(g, k) BY <1>3
  <2> DEFINE h == [s \in SUBSET S |-> Value(g, s)]
  <2>2. \A s \in (SUBSET S) \ {{}} : /\ Pick[s] \in s /\ Pick[s] \in S
                                     /\ s \ {Pick[s]} \in SUBSET S
    OBVIOUS
  <2>3. h \in [SUBSET S -> D] BY <2>2
  <2>4. ASSUME NEW s \in SUBSET S, Cardinality(s) <= k + 1 PROVE h[s] = Value(h, s)
    <3>1. CASE s = {} BY <3>1
    <3>2. CASE s # {}
      <4>1. Cardinality(s \ {Pick[s]}) <= k
        <5>1. IsFiniteSet(s) /\ Cardinality(s) \in Nat /\ Pick[s] \in s BY <1>1, <2>2, <3>2
        <5>2. Cardinality(s \ {Pick[s]}) = Cardinality(s) - 1 BY <5>1, FS_RemoveElement
        <5> QED BY <2>4, <5>1, <5>2
      <4>2. g[s \ {Pick[s]}] = Value(g, s \ {Pick[s]}) BY <2>1, <2>2, <3>2, <4>1
      <4>3. h[s \ {Pick[s]}] = g[s \ {Pick[s]}] BY <2>2, <3>2, <4>2
      <4> QED BY <3>2, <4>3
    <3> QED BY <3>1, <3>2
  <2>5. UpTo(h, k + 1) BY <2>4
  <2> HIDE DEF h, UpTo
  <2> QED BY <2>3, <2>5
<1>4. Cardinality(S) \in T
  <2> HIDE DEF T
  <2> QED BY <1>1, <1>2, <1>3, NaturalsAll
<1>5. PICK g \in [SUBSET S -> D] : UpTo(g, Cardinality(S)) BY <1>4
<1>6. IsFold(g, S, D, base, Pick, Step) BY <1>1, <1>5 DEF IsFold
<1> QED BY <1>6

\* What a fold keeps.
LEMMA FoldKeeps ==
  ASSUME NEW S, IsFiniteSet(S), NEW D, NEW iter, iter[{}] \in D,
         \A s \in (SUBSET S) \ {{}} : \E x \in s : iter[s \ {x}] \in D => iter[s] \in D
  PROVE  \A s \in SUBSET S : iter[s] \in D
<1> DEFINE Good == {s \in SUBSET S : iter[s] \in D}
<1>1. \A s \in SUBSET S : (\A u \in (SUBSET s) \ {s} : u \in Good) => s \in Good
  <2> SUFFICES ASSUME NEW s \in SUBSET S, \A u \in (SUBSET s) \ {s} : u \in Good PROVE iter[s] \in D
    OBVIOUS
  <2>1. CASE s = {} BY <2>1
  <2>2. CASE s # {}
    <3>1. PICK x \in s : iter[s \ {x}] \in D => iter[s] \in D BY <2>2
    <3>2. s \ {x} \in (SUBSET s) \ {s} BY <3>1
    <3> QED BY <3>1, <3>2
  <2> QED BY <2>1, <2>2
<1>2. SUBSET S \subseteq Good
  <2> HIDE DEF Good
  <2> QED BY <1>1, SubsetsAll
<1> QED BY <1>2

\* A fold over a sequence of n elements of E: Step[e] is what e does to a value.
IsFoldLeft(iter, n, order, D, base, Step) ==
  /\ iter \in [SUBSET (1..n) -> D]
  /\ \A s \in SUBSET (1..n) :
       iter[s] = IF s = {} THEN base ELSE Step[order[Max(s)]][iter[s \ {Max(s)}]]

\* Its recursive function exists.
LEMMA FoldLeftExists ==
  ASSUME NEW D, NEW E, NEW n \in Nat, NEW order \in [1..n -> E], NEW base \in D,
         NEW Step \in [E -> [D -> D]]
  PROVE  \E iter : IsFoldLeft(iter, n, order, D, base, Step)
<1> DEFINE S     == 1..n
           pick  == [s \in SUBSET S |-> Max(s)]
           moves == [x \in S |-> Step[order[x]]]
<1>1. IsFiniteSet(S) BY FS_Interval
<1>2. Picks(S, pick) BY MaxIsIn DEF Picks
<1>3. Does(S, D, moves) BY DEF Does
<1>4. PICK iter : IsFold(iter, S, D, base, pick, moves)
  <2> HIDE DEF S, pick, moves
  <2> QED BY <1>1, <1>2, <1>3, FoldExists
<1>5. ASSUME NEW s \in SUBSET S
      PROVE  iter[s] = IF s = {} THEN base ELSE Step[order[Max(s)]][iter[s \ {Max(s)}]]
  <2>1. iter[s] = IF s = {} THEN base ELSE moves[pick[s]][iter[s \ {pick[s]}]]
    <3> HIDE DEF S, pick, moves
    <3> QED BY <1>4 DEF IsFold
  <2>2. pick[s] = Max(s) OBVIOUS
  <2>3. s # {} => moves[Max(s)] = Step[order[Max(s)]] BY MaxIsIn
  <2> QED BY <2>1, <2>2, <2>3
<1>6. iter \in [SUBSET S -> D] BY <1>4 DEF IsFold
<1> QED BY <1>5, <1>6 DEF IsFoldLeft

\* What a fold over a sequence keeps.
LEMMA FoldLeftKeeps ==
  ASSUME NEW D, NEW n \in Nat, NEW iter, iter[{}] \in D,
         \A s \in (SUBSET (1..n)) \ {{}} :
           Max(s) \in s /\ iter[s \ {Max(s)}] \in D => iter[s] \in D
  PROVE  iter[1..n] \in D
<1>1. \A s \in (SUBSET (1..n)) \ {{}} : \E x \in s : iter[s \ {x}] \in D => iter[s] \in D BY MaxIsIn
<1>2. IsFiniteSet(1..n) BY FS_Interval
<1>3. \A s \in SUBSET (1..n) : iter[s] \in D BY <1>1, <1>2, FoldKeeps
<1> QED BY <1>3

-----------------------------------------------------------------------------
(* Sequences, element by element.                                          *)

\* Sequences are equal when their elements are.
LEMMA SeqEqual ==
  ASSUME NEW s \in Seq(Nat), NEW t \in Seq(Nat)
  PROVE  s = t <=> Len(s) = Len(t) /\ \A i \in 1..Len(s) : s[i] = t[i]
OBVIOUS

\* The elements of a concatenation.
LEMMA ConcatElements ==
  ASSUME NEW s \in Seq(Nat), NEW t \in Seq(Nat)
  PROVE  /\ s \o t \in Seq(Nat) /\ Len(s \o t) = Len(s) + Len(t)
         /\ \A i \in 1..Len(s) : (s \o t)[i] = s[i]
         /\ \A i \in Len(s) + 1..Len(s) + Len(t) : (s \o t)[i] = t[i - Len(s)]
OBVIOUS

\* Prefixes, element by element.
LEMMA PrefixElements ==
  ASSUME NEW s \in Seq(Nat), NEW t \in Seq(Nat)
  PROVE  IsPrefix(s, t) <=> Len(s) <= Len(t) /\ \A i \in 1..Len(s) : s[i] = t[i]
<1>1. CASE Len(s) <= Len(t)
  <2>1. SubSeq(s, 1, Len(s)) = s OBVIOUS
  <2>2. /\ SubSeq(t, 1, Len(s)) \in Seq(Nat) /\ Len(SubSeq(t, 1, Len(s))) = Len(s)
        /\ \A i \in 1..Len(s) : SubSeq(t, 1, Len(s))[i] = t[i]
    BY <1>1
  <2>3. s = SubSeq(t, 1, Len(s)) <=> \A i \in 1..Len(s) : s[i] = SubSeq(t, 1, Len(s))[i]
    BY <2>2, SeqEqual
  <2> QED BY <1>1, <2>1, <2>2, <2>3 DEF IsPrefix
<1>2. CASE ~(Len(s) <= Len(t)) BY <1>2 DEF IsPrefix
<1> QED BY <1>1, <1>2

-----------------------------------------------------------------------------
(* The order of git's list of branches.                                    *)

\* a and b agree up to i, where a has ended or has the smaller element.
LessAt(a, b, i) ==
  /\ i \in 1..Len(b) /\ i <= Len(a) + 1
  /\ \A k \in 1..i - 1 : a[k] = b[k]
  /\ i <= Len(a) => a[i] < b[i]

\* Before is the order of their texts.
LEMMA BeforeIsLessAt ==
  ASSUME NEW a \in Seq(Nat), NEW b \in Seq(Nat)
  PROVE  Before(a, b) <=> \E i \in 1..Len(b) : LessAt(a, b, i)
<1>1. IsStrictPrefix(a, b) <=> Len(a) + 1 \in 1..Len(b) /\ LessAt(a, b, Len(a) + 1)
  <2>1. IsStrictPrefix(a, b) <=> Len(a) < Len(b) /\ \A i \in 1..Len(a) : a[i] = b[i]
    BY PrefixElements, SeqEqual DEF IsStrictPrefix
  <2>2. Len(a) + 1 \in 1..Len(b) <=> Len(a) < Len(b) OBVIOUS
  <2>3. (Len(a) + 1) - 1 = Len(a) /\ ~(Len(a) + 1 <= Len(a)) OBVIOUS
  <2> QED BY <2>1, <2>2, <2>3 DEF LessAt
<1>2. ASSUME NEW i \in 1..Len(b), i \in 1..Len(a)
      PROVE  a[i] < b[i] /\ SubSeq(a, 1, i - 1) = SubSeq(b, 1, i - 1) <=> LessAt(a, b, i)
  <2>1. /\ SubSeq(a, 1, i - 1) \in Seq(Nat) /\ Len(SubSeq(a, 1, i - 1)) = i - 1
        /\ \A k \in 1..i - 1 : SubSeq(a, 1, i - 1)[k] = a[k]
    BY SMTT(60), <1>2
  <2>2. /\ SubSeq(b, 1, i - 1) \in Seq(Nat) /\ Len(SubSeq(b, 1, i - 1)) = i - 1
        /\ \A k \in 1..i - 1 : SubSeq(b, 1, i - 1)[k] = b[k]
    OBVIOUS
  <2>3. SubSeq(a, 1, i - 1) = SubSeq(b, 1, i - 1) <=> \A k \in 1..i - 1 : a[k] = b[k]
    BY <2>1, <2>2, SeqEqual
  <2>4. i <= Len(a) /\ i <= Len(a) + 1 BY <1>2
  <2> QED BY <2>3, <2>4 DEF LessAt
<1>3. \A i \in 1..Len(b) : LessAt(a, b, i) => i \in 1..Len(a) \/ i = Len(a) + 1 BY DEF LessAt
<1>4. DOMAIN a = 1..Len(a) /\ DOMAIN b = 1..Len(b) OBVIOUS
<1> QED BY <1>1, <1>2, <1>3, <1>4 DEF Before

\* No branch is listed before itself.
LEMMA BeforeIsStrict == ASSUME NEW a \in Seq(Nat) PROVE ~Before(a, a)
<1>1. \A i \in 1..Len(a) : a[i] \in Nat OBVIOUS
<1> QED BY <1>1, BeforeIsLessAt DEF LessAt

\* The list has an order.
LEMMA BeforeIsTransitive ==
  ASSUME NEW a \in Seq(Nat), NEW b \in Seq(Nat), NEW c \in Seq(Nat), Before(a, b), Before(b, c)
  PROVE  Before(a, c)
<1>1. PICK i \in 1..Len(b) : LessAt(a, b, i) BY BeforeIsLessAt
<1>2. PICK j \in 1..Len(c) : LessAt(b, c, j) BY BeforeIsLessAt
<1>3. /\ \A k \in 1..Len(a) : a[k] \in Nat
      /\ \A k \in 1..Len(b) : b[k] \in Nat
      /\ \A k \in 1..Len(c) : c[k] \in Nat
  OBVIOUS
<1>4. CASE i < j
  <2>1. i \in 1..Len(c) /\ b[i] = c[i] BY <1>2, <1>4 DEF LessAt
  <2>2. \A k \in 1..i - 1 : a[k] = c[k] BY <1>1, <1>2, <1>4 DEF LessAt
  <2>3. LessAt(a, c, i) BY <1>1, <2>1, <2>2 DEF LessAt
  <2> QED BY <2>1, <2>3, BeforeIsLessAt
<1>5. CASE ~(i < j)
  <2>1. \A k \in 1..j - 1 : a[k] = c[k] BY <1>1, <1>2, <1>5 DEF LessAt
  <2>2. j <= Len(b) /\ b[j] < c[j] BY <1>2, <1>5 DEF LessAt
  <2>3. j <= Len(a) + 1 BY <1>1, <1>5 DEF LessAt
  <2>4. j <= Len(a) => a[j] <= b[j]
    <3>1. CASE j = i BY <1>1, <1>3, <2>2, <3>1 DEF LessAt
    <3>2. CASE j < i
      <4>1. j \in 1..i - 1 BY <3>2
      <4>2. a[j] = b[j] BY <1>1, <4>1 DEF LessAt
      <4>3. b[j] \in Nat BY <1>3, <2>2
      <4> QED BY <4>2, <4>3
    <3> QED BY <1>5, <3>1, <3>2
  <2>5. j <= Len(a) => a[j] < c[j] BY SMTT(60), <2>2, <2>4, <1>3
  <2>6. LessAt(a, c, j) BY <2>1, <2>3, <2>5 DEF LessAt
  <2> QED BY <2>6, BeforeIsLessAt
<1> QED BY <1>4, <1>5

\* A finite set of branches has a last one.
LEMMA LastExists ==
  ASSUME NEW S \in SUBSET Seq(Nat), IsFiniteSet(S)
  PROVE  \A s \in (SUBSET S) \ {{}} : \E m \in s : \A x \in s : ~Before(m, x)
<1> DEFINE Good == {{}} \cup {s \in SUBSET S : \E m \in s : \A x \in s : ~Before(m, x)}
<1>1. ASSUME NEW s \in SUBSET S, \A u \in (SUBSET s) \ {s} : u \in Good, NEW x \in s
      PROVE  \E m \in s : \A y \in s : ~Before(m, y)
  <2>1. CASE s \ {x} = {}
    <3>1. \A y \in s : y = x BY <2>1
    <3> QED BY <3>1, BeforeIsStrict
  <2>2. CASE s \ {x} # {}
    <3>0. s \ {x} \in Good BY <1>1
    <3>1. PICK m \in s \ {x} : \A y \in s \ {x} : ~Before(m, y) BY <3>0, <2>2
    <3>2. CASE Before(m, x)
      <4>1. \A y \in s \ {x} : ~Before(x, y) BY <3>1, <3>2, BeforeIsTransitive
      <4> QED BY <4>1, BeforeIsStrict
    <3>3. CASE ~Before(m, x) BY <3>1, <3>3
    <3> QED BY <3>2, <3>3
  <2> QED BY <2>1, <2>2
<1>2. \A s \in SUBSET S : (\A u \in (SUBSET s) \ {s} : u \in Good) => s \in Good BY <1>1
<1>3. SUBSET S \subseteq Good
  <2> HIDE DEF Good
  <2> QED BY <1>2, SubsetsAll
<1> QED BY <1>3

-----------------------------------------------------------------------------
(* One round of resolveTrackBranch.                                        *)

\* b is the name of something in the directory a.
Inside(a, b) == IsPrefix(a \o <<Slash>>, b)

\* Inside, element by element.
LEMMA InsideElements ==
  ASSUME NEW a \in Seq(Nat), NEW b \in Seq(Nat)
  PROVE  Inside(a, b) <=> /\ Len(a) < Len(b) /\ \A i \in 1..Len(a) : a[i] = b[i]
                          /\ b[Len(a) + 1] = Slash
<1> DEFINE d == a \o <<Slash>>
<1>1. Slash \in Nat BY DEF Slash
<1>2. /\ d \in Seq(Nat) /\ Len(d) = Len(a) + 1 /\ \A i \in 1..Len(a) : d[i] = a[i]
      /\ d[Len(a) + 1] = Slash
  BY <1>1
<1>3. IsPrefix(d, b) <=> Len(d) <= Len(b) /\ \A i \in 1..Len(d) : d[i] = b[i]
  <2> HIDE DEF d
  <2> QED BY <1>2, PrefixElements
<1>4. \A i \in 1..Len(d) : i \in 1..Len(a) \/ i = Len(a) + 1 BY <1>2
<1>5. Len(a) + 1 \in 1..Len(d) /\ \A i \in 1..Len(a) : i \in 1..Len(d) BY <1>2
<1>6. Len(d) <= Len(b) <=> Len(a) < Len(b) BY <1>2
<1>7. (\A i \in 1..Len(d) : d[i] = b[i]) <=> (\A i \in 1..Len(a) : a[i] = b[i]) /\ b[Len(a) + 1] = Slash
  BY <1>2, <1>4, <1>5
<1> QED BY <1>3, <1>6, <1>7 DEF Inside

\* The name is in the directory ref: two dashes go between.
LEMMA AvoidAbove ==
  ASSUME NEW ref \in Seq(Nat), NEW b \in Seq(Nat), Inside(ref, b)
  PROVE  /\ AvoidRef(ref, b) \in Seq(Nat) /\ Len(AvoidRef(ref, b)) = Len(b) + 1
         /\ \A i \in 1..Len(ref) : AvoidRef(ref, b)[i] = b[i]
         /\ AvoidRef(ref, b)[Len(ref) + 1] = Dashes
         /\ \A i \in Len(ref) + 2..Len(b) + 1 : AvoidRef(ref, b)[i] = b[i - 1]
<1> DEFINE rest == SubSeq(b, Len(ref) + 2, Len(b))
           mid  == <<Dashes, Slash>>
           n    == ref \o mid \o rest
<1>1. /\ Len(ref) < Len(b) /\ \A i \in 1..Len(ref) : ref[i] = b[i]
      /\ b[Len(ref) + 1] = Slash
  BY InsideElements
<1>2. /\ rest \in Seq(Nat) /\ Len(rest) = Len(b) - (Len(ref) + 1)
      /\ \A i \in 1..Len(rest) : rest[i] = b[i + Len(ref) + 1]
  BY <1>1
<1>3. mid \in Seq(Nat) /\ Len(mid) = 2 /\ mid[1] = Dashes /\ mid[2] = Slash BY DEF Dashes, Slash
<1>4. /\ n \in Seq(Nat) /\ Len(n) = Len(b) + 1
      /\ \A i \in 1..Len(ref) : n[i] = ref[i]
      /\ n[Len(ref) + 1] = Dashes /\ n[Len(ref) + 2] = Slash
      /\ \A i \in Len(ref) + 3..Len(b) + 1 : n[i] = rest[i - (Len(ref) + 2)]
  <2> DEFINE m == ref \o mid
  <2> HIDE DEF rest, mid
  <2>1. /\ m \in Seq(Nat) /\ Len(m) = Len(ref) + 2
        /\ \A i \in 1..Len(ref) : m[i] = ref[i]
        /\ m[Len(ref) + 1] = Dashes /\ m[Len(ref) + 2] = Slash
    <3>1. /\ Len(ref) + 1 \in Len(ref) + 1..Len(ref) + Len(mid)
          /\ Len(ref) + 2 \in Len(ref) + 1..Len(ref) + Len(mid)
      BY <1>3
    <3>2. (Len(ref) + 1) - Len(ref) = 1 /\ (Len(ref) + 2) - Len(ref) = 2 OBVIOUS
    <3>3. /\ ref \o mid \in Seq(Nat) /\ Len(ref \o mid) = Len(ref) + Len(mid)
          /\ \A i \in 1..Len(ref) : (ref \o mid)[i] = ref[i]
          /\ \A i \in Len(ref) + 1..Len(ref) + Len(mid) : (ref \o mid)[i] = mid[i - Len(ref)]
      BY <1>3, ConcatElements
    <3> QED BY <1>3, <3>1, <3>2, <3>3 DEF m
  <2> HIDE DEF m
  <2>2. /\ m \o rest \in Seq(Nat) /\ Len(m \o rest) = Len(b) + 1
        /\ \A i \in 1..Len(ref) + 2 : (m \o rest)[i] = m[i]
        /\ \A i \in Len(ref) + 3..Len(b) + 1 : (m \o rest)[i] = rest[i - (Len(ref) + 2)]
    <3>1. Len(m) + 1 = Len(ref) + 3 /\ Len(m) + Len(rest) = Len(b) + 1 BY <1>1, <1>2, <2>1
    <3>2. /\ m \o rest \in Seq(Nat) /\ Len(m \o rest) = Len(m) + Len(rest)
          /\ \A i \in 1..Len(m) : (m \o rest)[i] = m[i]
          /\ \A i \in Len(m) + 1..Len(m) + Len(rest) : (m \o rest)[i] = rest[i - Len(m)]
      BY <1>2, <2>1, ConcatElements
    <3>3. Len(m) = Len(ref) + 2 BY <2>1
    <3>4. \A i \in 1..Len(ref) + 2 : (m \o rest)[i] = m[i] BY <3>2, <3>3
    <3>5. \A i \in Len(ref) + 3..Len(b) + 1 : (m \o rest)[i] = rest[i - (Len(ref) + 2)]
      <4> TAKE i \in Len(ref) + 3..Len(b) + 1
      <4>1. Len(m) + 1 = Len(ref) + 3 BY <3>1
      <4>2. i \in Len(m) + 1..Len(m) + Len(rest) BY <3>1, <4>1
      <4>3. (m \o rest)[i] = rest[i - Len(m)] BY <3>2, <4>2
      <4> QED BY <3>3, <4>3
    <3> QED BY <3>1, <3>2, <3>4, <3>5
  <2>3. n = m \o rest BY DEF m
  <2>4. /\ \A i \in 1..Len(ref) : i \in 1..Len(ref) + 2
        /\ Len(ref) + 1 \in 1..Len(ref) + 2 /\ Len(ref) + 2 \in 1..Len(ref) + 2
    OBVIOUS
  <2> HIDE DEF n
  <2> QED BY <2>1, <2>2, <2>3, <2>4
<1>5. \A i \in Len(ref) + 3..Len(b) + 1 : n[i] = b[i - 1]
  <2> HIDE DEF n, rest
  <2> TAKE i \in Len(ref) + 3..Len(b) + 1
  <2>1. i - (Len(ref) + 2) \in 1..Len(rest) BY <1>2
  <2>2. (i - (Len(ref) + 2)) + Len(ref) + 1 = i - 1 OBVIOUS
  <2> QED BY <1>2, <1>4, <2>1, <2>2
<1>6. \A i \in Len(ref) + 2..Len(b) + 1 : n[i] = b[i - 1]
  <2> HIDE DEF n, rest
  <2> TAKE i \in Len(ref) + 2..Len(b) + 1
  <2>1. CASE i = Len(ref) + 2
    <3>1. i - 1 = Len(ref) + 1 BY <2>1
    <3> QED BY <1>1, <1>4, <2>1, <3>1
  <2>2. CASE i # Len(ref) + 2
    <3>1. i \in Len(ref) + 3..Len(b) + 1 BY <2>2
    <3> QED BY <1>5, <3>1
  <2> QED BY <2>1, <2>2
<1>7. \A i \in 1..Len(ref) : n[i] = b[i]
  <2> HIDE DEF n
  <2> QED BY <1>1, <1>4
<1>8. ~Inside(n, ref)
  <2> HIDE DEF n
  <2> QED BY <1>1, <1>4, InsideElements
<1>9. AvoidRef(ref, b) = n BY <1>8 DEF AvoidRef, Inside
<1> QED
  <2> HIDE DEF n
  <2> QED BY <1>4, <1>6, <1>7, <1>9

\* The name would be a directory of ref: two dashes and dir go behind.
LEMMA AvoidBelow ==
  ASSUME NEW ref \in Seq(Nat), NEW b \in Seq(Nat), Inside(b, ref)
  PROVE  /\ AvoidRef(ref, b) \in Seq(Nat) /\ Len(AvoidRef(ref, b)) = Len(b) + 2
         /\ \A i \in 1..Len(b) : AvoidRef(ref, b)[i] = b[i]
         /\ AvoidRef(ref, b)[Len(b) + 1] = Dashes
         /\ AvoidRef(ref, b)[Len(b) + 2] = Dir
<1> DEFINE mid == <<Dashes, Dir>>
<1>1. ~Inside(ref, b) BY InsideElements
<1>2. AvoidRef(ref, b) = b \o mid BY <1>1 DEF AvoidRef, Inside
<1>3. mid \in Seq(Nat) /\ Len(mid) = 2 /\ mid[1] = Dashes /\ mid[2] = Dir BY DEF Dashes, Dir
<1>4. /\ Len(b) + 1 \in Len(b) + 1..Len(b) + Len(mid) /\ Len(b) + 2 \in Len(b) + 1..Len(b) + Len(mid)
      /\ (Len(b) + 1) - Len(b) = 1 /\ (Len(b) + 2) - Len(b) = 2
  BY <1>3
<1> HIDE DEF mid
<1>5. /\ b \o mid \in Seq(Nat) /\ Len(b \o mid) = Len(b) + Len(mid)
      /\ \A i \in 1..Len(b) : (b \o mid)[i] = b[i]
      /\ \A i \in Len(b) + 1..Len(b) + Len(mid) : (b \o mid)[i] = mid[i - Len(b)]
  BY <1>3, ConcatElements
<1> QED BY <1>2, <1>3, <1>4, <1>5

\* A ref that is not in the way changes nothing.
LEMMA AvoidNothing ==
  ASSUME NEW ref, NEW b, ~Clash(b, ref) PROVE AvoidRef(ref, b) = b
BY DEF AvoidRef, Clash

\* Branch names: dir is the last token, if there is one.
Branches == {b \in Seq(Nat) : \A i \in 1..Len(b) : i < Len(b) /\ b[i] = Dir => b[i + 1] # Slash}

\* A round makes a branch name of a branch name.
LEMMA AvoidIsBranch ==
  ASSUME NEW ref \in Branches, NEW b \in Branches
  PROVE  AvoidRef(ref, b) \in Branches
<1> DEFINE n == AvoidRef(ref, b)
<1>0. ref \in Seq(Nat) /\ b \in Seq(Nat) BY DEF Branches
<1>1. Dashes # Slash /\ Dashes # Dir /\ Slash # Dir BY DEF Dashes, Slash, Dir
<1>2. CASE Inside(ref, b)
  <2> HIDE DEF n
  <2>1. Len(ref) < Len(b) /\ b[Len(ref) + 1] = Slash BY <1>0, <1>2, InsideElements
  <2>2. /\ n \in Seq(Nat) /\ Len(n) = Len(b) + 1
        /\ \A i \in 1..Len(ref) : n[i] = b[i]
        /\ n[Len(ref) + 1] = Dashes
        /\ \A i \in Len(ref) + 2..Len(b) + 1 : n[i] = b[i - 1]
    BY <1>0, <1>2, AvoidAbove DEF n
  <2>3. ASSUME NEW i \in 1..Len(n), i < Len(n), n[i] = Dir PROVE n[i + 1] # Slash
    <3>1. CASE i < Len(ref)
      <4>0. i \in 1..Len(ref) /\ i + 1 \in 1..Len(ref) BY <2>3, <3>1
      <4>1. i \in 1..Len(b) /\ i < Len(b)
        <5>1. Len(ref) \in Nat /\ Len(b) \in Nat BY <1>0
        <5> QED BY <2>1, <3>1, <4>0, <5>1
      <4>2. n[i] = b[i] /\ n[i + 1] = b[i + 1] BY <2>2, <4>0
      <4> QED BY <2>3, <4>1, <4>2 DEF Branches
    <3>2. CASE i = Len(ref) BY <1>1, <2>2, <3>2
    <3>3. CASE i = Len(ref) + 1 BY <1>1, <2>2, <2>3, <3>3
    <3>4. CASE i > Len(ref) + 1
      <4>1. /\ i \in Len(ref) + 2..Len(b) + 1 /\ i + 1 \in Len(ref) + 2..Len(b) + 1
            /\ i - 1 \in 1..Len(b) /\ i - 1 < Len(b)
        BY SMTT(60), <1>0, <2>1, <2>2, <2>3, <3>4
      <4>2. (i + 1) - 1 = (i - 1) + 1 BY <4>1
      <4>3. n[i] = b[i - 1] BY <2>2, <4>1
      <4>4. n[i + 1] = b[(i + 1) - 1] BY <2>2, <4>1
      <4> QED BY <2>3, <4>1, <4>2, <4>3, <4>4 DEF Branches
    <3> QED BY <1>0, <3>1, <3>2, <3>3, <3>4
  <2> QED BY <2>2, <2>3 DEF Branches, n
<1>3. CASE Inside(b, ref)
  <2> HIDE DEF n
  <2>2. /\ n \in Seq(Nat) /\ Len(n) = Len(b) + 2
        /\ \A i \in 1..Len(b) : n[i] = b[i]
        /\ n[Len(b) + 1] = Dashes /\ n[Len(b) + 2] = Dir
    BY <1>0, <1>3, AvoidBelow DEF n
  <2>3. ASSUME NEW i \in 1..Len(n), i < Len(n), n[i] = Dir PROVE n[i + 1] # Slash
    <3>1. CASE i < Len(b)
      <4>0. i \in 1..Len(b) /\ i + 1 \in 1..Len(b) BY <2>3, <3>1
      <4>1. n[i] = b[i] /\ n[i + 1] = b[i + 1] BY <2>2, <4>0
      <4> QED BY <2>3, <3>1, <4>0, <4>1 DEF Branches
    <3>2. CASE i = Len(b) BY <1>1, <2>2, <3>2
    <3>3. CASE i = Len(b) + 1 BY <1>1, <2>2, <2>3, <3>3
    <3> QED BY <1>0, <2>2, <2>3, <3>1, <3>2, <3>3
  <2> QED BY <2>2, <2>3 DEF Branches, n
<1>4. CASE ~Inside(ref, b) /\ ~Inside(b, ref) BY <1>4, AvoidNothing DEF Clash, Inside
<1> QED BY <1>2, <1>3, <1>4

-----------------------------------------------------------------------------
(* resolveTrackBranch.                                                     *)

\* Round by round, in the order of the names: iter[s] is the name after the
\* names in s.
Resolves(iter, names, branch) ==
  /\ iter[{}] = branch
  /\ \A s \in SUBSET names : iter[s] \in Branches
  /\ \A s \in (SUBSET names) \ {{}} :
       \E m \in s : (\A x \in s : ~Before(m, x)) /\ iter[s] = AvoidRef(m, iter[s \ {m}])

\* resolveTrackBranch takes the rounds in order.
LEMMA ResolveRounds ==
  ASSUME NEW names \in SUBSET Branches, IsFiniteSet(names), NEW branch \in Branches
  PROVE  \E iter : Resolves(iter, names, branch) /\ resolveTrackBranch(names, branch) = iter[names]
<1> DEFINE last(s) == CHOOSE r \in s : \A x \in s : ~Before(r, x)
           Is(iter) == iter = [s \in SUBSET names |->
                                 IF s = {} THEN branch ELSE AvoidRef(last(s), iter[s \ {last(s)}])]
           pick == [s \in SUBSET names |-> last(s)]
           step == [r \in names |-> [b \in Branches |-> AvoidRef(r, b)]]
           it   == CHOOSE iter : Is(iter)
<1>1. resolveTrackBranch(names, branch) = it[names]
  BY DEF resolveTrackBranch, MapThenFoldSet
<1>2. \A s \in (SUBSET names) \ {{}} : last(s) \in s /\ \A x \in s : ~Before(last(s), x)
  <2>1. names \in SUBSET Seq(Nat) BY DEF Branches
  <2> QED BY <2>1, LastExists
<1> HIDE DEF last
<1>3. Picks(names, pick) BY <1>2 DEF Picks
<1>4. Does(names, Branches, step) BY AvoidIsBranch DEF Does
<1>5. PICK iter : IsFold(iter, names, Branches, branch, pick, step)
  <2> HIDE DEF pick, step
  <2> QED BY <1>3, <1>4, FoldExists
<1>6. /\ iter \in [SUBSET names -> Branches]
      /\ \A s \in SUBSET names : iter[s] = IF s = {} THEN branch ELSE step[pick[s]][iter[s \ {pick[s]}]]
  <2> HIDE DEF pick, step
  <2> QED BY <1>5 DEF IsFold
<1>7. ASSUME NEW s \in SUBSET names
      PROVE  iter[s] = IF s = {} THEN branch ELSE AvoidRef(last(s), iter[s \ {last(s)}])
  <2>1. CASE s = {} BY <1>6, <2>1
  <2>2. CASE s # {}
    <3>1. pick[s] = last(s) /\ last(s) \in names /\ s \ {last(s)} \in SUBSET names BY <1>2, <2>2
    <3>2. iter[s \ {last(s)}] \in Branches BY <1>6, <3>1
    <3>3. iter[s] = step[last(s)][iter[s \ {last(s)}]]
      <4> HIDE DEF pick, step
      <4> QED BY <1>6, <2>2, <3>1
    <3> QED BY <2>2, <3>1, <3>2, <3>3
  <2> QED BY <2>1, <2>2
<1>8. Is(iter) BY <1>6, <1>7
<1>9. Is(it)
  <2> HIDE DEF Is
  <2> QED BY <1>8
<1>10. \A s \in SUBSET names :
         it[s] = IF s = {} THEN branch ELSE AvoidRef(last(s), it[s \ {last(s)}])
  <2> HIDE DEF it
  <2> QED BY <1>9
<1> HIDE DEF it
<1>11. \A s \in SUBSET names : it[s] \in Branches
  <2>1. it[{}] \in Branches BY <1>10
  <2>2. \A s \in (SUBSET names) \ {{}} : \E x \in s : it[s \ {x}] \in Branches => it[s] \in Branches
    <3> TAKE s \in (SUBSET names) \ {{}}
    <3>1. last(s) \in s /\ last(s) \in Branches BY <1>2
    <3>2. it[s \ {last(s)}] \in Branches => it[s] \in Branches BY <1>10, <3>1, AvoidIsBranch
    <3> QED BY <3>1, <3>2
  <2> QED BY <2>1, <2>2, FoldKeeps
<1>12. Resolves(it, names, branch) BY <1>2, <1>10, <1>11 DEF Resolves
<1> QED BY <1>1, <1>12

\* A round keeps the name out of the way of the names before ref, and of ref.
LEMMA RoundAvoids ==
  ASSUME NEW ref \in Branches, NEW b \in Branches, NEW r \in Branches,
         ~Before(ref, r), r = ref \/ ~Clash(b, r)
  PROVE  ~Clash(AvoidRef(ref, b), r)
<1> DEFINE n == AvoidRef(ref, b)
<1>0. ref \in Seq(Nat) /\ b \in Seq(Nat) /\ r \in Seq(Nat) BY DEF Branches
<1>1. Dashes # Slash /\ Dashes # Dir /\ Slash # Dir BY DEF Dashes, Slash, Dir
<1>2. Len(ref) \in Nat /\ Len(b) \in Nat /\ Len(r) \in Nat BY <1>0
<1>3. ASSUME Len(ref) < Len(r), \A i \in 1..Len(ref) : ref[i] = r[i] PROVE FALSE
  <2>1. IsPrefix(ref, r) BY SMTT(60), <1>0, <1>2, <1>3, PrefixElements
  <2>2. ref # r BY <1>3, <1>2
  <2> QED BY <2>1, <2>2 DEF Before, IsStrictPrefix
<1>4. CASE Inside(ref, b)
  <2>1. /\ Len(ref) < Len(b) /\ b[Len(ref) + 1] = Slash
        /\ \A i \in 1..Len(ref) : ref[i] = b[i]
    BY <1>0, <1>4, InsideElements
  <2>2. /\ n \in Seq(Nat) /\ Len(n) = Len(b) + 1
        /\ \A i \in 1..Len(ref) : n[i] = b[i]
        /\ n[Len(ref) + 1] = Dashes
    BY <1>0, <1>4, AvoidAbove
  <2> HIDE DEF n
  <2>3. ~Inside(n, r)
    <3>1. SUFFICES ASSUME Inside(n, r) PROVE FALSE OBVIOUS
    <3>2. Len(n) < Len(r) /\ \A i \in 1..Len(n) : n[i] = r[i] BY <1>0, <2>2, <3>1, InsideElements
    <3>3. Len(ref) < Len(r) BY <1>2, <2>1, <2>2, <3>2
    <3>4. \A i \in 1..Len(ref) : i \in 1..Len(n) BY <1>2, <2>1, <2>2
    <3>5. \A i \in 1..Len(ref) : ref[i] = r[i] BY <2>1, <2>2, <3>2, <3>4
    <3> QED BY <1>3, <3>3, <3>5
  <2>4. ~Inside(r, n)
    <3>1. SUFFICES ASSUME Inside(r, n) PROVE FALSE OBVIOUS
    <3>2. Len(r) < Len(n) /\ (\A i \in 1..Len(r) : r[i] = n[i]) /\ n[Len(r) + 1] = Slash
      BY <1>0, <2>2, <3>1, InsideElements
    <3>3. CASE Len(r) < Len(ref)
      <4>1. Len(r) + 1 \in 1..Len(ref) /\ \A i \in 1..Len(r) : i \in 1..Len(ref) BY <1>2, <3>3
      <4>2. \A i \in 1..Len(r) : r[i] = b[i] BY <2>2, <3>2, <4>1
      <4>3. b[Len(r) + 1] = Slash BY <2>2, <3>2, <4>1
      <4>4. Len(r) < Len(b) BY <1>2, <2>1, <3>3
      <4>5. Inside(r, b) BY <1>0, <4>2, <4>3, <4>4, InsideElements
      <4>6. r # ref BY <1>2, <3>3
      <4> QED BY <4>5, <4>6 DEF Clash, Inside
    <3>4. CASE Len(r) = Len(ref) BY <1>1, <2>2, <3>2, <3>4
    <3>5. CASE Len(r) > Len(ref)
      <4>1. \A i \in 1..Len(ref) : i \in 1..Len(r) BY <1>2, <3>5
      <4>2. \A i \in 1..Len(ref) : ref[i] = r[i] BY <2>1, <2>2, <3>2, <4>1
      <4> QED BY <1>3, <3>5, <4>2
    <3> QED BY <1>2, <3>3, <3>4, <3>5
  <2> QED BY <2>3, <2>4 DEF Clash, Inside, n
<1>5. CASE Inside(b, ref)
  <2>1. /\ Len(b) < Len(ref) /\ ref[Len(b) + 1] = Slash
        /\ \A i \in 1..Len(b) : b[i] = ref[i]
    BY <1>0, <1>5, InsideElements
  <2>2. /\ n \in Seq(Nat) /\ Len(n) = Len(b) + 2
        /\ \A i \in 1..Len(b) : n[i] = b[i]
        /\ n[Len(b) + 1] = Dashes /\ n[Len(b) + 2] = Dir
    BY <1>0, <1>5, AvoidBelow
  <2> HIDE DEF n
  <2>3. ~Inside(n, r)
    <3>1. SUFFICES ASSUME Inside(n, r) PROVE FALSE OBVIOUS
    <3>2. Len(n) < Len(r) /\ (\A i \in 1..Len(n) : n[i] = r[i]) /\ r[Len(n) + 1] = Slash
      BY <1>0, <2>2, <3>1, InsideElements
    <3>3. Len(b) + 2 \in 1..Len(r) /\ Len(b) + 2 < Len(r) /\ Len(b) + 2 \in 1..Len(n) BY <1>2, <2>2, <3>2
    <3>4. r[Len(b) + 2] = Dir BY <2>2, <3>2, <3>3
    <3>5. r[(Len(b) + 2) + 1] = Slash BY <2>2, <3>2
    <3> QED BY <3>3, <3>4, <3>5 DEF Branches
  <2>4. ~Inside(r, n)
    <3>1. SUFFICES ASSUME Inside(r, n) PROVE FALSE OBVIOUS
    <3>2. Len(r) < Len(n) /\ (\A i \in 1..Len(r) : r[i] = n[i]) /\ n[Len(r) + 1] = Slash
      BY <1>0, <2>2, <3>1, InsideElements
    <3>3. CASE Len(r) < Len(b)
      <4>1. Len(r) + 1 \in 1..Len(b) /\ \A i \in 1..Len(r) : i \in 1..Len(b) BY <1>2, <3>3
      <4>2. \A i \in 1..Len(r) : r[i] = b[i] BY <2>2, <3>2, <4>1
      <4>3. b[Len(r) + 1] = Slash BY <2>2, <3>2, <4>1
      <4>5. Inside(r, b) BY <1>0, <3>3, <4>2, <4>3, InsideElements
      <4>6. r # ref BY <1>2, <2>1, <3>3
      <4> QED BY <4>5, <4>6 DEF Clash, Inside
    <3>4. CASE Len(r) = Len(b) BY <1>1, <2>2, <3>2, <3>4
    <3>5. CASE Len(r) = Len(b) + 1
      <4>1. n[Len(b) + 2] = Slash BY <1>2, <3>2, <3>5
      <4> QED BY <1>1, <2>2, <4>1
    <3> QED BY <1>2, <2>2, <3>2, <3>3, <3>4, <3>5
  <2> QED BY <2>3, <2>4 DEF Clash, Inside, n
<1>6. CASE ~Inside(ref, b) /\ ~Inside(b, ref)
  <2>1. ~Clash(b, ref) BY <1>6 DEF Clash, Inside
  <2> QED BY <2>1, AvoidNothing
<1> QED BY <1>4, <1>5, <1>6

\* The name the rounds come to is in the way of none of the names.
LEMMA ResolveAvoids ==
  ASSUME NEW names \in SUBSET Branches, IsFiniteSet(names), NEW branch \in Branches
  PROVE  /\ resolveTrackBranch(names, branch) \in Branches
         /\ \A r \in names : ~Clash(resolveTrackBranch(names, branch), r)
<1>1. PICK iter : Resolves(iter, names, branch) /\ resolveTrackBranch(names, branch) = iter[names]
  BY ResolveRounds
<1> DEFINE Good == {s \in SUBSET names : \A r \in s : ~Clash(iter[s], r)}
<1>2. ASSUME NEW s \in SUBSET names, \A u \in (SUBSET s) \ {s} : u \in Good, NEW r \in s
      PROVE  ~Clash(iter[s], r)
  <2>1. PICK m \in s : (\A x \in s : ~Before(m, x)) /\ iter[s] = AvoidRef(m, iter[s \ {m}])
    BY <1>1 DEF Resolves
  <2>2. s \ {m} \in Good BY <1>2
  <2>3. iter[s \ {m}] \in Branches /\ m \in Branches /\ r \in Branches BY <1>1 DEF Resolves
  <2>4. r = m \/ ~Clash(iter[s \ {m}], r) BY <2>2
  <2>5. ~Before(m, r) BY <2>1
  <2> QED BY <2>1, <2>3, <2>4, <2>5, RoundAvoids
<1>3. \A s \in SUBSET names : (\A u \in (SUBSET s) \ {s} : u \in Good) => s \in Good BY <1>2
<1>4. SUBSET names \subseteq Good
  <2> HIDE DEF Good
  <2> QED BY <1>3, SubsetsAll
<1>5. iter[names] \in Branches BY <1>1 DEF Resolves
<1> QED BY <1>1, <1>4, <1>5

-----------------------------------------------------------------------------
(* Which name the rounds come to.                                          *)

\* The rounds with names lead from base to b: so they did when there were fewer.
Closed(X, names) == \A r \in names, b \in X : AvoidRef(r, b) \in X
Reaches(names, base, b) ==
  \A X \in SUBSET Branches : base \in X /\ Closed(X, names) => b \in X

\* More branches do not take away what was reached with fewer.
LEMMA ReachesGrows ==
  ASSUME NEW names, NEW more, names \subseteq more, NEW base, NEW b, Reaches(names, base, b)
  PROVE  Reaches(more, base, b)
BY DEF Reaches, Closed

\* What resolveTrackBranch gives is reached by the rounds.
LEMMA ResolveReaches ==
  ASSUME NEW names \in SUBSET Branches, IsFiniteSet(names), NEW branch \in Branches
  PROVE  Reaches(names, branch, resolveTrackBranch(names, branch))
<1>1. PICK iter : Resolves(iter, names, branch) /\ resolveTrackBranch(names, branch) = iter[names]
  BY ResolveRounds
<1>2. ASSUME NEW X \in SUBSET Branches, branch \in X, Closed(X, names)
      PROVE  iter[names] \in X
  <2>1. iter[{}] \in X BY <1>1, <1>2 DEF Resolves
  <2>2. \A s \in (SUBSET names) \ {{}} : \E x \in s : iter[s \ {x}] \in X => iter[s] \in X
    <3> TAKE s \in (SUBSET names) \ {{}}
    <3>1. PICK m \in s : iter[s] = AvoidRef(m, iter[s \ {m}]) BY <1>1 DEF Resolves
    <3>2. m \in names OBVIOUS
    <3> QED BY <1>2, <3>1, <3>2 DEF Closed
  <2>3. \A s \in SUBSET names : iter[s] \in X BY <2>1, <2>2, FoldKeeps
  <2> QED BY <2>3
<1> QED BY <1>1, <1>2 DEF Reaches

\* Of branches next to each other, all that are in the way of a name change it
\* alike.
LEMMA RoundsAgree ==
  ASSUME NEW r \in Branches, NEW q \in Branches, NEW b \in Branches,
         ~Clash(r, q), Clash(b, r), Clash(b, q)
  PROVE  AvoidRef(r, b) = AvoidRef(q, b)
<1>0. r \in Seq(Nat) /\ q \in Seq(Nat) /\ b \in Seq(Nat) BY DEF Branches
<1>1. Len(r) \in Nat /\ Len(q) \in Nat /\ Len(b) \in Nat BY <1>0
<1>2. ~Inside(r, q) /\ ~Inside(q, r) BY DEF Clash, Inside
<1>3. ASSUME NEW s \in Seq(Nat), NEW t \in Seq(Nat), Inside(s, b), Inside(t, b), Len(s) < Len(t)
      PROVE  Inside(s, t)
  <2>1. (\A i \in 1..Len(s) : s[i] = b[i]) /\ b[Len(s) + 1] = Slash BY <1>0, <1>3, InsideElements
  <2>2. \A i \in 1..Len(t) : t[i] = b[i] BY <1>0, <1>3, InsideElements
  <2>3. Len(s) + 1 \in 1..Len(t) /\ \A i \in 1..Len(s) : i \in 1..Len(t) BY <1>3
  <2> QED BY <1>3, <2>1, <2>2, <2>3, InsideElements
<1>4. ASSUME NEW s \in Seq(Nat), NEW t \in Seq(Nat), Inside(s, b), Inside(b, t) PROVE Inside(s, t)
  <2>1. /\ Len(s) < Len(b) /\ (\A i \in 1..Len(s) : s[i] = b[i]) /\ b[Len(s) + 1] = Slash
    BY <1>0, <1>4, InsideElements
  <2>2. Len(b) < Len(t) /\ \A i \in 1..Len(b) : b[i] = t[i] BY <1>0, <1>4, InsideElements
  <2>3. Len(s) + 1 \in 1..Len(b) /\ (\A i \in 1..Len(s) : i \in 1..Len(b)) /\ Len(s) < Len(t)
    BY <1>1, <2>1, <2>2
  <2> QED BY <2>1, <2>2, <2>3, InsideElements
<1>5. CASE Inside(r, b) /\ Inside(q, b)
  <2>1. Len(r) = Len(q) BY <1>0, <1>1, <1>2, <1>3, <1>5
  <2>2. \A i \in 1..Len(r) : r[i] = b[i] /\ q[i] = b[i] BY <1>0, <1>5, <2>1, InsideElements
  <2>3. r = q BY <1>0, <2>1, <2>2, SeqEqual
  <2> QED BY <2>3
<1>6. CASE Inside(b, r) /\ Inside(b, q)
  <2>1. ~Inside(r, b) /\ ~Inside(q, b) BY <1>0, <1>1, <1>6, InsideElements
  <2> QED BY <1>6, <2>1 DEF AvoidRef, Inside
<1> QED BY <1>0, <1>2, <1>4, <1>5, <1>6 DEF Clash, Inside

\* Among branches next to each other the rounds lead to one at most.
LEMMA ReachesOne ==
  ASSUME NEW names \in SUBSET Branches, \A r, q \in names : ~Clash(r, q),
         NEW base \in Branches, NEW a \in names, NEW b \in names,
         Reaches(names, base, a), Reaches(names, base, b)
  PROVE  a = b
<1> DEFINE X == {x \in Branches : Reaches(names, x, a)}
<1>1. ASSUME NEW r \in names, NEW x \in X PROVE AvoidRef(r, x) \in X
  <2>1. AvoidRef(r, x) \in Branches BY AvoidIsBranch
  <2>2. CASE ~Clash(x, r) BY <2>2, AvoidNothing
  <2>3. CASE Clash(x, r)
    <3>1. ASSUME NEW Y \in SUBSET Branches, AvoidRef(r, x) \in Y, Closed(Y, names) PROVE a \in Y
      <4> DEFINE Z == Y \cup {x}
      <4>1. ASSUME NEW q \in names PROVE AvoidRef(q, x) \in Z
        <5>1. CASE Clash(x, q)
          <6>1. AvoidRef(q, x) = AvoidRef(r, x) BY <2>3, <5>1, RoundsAgree
          <6> QED BY <3>1, <6>1
        <5>2. CASE ~Clash(x, q) BY <5>2, AvoidNothing
        <5> QED BY <5>1, <5>2
      <4>2. Closed(Z, names) BY <3>1, <4>1 DEF Closed
      <4>3. a \in Z BY <4>2 DEF Reaches
      <4>4. a # x BY <2>3
      <4> QED BY <4>3, <4>4
    <3> QED BY <2>1, <3>1 DEF Reaches
  <2> QED BY <2>2, <2>3
<1>2. Closed(X, names) BY <1>1 DEF Closed
<1>3. base \in X OBVIOUS
<1>4. b \in X
  <2> HIDE DEF X
  <2>1. X \in SUBSET Branches BY DEF X
  <2> QED BY <1>2, <1>3, <2>1 DEF Reaches
<1>5. Closed({b}, names) BY AvoidNothing DEF Closed
<1>6. {b} \in SUBSET Branches OBVIOUS
<1>7. Reaches(names, b, a) BY <1>4
<1> QED BY <1>5, <1>6, <1>7 DEF Reaches

-----------------------------------------------------------------------------
(* From here on the assumptions are about the instance.                    *)

USE TrackingAssumption

\* Paths, and paths with their host, are sequences of names.
LEMMA NameSequences ==
  /\ Names \subseteq Nat
  /\ \A p \in Paths \cup Dirs : p \in Seq(Names)
  /\ \A h \in Servers, p \in Paths \cup Dirs : <<h>> \o p \in Seq(Names)
BY DEF Names

\* The names of files and directories, token by token: no other is a dir or a
\* dash.
LEMMA BranchNameElements ==
  ASSUME NEW prefix \in {"local", "remote", "track"}, NEW p \in Seq(Names)
  PROVE  /\ SanitizeBranchName(p) \in Seq(Names)
         /\ BranchName(prefix, p) \in Seq(Nat)
         /\ Len(BranchName(prefix, p)) = 1 + 2 * Len(SanitizeBranchName(p))
         /\ BranchName(prefix, p)[1] = Prefix[prefix]
         /\ \A i \in 1..Len(SanitizeBranchName(p)) : BranchName(prefix, p)[2 * i + 1] = SanitizeBranchName(p)[i]
         /\ \A i \in 1..Len(BranchName(prefix, p)) : BranchName(prefix, p)[i] \notin {Dashes, Dir}
<1> DEFINE q == SanitizeBranchName(p)
           t == [i \in 1..2 * Len(q) |-> IF i % 2 = 1 THEN Slash ELSE q[i \div 2]]
           h == <<Prefix[prefix]>>
<1>1. q \in Seq(Names)
  <2>1. \A i \in 1..Len(p) : p[i] \in Names OBVIOUS
  <2>2. DOMAIN p = 1..Len(p) /\ Len(p) \in Nat OBVIOUS
  <2>3. q \in [1..Len(p) -> Names] BY <2>1, <2>2 DEF SanitizeBranchName
  <2> HIDE DEF q
  <2> QED BY <2>2, <2>3
<1>2. Prefix[prefix] \in Nat /\ Prefix[prefix] > 3 BY DEF Prefix
<1>3. /\ Slash \in Nat /\ Slash \notin {Dashes, Dir}
      /\ \A n \in Names : n \in Nat /\ n \notin {Dashes, Dir}
  BY DEF Slash, Dir, Dashes, Names
<1> HIDE DEF q
<1>4. \A i \in 1..2 * Len(q) : t[i] \in Nat /\ t[i] \notin {Dashes, Dir}
  <2> SUFFICES ASSUME NEW i \in 1..2 * Len(q), i % 2 # 1
               PROVE  q[i \div 2] \in Nat /\ q[i \div 2] \notin {Dashes, Dir}
    BY <1>3
  <2>1. i \div 2 \in 1..Len(q) BY <1>1
  <2>2. q[i \div 2] \in Names BY <1>1, <2>1
  <2> QED BY <1>3, <2>2
<1>5. t \in Seq(Nat) /\ Len(t) = 2 * Len(q)
  <2>1. 2 * Len(q) \in Nat BY <1>1
  <2>2. t \in [1..2 * Len(q) -> Nat] BY <1>4
  <2> HIDE DEF t
  <2> QED BY <2>1, <2>2
<1>6. h \in Seq(Nat) /\ Len(h) = 1 /\ h[1] = Prefix[prefix] /\ h[1] \notin {Dashes, Dir}
  BY <1>2 DEF Dir, Dashes
<1>7. \A i \in 1..Len(t) : t[i] \notin {Dashes, Dir} BY <1>4, <1>5
<1>8. \A i \in 1..Len(q) : 2 * i \in 1..Len(t) /\ t[2 * i] = q[i]
  <2> TAKE i \in 1..Len(q)
  <2>1. i \in Nat /\ Len(q) \in Nat BY <1>1
  <2>2. 2 * i \in 1..2 * Len(q) BY <2>1
  <2>3. (2 * i) % 2 = 0 /\ (2 * i) \div 2 = i BY <2>1
  <2> QED BY <1>5, <2>2, <2>3
<1> HIDE DEF t, h
<1>9. /\ h \o t \in Seq(Nat) /\ Len(h \o t) = 1 + Len(t)
      /\ \A i \in 1..1 : (h \o t)[i] = h[i]
      /\ \A i \in 2..1 + Len(t) : (h \o t)[i] = t[i - 1]
  <2>1. /\ h \o t \in Seq(Nat) /\ Len(h \o t) = Len(h) + Len(t)
        /\ \A i \in 1..Len(h) : (h \o t)[i] = h[i]
        /\ \A i \in Len(h) + 1..Len(h) + Len(t) : (h \o t)[i] = t[i - Len(h)]
    BY <1>5, <1>6, ConcatElements
  <2>2. Len(h) + 1 = 2 BY <1>6
  <2> QED BY <1>6, <2>1, <2>2
<1>10. \A i \in 1..Len(h \o t) : (h \o t)[i] \notin {Dashes, Dir}
  <2> TAKE i \in 1..Len(h \o t)
  <2>1. CASE i = 1 BY <1>6, <1>9, <2>1
  <2>2. CASE i # 1
    <3>1. i \in 2..1 + Len(t) /\ i - 1 \in 1..Len(t) BY <1>5, <1>9, <2>2
    <3> QED BY <1>7, <1>9, <3>1
  <2> QED BY <2>1, <2>2
<1>11. \A i \in 1..Len(q) : (h \o t)[2 * i + 1] = q[i]
  <2> TAKE i \in 1..Len(q)
  <2>1. i \in Nat /\ Len(t) \in Nat /\ Len(q) \in Nat BY <1>1, <1>5
  <2>2. 2 * i + 1 \in 2..1 + Len(t) /\ (2 * i + 1) - 1 = 2 * i BY <1>8, <2>1
  <2>3. (h \o t)[2 * i + 1] = t[(2 * i + 1) - 1] BY <1>9, <2>2
  <2> QED BY <1>8, <2>2, <2>3
<1>12. BranchName(prefix, p) = h \o t BY DEF BranchName, t, h, q
<1>13. Len(h \o t) = 1 + 2 * Len(q) /\ (h \o t)[1] = Prefix[prefix] BY <1>5, <1>6, <1>9
<1> QED BY <1>1, <1>9, <1>10, <1>11, <1>12, <1>13 DEF q

\* The names of files and directories are branch names.
LEMMA BranchNames ==
  ASSUME NEW prefix \in {"local", "remote", "track"}, NEW p \in Seq(Names)
  PROVE  BranchName(prefix, p) \in Branches
BY SMTT(60), BranchNameElements DEF Branches

-----------------------------------------------------------------------------
(* The invariant.                                                          *)

\* What may be committed: files on no denylist.
Storable == {id \in Ids : PathOf(id) \notin Denied}
Trees    == UNION {[I -> Contents] : I \in SUBSET Storable}

\* The branches that can be in one repository.
Repos == {r \in UNION {[B -> Trees] : B \in SUBSET Branches} :
            IsFiniteSet(DOMAIN r) /\ \A b, c \in DOMAIN r : ~Clash(b, c)}

Records == [hash : Contents, branch : Branches \cup {None}, group : Dirs \cup {None}, mode : Modes]

\* The name resolveTrackBranch starts from.
BaseName(id, group, mode) ==
  BranchName(CASE mode = "local" -> "local"
               [] mode # "local" /\ HostOf(id) # Here -> "remote"
               [] OTHER -> "track",
             CASE group # None -> group
               [] group = None /\ HostOf(id) = Here -> PathOf(id)
               [] OTHER -> <<HostOf(id)>> \o PathOf(id))

\* How files of servers are tracked.
ServerModes == {t[3] : t \in {u \in FileTracks \cup DirTracks : u[1] # Here}}

\* A record of id in a repository with the branches names.
RecordFits(id, rec, names) ==
  /\ rec \in Records
  /\ HostOf(id) # Here => rec.mode \in ServerModes
  /\ rec.branch = None <=> rec.mode = "hash"
  /\ PathOf(id) \in Denied => rec.mode = "hash"
  /\ rec.mode # "hash" => Reaches(names, BaseName(id, rec.group, rec.mode), rec.branch)

RecMaps(names) ==
  {rs \in UNION {[I -> Records] : I \in SUBSET Ids} : \A id \in DOMAIN rs : RecordFits(id, rs[id], names)}

RepoInv(r, c) == r \in Repos /\ c \in SUBSET Trees /\ \A b \in DOMAIN r : r[b] \in c

TrackInv ==
  /\ disk \in [Ids -> Contents \cup {Gone}]
  /\ recs \in RecMaps(DOMAIN refs)
  /\ RepoInv(refs, commits)
  /\ excludes \subseteq Arguments /\ manifest \subseteq Ids /\ edits \in 0..MaxEdits

\* So is the name resolveTrackBranch starts from.
LEMMA BaseNames ==
  ASSUME NEW id \in Ids, NEW group \in Dirs \cup {None}, NEW mode \in Modes
  PROVE  BaseName(id, group, mode) \in Branches
<1> DEFINE base == CASE group # None -> group
                     [] group = None /\ HostOf(id) = Here -> PathOf(id)
                     [] OTHER -> <<HostOf(id)>> \o PathOf(id)
           prefix == CASE mode = "local" -> "local"
                       [] mode # "local" /\ HostOf(id) # Here -> "remote"
                       [] OTHER -> "track"
<1>1. PathOf(id) \in Paths /\ HostOf(id) \in {Here} \cup Servers BY DEF Ids, Hosts, PathOf, HostOf
<1>2. base \in Seq(Names)
  <2>1. CASE group # None BY <2>1, NameSequences
  <2>2. CASE group = None /\ HostOf(id) = Here BY <1>1, <2>2, NameSequences
  <2>3. CASE group = None /\ HostOf(id) # Here BY <1>1, <2>3, NameSequences
  <2> QED BY <2>1, <2>2, <2>3
<1>3. prefix \in {"local", "remote", "track"} OBVIOUS
<1> HIDE DEF base, prefix
<1>4. BranchName(prefix, base) \in Branches BY <1>2, <1>3, BranchNames
<1> QED BY <1>4 DEF BaseName, base, prefix

\* No branch name stands for no branch.
LEMMA BranchIsNotNone == None \notin Branches
BY DEF Branches

\* A branch is not in its own way.
LEMMA NoSelfClash == ASSUME NEW b \in Branches PROVE ~Clash(b, b)
<1>1. b \in Seq(Nat) BY DEF Branches
<1> QED BY <1>1, InsideElements DEF Clash, Inside

\* A new record fits, whether or not the branches could be listed.
LEMMA NewRecordFits ==
  ASSUME TrackInv, NEW id \in Ids, disk[id] # Gone, NEW group \in Dirs \cup {None},
         NEW mode \in Modes, PathOf(id) \in Denied => mode = "hash",
         HostOf(id) # Here => mode \in ServerModes, NEW names \in {DOMAIN refs, {}}
  PROVE  RecordFits(id, NewRecord(names, id, group, mode), DOMAIN refs)
<1> DEFINE base == BaseName(id, group, mode)
           res  == resolveTrackBranch(names, base)
<1>1. base \in Branches BY BaseNames
<1>2. names \in SUBSET Branches /\ IsFiniteSet(names)
  BY FS_EmptySet DEF TrackInv, RepoInv, Repos
<1>3. BranchFor(names, id, group, mode) = IF mode = "hash" THEN None ELSE res BY DEF BranchFor, BaseName
<1> HIDE DEF base
<1>4. res \in Branches /\ Reaches(names, base, res) BY <1>1, <1>2, ResolveAvoids, ResolveReaches
<1> HIDE DEF res
<1>5. Reaches(DOMAIN refs, base, res) BY <1>4, ReachesGrows
<1>6. disk[id] \in Contents BY DEF TrackInv
<1>7. res # None BY <1>4, BranchIsNotNone
<1>8. NewRecord(names, id, group, mode) = [hash |-> disk[id], branch |-> IF mode = "hash" THEN None ELSE res,
                                           group |-> group, mode |-> mode]
  BY <1>3 DEF NewRecord
<1>9. NewRecord(names, id, group, mode) \in Records BY <1>4, <1>6, <1>8 DEF Records
<1> QED BY <1>5, <1>7, <1>8, <1>9 DEF RecordFits, base

\* Records one over the other.
LEMMA OverFits ==
  ASSUME NEW names, NEW rs \in RecMaps(names), NEW J \in SUBSET Ids, NEW new,
         DOMAIN new = J, \A id \in J : RecordFits(id, new[id], names)
  PROVE  Over(new, rs) \in RecMaps(names)
<1>1. DOMAIN rs \in SUBSET Ids /\ \A id \in DOMAIN rs : RecordFits(id, rs[id], names) BY DEF RecMaps
<1>2. /\ Over(new, rs) = [id \in J \cup DOMAIN rs |-> IF id \in J THEN new[id] ELSE rs[id]]
  BY DEF Over
<1>3. \A id \in J \cup DOMAIN rs : RecordFits(id, Over(new, rs)[id], names) BY <1>1, <1>2
<1>4. Over(new, rs) \in [J \cup DOMAIN rs -> Records] BY <1>2, <1>3 DEF RecordFits
<1> QED BY <1>1, <1>3, <1>4 DEF RecMaps

\* rs with new records of the files J.
Added(rs, J, group, mode, seen) == Over([id \in J |-> NewRecord(seen[id], id, group[id], mode)], rs)

\* They fit.
LEMMA NewRecordsFit ==
  ASSUME TrackInv, NEW rs \in RecMaps(DOMAIN refs), NEW J \in SUBSET Ids,
         NEW group \in [J -> Dirs \cup {None}], NEW mode \in Modes, NEW seen \in Listings(J),
         \A id \in J : disk[id] # Gone /\ (PathOf(id) \in Denied => mode = "hash")
                        /\ (HostOf(id) # Here => mode \in ServerModes)
  PROVE  Added(rs, J, group, mode, seen) \in RecMaps(DOMAIN refs)
<1> DEFINE new == [id \in J |-> NewRecord(seen[id], id, group[id], mode)]
<1>1. ASSUME NEW id \in J PROVE RecordFits(id, new[id], DOMAIN refs)
  <2>1. group[id] \in Dirs \cup {None} /\ seen[id] \in {DOMAIN refs, {}} BY DEF Listings
  <2> QED BY <2>1, NewRecordFits
<1>2. DOMAIN new = J OBVIOUS
<1> HIDE DEF new
<1>3. Over(new, rs) \in RecMaps(DOMAIN refs) BY <1>1, <1>2, OverFits
<1> QED BY <1>3 DEF new, Added

\* The new files of tracked directories.
LEMMA AutoTrackFits ==
  ASSUME TrackInv, NEW rs \in RecMaps(DOMAIN refs), NEW dirs \in SUBSET Dirs,
         NEW all \in AutoTrack(rs, dirs)
  PROVE  all \in RecMaps(DOMAIN refs)
<1> DEFINE new == {p \in UNION {Walked(rs, d) : d \in dirs} : Trackable(rs, <<Here, p>>, "plain")}
           J == {<<Here, p>> : p \in new}
<1>1. PICK own \in [new -> dirs], seen \in Listings(J) :
        all = Over([id \in J |-> NewRecord(seen[id], id, own[PathOf(id)], "plain")], rs)
  <2>1. all \in TrackedFor(rs, new, dirs) BY DEF AutoTrack
  <2> HIDE DEF new
  <2>2. PICK seen \in Listings(J) :
          all \in {Over([id \in J |-> NewRecord(seen[id], id, own[PathOf(id)], "plain")], rs) :
                     own \in {o \in [new -> dirs] : \A p \in new : p \in Walked(rs, o[p])}}
    BY <2>1 DEF TrackedFor
  <2> QED BY <2>2
<1>2. \A p \in new : /\ p \in Paths /\ disk[<<Here, p>>] # Gone /\ p \notin Denied
                     /\ <<Here, p>> \in Ids /\ PathOf(<<Here, p>>) = p /\ HostOf(<<Here, p>>) = Here
  BY DEF Walked, Trackable, Ids, Hosts, PathOf, HostOf
<1> HIDE DEF new
<1> DEFINE group == [id \in J |-> own[PathOf(id)]]
<1>3. \A id \in J : /\ id \in Ids /\ disk[id] # Gone /\ PathOf(id) \notin Denied /\ PathOf(id) \in new
                    /\ HostOf(id) = Here
  BY <1>2
<1>4. group \in [J -> Dirs \cup {None}] BY <1>3
<1>5. \A id \in J : group[id] = own[PathOf(id)] OBVIOUS
<1> HIDE DEF J, group
<1>6. all = Added(rs, J, group, "plain", seen) BY <1>1, <1>5 DEF Added
<1>7. "plain" \in Modes BY DEF Modes
<1>8. J \in SUBSET Ids BY <1>3
<1>9. \A id \in J : disk[id] # Gone /\ (PathOf(id) \in Denied => "plain" = "hash")
                    /\ (HostOf(id) # Here => "plain" \in ServerModes)
  BY <1>3
<1> QED BY <1>4, <1>6, <1>7, <1>8, <1>9, NewRecordsFit

-----------------------------------------------------------------------------
(* Sync.                                                                   *)

\* The files are finite in number, and so are the groups of a Sync.
LEMMA FinitelyManyFiles == IsFiniteSet(Ids)
<1>1. IsFiniteSet({Here} \cup Servers) BY FS_Singleton, FS_Union
<1> QED BY <1>1, FS_Product DEF Ids, Hosts

\* What a Sync of rs makes of the repository and the records, group by group.
SyncStates(rs) ==
  {r \in [refs : Repos, commits : SUBSET Trees, recs : UNION {[I -> Records] : I \in SUBSET DOMAIN rs},
          ok : BOOLEAN] :
     /\ RepoInv(r.refs, r.commits) /\ DOMAIN refs \subseteq DOMAIN r.refs /\ commits \subseteq r.commits
     /\ \A id \in DOMAIN r.recs : r.recs[id] = [rs[id] EXCEPT !.hash = r.recs[id].hash]}

\* The branch b of r set to tree.
SetBranch(r, b, tree) == Over([x \in {b} |-> tree], r)

\* One commit.
LEMMA CommitKeeps ==
  ASSUME NEW r \in Repos, NEW c \in SUBSET Trees, RepoInv(r, c),
         NEW b \in Branches, NEW tree \in Trees, \A d \in DOMAIN r : ~Clash(b, d)
  PROVE  /\ RepoInv(SetBranch(r, b, tree), c \cup {tree})
         /\ DOMAIN SetBranch(r, b, tree) = {b} \cup DOMAIN r
<1> DEFINE r2 == SetBranch(r, b, tree)
<1>1. DOMAIN r \in SUBSET Branches /\ IsFiniteSet(DOMAIN r) /\ \A x \in DOMAIN r : r[x] \in Trees
  BY DEF Repos
<1>2. r2 = [x \in {b} \cup DOMAIN r |-> IF x = b THEN tree ELSE r[x]] BY DEF Over, SetBranch
<1>3. r2 \in [{b} \cup DOMAIN r -> Trees] BY <1>1, <1>2
<1>4. IsFiniteSet({b} \cup DOMAIN r) BY <1>1, FS_Singleton, FS_Union
<1>5. ASSUME NEW x \in {b} \cup DOMAIN r, NEW y \in {b} \cup DOMAIN r PROVE ~Clash(x, y)
  <2>1. \A d, e : Clash(d, e) <=> Clash(e, d) BY DEF Clash
  <2>2. ~Clash(b, b) BY NoSelfClash
  <2>3. \A d, e \in DOMAIN r : ~Clash(d, e) BY DEF Repos
  <2> QED BY <2>1, <2>2, <2>3
<1>6. DOMAIN r2 = {b} \cup DOMAIN r BY <1>2
<1>7. {b} \cup DOMAIN r \in SUBSET Branches BY <1>1
<1>8. r2 \in Repos BY <1>3, <1>4, <1>5, <1>6, <1>7 DEF Repos
<1>9. \A x \in DOMAIN r2 : r2[x] \in c \cup {tree} BY <1>2, <1>6 DEF RepoInv
<1> QED BY <1>2, <1>6, <1>8, <1>9 DEF RepoInv

\* One group.
LEMMA SyncGroupKeeps ==
  ASSUME TrackInv, NEW rs \in RecMaps(DOMAIN refs), NEW r \in SyncStates(rs),
         NEW live, NEW gone, NEW lead \in DOMAIN rs, rs[lead].mode # "hash",
         live \subseteq {id \in DOMAIN rs : rs[id].mode # "hash" /\ disk[id] # Gone}
  PROVE  SyncGroup(r, rs, live, gone, lead) \in SyncStates(rs)
<1> DEFINE blobs  == [id \in live |-> Data(id, rs[id])]
           b      == rs[lead].branch
           old    == IF b \in DOMAIN r.refs THEN r.refs[b] ELSE <<>>
           tree   == Over(blobs, [id \in DOMAIN old \ gone |-> old[id]])
           c      == CommitTo(r, b, blobs, gone)
           marked == [id \in DOMAIN r.recs \ gone |->
                        IF id \in live THEN [r.recs[id] EXCEPT !.hash = disk[id]] ELSE r.recs[id]]
<1>1. /\ DOMAIN rs \subseteq Ids
      /\ \A id \in DOMAIN rs : RecordFits(id, rs[id], DOMAIN refs)
  BY DEF RecMaps
<1>2. b \in Branches BY <1>1 DEF RecordFits, Records
<1>3. ASSUME NEW id \in live PROVE id \in Storable /\ disk[id] \in Contents /\ Data(id, rs[id]) \in Contents
  <2>1. id \in Storable BY <1>1, <1>3 DEF RecordFits, Storable
  <2>2. disk[id] \in Contents BY <2>1 DEF TrackInv, Storable
  <2>3. Encrypt(disk[id]) \in Contents BY <2>2 DEF Encrypt, Contents
  <2> QED BY <2>1, <2>2, <2>3 DEF Data
<1>4. tree \in Trees
  <2>1. DOMAIN old \subseteq Storable /\ \A id \in DOMAIN old : old[id] \in Contents
    <3>1. CASE b \in DOMAIN r.refs
      <4>1. old \in Trees BY <3>1 DEF SyncStates, RepoInv
      <4> HIDE DEF old
      <4> QED BY <4>1 DEF Trees
    <3>2. CASE b \notin DOMAIN r.refs
      <4>1. old = <<>> BY <3>2
      <4> HIDE DEF old
      <4> QED BY <4>1
    <3> QED BY <3>1, <3>2
  <2> HIDE DEF old
  <2>2. tree = [id \in live \cup (DOMAIN old \ gone) |->
                  IF id \in live THEN Data(id, rs[id]) ELSE old[id]]
    BY DEF Over
  <2>3. tree \in [live \cup (DOMAIN old \ gone) -> Contents] BY <1>3, <2>1, <2>2
  <2>4. live \cup (DOMAIN old \ gone) \in SUBSET Storable BY <1>3, <2>1
  <2> HIDE DEF tree
  <2> QED BY <2>3, <2>4 DEF Trees
<1>5. /\ r.refs \in Repos /\ r.commits \in SUBSET Trees /\ RepoInv(r.refs, r.commits)
      /\ DOMAIN refs \subseteq DOMAIN r.refs /\ commits \subseteq r.commits
      /\ DOMAIN r.recs \subseteq DOMAIN rs /\ \A id \in DOMAIN r.recs : r.recs[id] \in Records
      /\ \A id \in DOMAIN r.recs : r.recs[id] = [rs[id] EXCEPT !.hash = r.recs[id].hash]
      /\ r = [refs |-> r.refs, commits |-> r.commits, recs |-> r.recs, ok |-> r.ok]
  BY DEF SyncStates
<1> HIDE DEF tree, blobs, b
<1>6. CASE ~r.ok \/ \E d \in DOMAIN r.refs : Clash(b, d)
  <2>1. c = [r EXCEPT !.ok = FALSE] BY <1>6 DEF CommitTo
  <2>2. SyncGroup(r, rs, live, gone, lead) = c BY <1>5, <2>1 DEF SyncGroup, blobs, b
  <2>3. [r EXCEPT !.ok = FALSE] \in SyncStates(rs) BY DEF SyncStates
  <2> QED BY <2>1, <2>2, <2>3
<1>7. CASE ~(~r.ok \/ \E d \in DOMAIN r.refs : Clash(b, d))
  <2> DEFINE r2 == SetBranch(r.refs, b, tree)
  <2>1. c = [refs |-> r2, commits |-> r.commits \cup {tree}, recs |-> r.recs, ok |-> TRUE]
    BY <1>7 DEF CommitTo, tree, SetBranch
  <2>2. RepoInv(r2, r.commits \cup {tree}) /\ DOMAIN r2 = {b} \cup DOMAIN r.refs
    <3>1. \A d \in DOMAIN r.refs : ~Clash(b, d) BY <1>7
    <3> QED BY <1>2, <1>4, <1>5, <3>1, CommitKeeps
  <2> HIDE DEF r2
  <2>3. SyncGroup(r, rs, live, gone, lead)
          = [refs |-> r2, commits |-> r.commits \cup {tree}, recs |-> marked, ok |-> TRUE]
    <3>1. SyncGroup(r, rs, live, gone, lead)
            = IF ~c.ok THEN c
              ELSE [c EXCEPT !.recs = [id \in DOMAIN c.recs \ gone |->
                      IF id \in live THEN [c.recs[id] EXCEPT !.hash = disk[id]] ELSE c.recs[id]]]
      BY DEF SyncGroup, blobs, b
    <3>2. c.ok /\ c.recs = r.recs BY <2>1
    <3>3. SyncGroup(r, rs, live, gone, lead) = [c EXCEPT !.recs = marked] BY <3>1, <3>2
    <3> HIDE DEF marked, c
    <3> QED BY <2>1, <3>3
  <2>4. \A id \in DOMAIN marked : /\ id \in DOMAIN rs /\ marked[id] \in Records
                                  /\ marked[id] = [rs[id] EXCEPT !.hash = marked[id].hash]
    <3> SUFFICES ASSUME NEW id \in DOMAIN r.recs
                 PROVE  LET m == IF id \in live THEN [r.recs[id] EXCEPT !.hash = disk[id]] ELSE r.recs[id]
                        IN  m \in Records /\ m = [rs[id] EXCEPT !.hash = m.hash]
      BY <1>5
    <3>1. id \in DOMAIN rs /\ r.recs[id] \in Records /\ r.recs[id] = [rs[id] EXCEPT !.hash = r.recs[id].hash]
      BY <1>5
    <3>2. rs[id] \in Records BY <1>1, <3>1 DEF RecordFits
    <3>3. id \in live => disk[id] \in Contents BY <1>3
    <3> QED BY <3>1, <3>2, <3>3 DEF Records
  <2>5. marked \in [DOMAIN marked -> Records] BY <2>4
  <2>6. DOMAIN marked \in SUBSET DOMAIN rs BY <2>4
  <2> HIDE DEF marked
  <2>7. r2 \in Repos /\ r.commits \cup {tree} \in SUBSET Trees BY <2>2 DEF RepoInv
  <2> DEFINE n == [refs |-> r2, commits |-> r.commits \cup {tree}, recs |-> marked, ok |-> TRUE]
  <2>8. /\ n.refs = r2 /\ n.commits = r.commits \cup {tree} /\ n.recs = marked
        /\ n \in [refs : Repos, commits : SUBSET Trees,
                  recs : UNION {[I -> Records] : I \in SUBSET DOMAIN rs}, ok : BOOLEAN]
    BY <2>5, <2>6, <2>7
  <2>9. DOMAIN refs \subseteq DOMAIN r2 /\ commits \subseteq r.commits \cup {tree} BY <1>5, <2>2
  <2> HIDE DEF n
  <2>10. n \in SyncStates(rs) BY <2>2, <2>4, <2>8, <2>9 DEF SyncStates
  <2> QED BY <2>3, <2>10 DEF n
<1> QED BY <1>6, <1>7

\* The parts of a Sync of the files ids: what it reads, commits and removes, the
\* groups of that, the files that give a group its branch, and what it starts
\* from.
SyncScope(rs, ids)     == {id \in ids : rs[id].mode # "hash"}
SyncRead(rs, ids, up)  == {id \in SyncScope(rs, ids) : disk[id] # Gone /\ HostOf(id) \in up \cup {Here}}
SyncLive(rs, ids, up)  == {id \in SyncRead(rs, ids, up) : Changed(id, rs[id])}
SyncGone(rs, ids)      == {id \in SyncScope(rs, ids) : disk[id] = Gone /\ HostOf(id) = Here}
SyncFresh(rs, ids, up) ==
  [id \in DOMAIN rs |-> IF id \in SyncRead(rs, ids, up) \ SyncLive(rs, ids, up)
                        THEN [rs[id] EXCEPT !.hash = disk[id]] ELSE rs[id]]
SyncStart(rs, ids, up) ==
  [refs |-> refs, commits |-> commits, recs |-> SyncFresh(rs, ids, up), ok |-> TRUE]

InGroup(rs, k, S)     == {id \in S : GroupKey(id, rs[id]) = k}
SyncKeys(rs, ids, up) == {GroupKey(id, rs[id]) : id \in SyncLive(rs, ids, up) \cup SyncGone(rs, ids)}
SyncLeads(rs, ids, up) ==
  {l \in [SyncKeys(rs, ids, up) -> SyncLive(rs, ids, up) \cup SyncGone(rs, ids)] :
     \A k \in SyncKeys(rs, ids, up) :
       l[k] \in IF InGroup(rs, k, SyncLive(rs, ids, up)) # {} THEN InGroup(rs, k, SyncLive(rs, ids, up))
               ELSE InGroup(rs, k, SyncGone(rs, ids))}

\* What the group k does.
OfGroup(q, k, l, rs, ids, up) ==
  SyncGroup(q, rs, InGroup(rs, k, SyncLive(rs, ids, up)), InGroup(rs, k, SyncGone(rs, ids)), l[k])

\* it[s] is what the groups order[i], i in s, make of the start.
SyncRun(it, n, order, l, rs, ids, up) ==
  /\ n \in Nat /\ order \in [1..n -> SyncKeys(rs, ids, up)] /\ l \in SyncLeads(rs, ids, up)
  /\ \A k \in SyncKeys(rs, ids, up) : \E i \in 1..n : order[i] = k
  /\ \A s \in SUBSET (1..n) :
       /\ it[s] \in SyncStates(rs)
       /\ it[s] = IF s = {} THEN SyncStart(rs, ids, up)
                  ELSE OfGroup(it[s \ {Max(s)}], order[Max(s)], l, rs, ids, up)

\* Whatever comes of a Sync comes of a run of it.
LEMMA SyncRuns ==
  ASSUME TrackInv, NEW rs \in RecMaps(DOMAIN refs), NEW ids \in SUBSET DOMAIN rs, NEW up,
         NEW r \in Sync(rs, ids, up)
  PROVE  \E it, n, order, l : SyncRun(it, n, order, l, rs, ids, up) /\ r = it[1..n]
<1> DEFINE live  == SyncLive(rs, ids, up)
           gone  == SyncGone(rs, ids)
           keys  == SyncKeys(rs, ids, up)
           start == SyncStart(rs, ids, up)
           F(q, k, l) == OfGroup(q, k, l, rs, ids, up)
           Is(iter, l, order) == iter = [s \in SUBSET DOMAIN order |->
             IF s = {} THEN start ELSE F(iter[s \ {Max(s)}], order[Max(s)], l)]
           Fold(l, order) == FoldLeft(LAMBDA q, k : F(q, k, l), start, order)
<1>a. Sync(rs, ids, up) = {Fold(l, order) : l \in SyncLeads(rs, ids, up), order \in SetToSeqs(keys)}
  BY DEF Sync, FoldLeft, MapThenFoldSet, SyncScope, SyncRead, SyncLive, SyncGone, SyncFresh, SyncStart,
         InGroup, SyncKeys, SyncLeads, OfGroup
<1>b. \A l, order : Fold(l, order) = (CHOOSE iter : Is(iter, l, order))[DOMAIN order]
  BY DEF FoldLeft, MapThenFoldSet
<1> HIDE DEF Fold, keys, Is, start, F, live, gone
<1>1. PICK l \in SyncLeads(rs, ids, up), order \in SetToSeqs(keys) :
        r = (CHOOSE iter : Is(iter, l, order))[DOMAIN order]
  BY <1>a, <1>b
<1>c. l \in [keys -> live \cup gone] BY DEF SyncLeads, keys, live, gone
<1>d. /\ live \subseteq {id \in DOMAIN rs : rs[id].mode # "hash" /\ disk[id] # Gone}
      /\ live \cup gone \subseteq {id \in DOMAIN rs : rs[id].mode # "hash"}
  BY DEF live, gone, SyncLive, SyncGone, SyncRead, SyncScope
<1>2. DOMAIN rs \subseteq Ids /\ \A id \in DOMAIN rs : RecordFits(id, rs[id], DOMAIN refs) BY DEF RecMaps
<1>3. IsFiniteSet(keys) /\ Cardinality(keys) \in Nat
  <2> DEFINE S == live \cup gone
             f == [id \in S |-> GroupKey(id, rs[id])]
  <2>1. S \subseteq Ids BY <1>2, <1>d
  <2>0. keys = {GroupKey(id, rs[id]) : id \in S} BY DEF keys, SyncKeys, live, gone
  <2> HIDE DEF S
  <2>2. IsFiniteSet(S) BY <2>1, FinitelyManyFiles, FS_Subset
  <2>3. keys = {f[id] : id \in S} BY <2>0
  <2>4. f \in Surjection(S, keys) BY <2>3 DEF Surjection
  <2>5. IsFiniteSet(keys) BY <2>2, <2>4, FS_Surjection
  <2> QED BY <2>5, FS_CardinalityType
<1>4. order \in [1..Cardinality(keys) -> keys] /\ \A k \in keys : \E i \in 1..Cardinality(keys) : order[i] = k
  <2> DEFINE m == Cardinality(keys)
  <2>1. order \in [1..m -> keys] /\ \A i, j \in 1..m : i # j => order[i] # order[j] BY DEF SetToSeqs
  <2>2. order \in Injection(1..m, keys) BY <2>1 DEF Injection, IsInjective
  <2>3. IsFiniteSet(1..m) /\ Cardinality(1..m) = m
    <3>1. m \in Nat BY <1>3
    <3> HIDE DEF m
    <3>2. Cardinality(1..m) = IF 1 <= m THEN m - 1 + 1 ELSE 0 BY <3>1, FS_Interval
    <3>3. IsFiniteSet(1..m) BY <3>1, FS_Interval
    <3> QED BY <3>1, <3>2, <3>3
  <2>4. order \in Surjection(1..m, keys) BY <1>3, <2>2, <2>3, FS_Injection
  <2> QED BY <2>1, <2>4 DEF Surjection
<1>5. start \in SyncStates(rs)
  <2> DEFINE fresh == SyncFresh(rs, ids, up)
  <2>1. ASSUME NEW id \in DOMAIN rs
        PROVE  fresh[id] \in Records /\ fresh[id] = [rs[id] EXCEPT !.hash = fresh[id].hash]
    <3>1. rs[id] \in Records BY <1>2 DEF RecordFits
    <3>2. id \in SyncRead(rs, ids, up) => disk[id] \in Contents
      BY <1>2 DEF TrackInv, SyncRead, SyncScope
    <3> QED BY <3>1, <3>2 DEF Records, SyncFresh
  <2>2. fresh = [id \in DOMAIN rs |-> fresh[id]] BY DEF SyncFresh
  <2> HIDE DEF fresh
  <2>3. fresh \in [DOMAIN rs -> Records] BY <2>1, <2>2
  <2>4. fresh \in UNION {[I -> Records] : I \in SUBSET DOMAIN rs} BY <2>3
  <2>5. start = [refs |-> refs, commits |-> commits, recs |-> fresh, ok |-> TRUE]
    BY DEF start, fresh, SyncStart
  <2> QED BY <2>1, <2>3, <2>4, <2>5 DEF SyncStates, TrackInv, RepoInv
<1> DEFINE D    == SyncStates(rs)
           Step == [k \in keys |-> [q \in D |-> F(q, k, l)]]
<1>6. ASSUME NEW k \in keys, NEW q \in D PROVE F(q, k, l) \in D
  <2>1. l[k] \in live \cup gone BY <1>c
  <2>2. l[k] \in DOMAIN rs /\ rs[l[k]].mode # "hash" BY <1>d, <2>1
  <2>3. InGroup(rs, k, live) \subseteq {id \in DOMAIN rs : rs[id].mode # "hash" /\ disk[id] # Gone}
    BY <1>d DEF InGroup
  <2>4. SyncGroup(q, rs, InGroup(rs, k, live), InGroup(rs, k, gone), l[k]) \in SyncStates(rs)
    BY <2>2, <2>3, SyncGroupKeeps
  <2> QED BY <2>4 DEF F, OfGroup, live, gone
<1> HIDE DEF D
<1>7. Step \in [keys -> [D -> D]] BY <1>6
<1> DEFINE n == Cardinality(keys)
           it == CHOOSE iter : Is(iter, l, order)
<1>8. r = it[DOMAIN order] BY <1>1
<1>9. DOMAIN order = 1..n BY <1>4
<1>10. PICK iter : IsFoldLeft(iter, n, order, D, start, Step)
  <2> HIDE DEF Step, n
  <2>1. start \in D BY <1>5 DEF D
  <2>2. n \in Nat /\ order \in [1..n -> keys] BY <1>3, <1>4 DEF n
  <2> QED BY <1>7, <2>1, <2>2, FoldLeftExists
<1> HIDE DEF n
<1>11. n \in Nat /\ order \in [1..n -> keys] /\ \A k \in keys : \E i \in 1..n : order[i] = k
  BY <1>3, <1>4 DEF n
<1>12. ASSUME NEW s \in SUBSET (1..n), s # {}
       PROVE  Max(s) \in s /\ order[Max(s)] \in keys /\ s \ {Max(s)} \in SUBSET (1..n)
  BY <1>11, <1>12, MaxIsIn
<1>13. ASSUME NEW s \in SUBSET (1..n)
       PROVE  iter[s] = IF s = {} THEN start ELSE F(iter[s \ {Max(s)}], order[Max(s)], l)
  <2>1. iter[s] = IF s = {} THEN start ELSE Step[order[Max(s)]][iter[s \ {Max(s)}]]
    <3> HIDE DEF Step
    <3> QED BY <1>10 DEF IsFoldLeft
  <2>2. s # {} => order[Max(s)] \in keys /\ iter[s \ {Max(s)}] \in D BY <1>10, <1>12 DEF IsFoldLeft
  <2> QED BY <2>1, <2>2
<1>14. iter = [s \in SUBSET (1..n) |-> IF s = {} THEN start ELSE F(iter[s \ {Max(s)}], order[Max(s)], l)]
  BY <1>10, <1>13 DEF IsFoldLeft
<1>15. Is(it, l, order)
  <2>1. Is(iter, l, order) BY <1>9, <1>14 DEF Is
  <2> HIDE DEF Is
  <2> QED BY <2>1
<1> HIDE DEF it
<1>16. \A s \in SUBSET (1..n) : it[s] = IF s = {} THEN start ELSE F(it[s \ {Max(s)}], order[Max(s)], l)
  BY <1>9, <1>15 DEF Is
<1>17. ASSUME NEW s \in SUBSET (1..n) PROVE it[s] \in D
  <2>1. it[{}] \in D BY <1>5, <1>16 DEF D
  <2>2. ASSUME NEW u \in (SUBSET (1..n)) \ {{}} PROVE \E x \in u : it[u \ {x}] \in D => it[u] \in D
    <3>1. Max(u) \in u /\ order[Max(u)] \in keys BY <1>12
    <3>2. it[u] = F(it[u \ {Max(u)}], order[Max(u)], l) BY <1>16
    <3> QED BY <1>6, <3>1, <3>2
  <2>3. IsFiniteSet(1..n) BY <1>11, FS_Interval
  <2> QED BY <2>1, <2>2, <2>3, FoldKeeps
<1>18. SyncRun(it, n, order, l, rs, ids, up) BY <1>11, <1>16, <1>17 DEF SyncRun, D, F, start, keys
<1> QED BY <1>8, <1>9, <1>18

\* And so it is as what a Sync makes of the repository and the records.
LEMMA SyncKeeps ==
  ASSUME TrackInv, NEW rs \in RecMaps(DOMAIN refs), NEW ids \in SUBSET DOMAIN rs, NEW up,
         NEW r \in Sync(rs, ids, up)
  PROVE  r \in SyncStates(rs)
<1>1. PICK it, n, order, l : SyncRun(it, n, order, l, rs, ids, up) /\ r = it[1..n] BY SyncRuns
<1> QED BY <1>1 DEF SyncRun

-----------------------------------------------------------------------------
(* The commands.                                                           *)

\* What a Sync of the records rs does.
LEMMA SyncFilesKeeps ==
  ASSUME TrackInv, NEW rs \in RecMaps(DOMAIN refs), NEW ids \in SUBSET DOMAIN rs,
         NEW all, NEW up, SyncFiles(rs, ids, all, up), UNCHANGED <<disk, excludes, edits>>
  PROVE  TrackInv'
<1>1. PICK r \in Sync(rs, ids, up) :
        /\ recs' = r.recs /\ refs' = r.refs /\ commits' = r.commits
        /\ manifest' = IF r.ok /\ DOMAIN rs # {} THEN DOMAIN rs ELSE manifest
  BY DEF SyncFiles
<1>2. r \in SyncStates(rs) BY SyncKeeps
<1>3. /\ RepoInv(r.refs, r.commits) /\ DOMAIN refs \subseteq DOMAIN r.refs
      /\ r.recs \in UNION {[I -> Records] : I \in SUBSET DOMAIN rs}
      /\ \A id \in DOMAIN r.recs : r.recs[id] = [rs[id] EXCEPT !.hash = r.recs[id].hash]
  BY <1>2 DEF SyncStates
<1>4. DOMAIN rs \subseteq Ids /\ \A id \in DOMAIN rs : RecordFits(id, rs[id], DOMAIN refs) BY DEF RecMaps
<1>5. ASSUME NEW id \in DOMAIN r.recs
      PROVE  /\ id \in DOMAIN rs /\ id \in Ids /\ r.recs[id] \in Records
             /\ r.recs[id].branch = rs[id].branch /\ r.recs[id].group = rs[id].group
             /\ r.recs[id].mode = rs[id].mode
  <2>1. id \in DOMAIN rs /\ r.recs[id] \in Records BY <1>3
  <2>2. rs[id] \in Records BY <1>4, <2>1 DEF RecordFits
  <2> QED BY <1>3, <1>4, <2>1, <2>2 DEF Records
<1>6. ASSUME NEW id \in DOMAIN r.recs PROVE RecordFits(id, r.recs[id], DOMAIN r.refs)
  <2>1. RecordFits(id, rs[id], DOMAIN refs) BY <1>4, <1>5
  <2>2. rs[id].mode # "hash" =>
          Reaches(DOMAIN r.refs, BaseName(id, rs[id].group, rs[id].mode), rs[id].branch)
    BY <1>3, <2>1, ReachesGrows DEF RecordFits
  <2> QED BY <1>5, <2>1, <2>2 DEF RecordFits
<1>7. r.recs \in UNION {[I -> Records] : I \in SUBSET Ids} BY <1>3, <1>4
<1>8. recs' \in RecMaps(DOMAIN refs') BY <1>1, <1>6, <1>7 DEF RecMaps
<1>9. RepoInv(refs', commits') BY <1>1, <1>3
<1>10. manifest' \subseteq Ids BY <1>1, <1>4 DEF TrackInv
<1> QED BY <1>8, <1>9, <1>10 DEF TrackInv, RepoInv

\* The directories auto-track walks are tracked ones.
LEMMA GroupDirsAreDirs == ASSUME NEW rs \in RecMaps(DOMAIN refs) PROVE GroupDirs(rs) \subseteq Dirs
BY DEF RecMaps, GroupDirs, RecordFits, Records

\* A Sync of the records found, or of all with the new files.
LEMMA SyncFoundKeeps ==
  ASSUME TrackInv, NEW rs \in RecMaps(DOMAIN refs), NEW found \in SUBSET DOMAIN rs,
         NEW host, NEW up, SyncFound(rs, found, host, up), UNCHANGED <<disk, excludes, edits>>
  PROVE  TrackInv'
<1> DEFINE ids == IF host = None THEN found
                  ELSE {id \in IF found = {} THEN DOMAIN rs ELSE found : HostOf(id) = host}
<1>1. ids \in SUBSET DOMAIN rs OBVIOUS
<1>2. CASE ids # {}
  <2>1. SyncFiles(rs, ids, FALSE, up) BY <1>2 DEF SyncFound
  <2> HIDE DEF ids
  <2> QED BY <1>1, <2>1, SyncFilesKeeps
<1>3. CASE ids = {}
  <2>1. PICK all \in AutoTrack(rs, GroupDirs(rs)) : SyncFiles(all, DOMAIN all, TRUE, up)
    BY <1>3 DEF SyncFound
  <2>2. GroupDirs(rs) \in SUBSET Dirs BY GroupDirsAreDirs
  <2>3. all \in RecMaps(DOMAIN refs) BY <2>2, AutoTrackFits
  <2>4. DOMAIN all \in SUBSET DOMAIN all OBVIOUS
  <2> QED BY <2>1, <2>3, <2>4, SyncFilesKeeps
<1> QED BY <1>2, <1>3

\* sync --all, of one record, and of a path.
LEMMA SyncCommandsKeep ==
  ASSUME TrackInv,
         \E up : \/ SyncAll(up)
                 \/ \E host : \/ \E id \in DOMAIN recs : SyncId(id, host, up)
                              \/ \E target, named : SyncTarget(target, named, host, up)
  PROVE  TrackInv'
<1>0. recs \in RecMaps(DOMAIN refs) BY DEF TrackInv
<1>1. ASSUME NEW up, SyncAll(up) PROVE TrackInv'
  <2>1. SyncFound(recs, {}, None, up) /\ UNCHANGED <<disk, excludes, edits>> BY <1>1 DEF SyncAll
  <2>2. {} \in SUBSET DOMAIN recs OBVIOUS
  <2> QED BY <1>0, <2>1, <2>2, SyncFoundKeeps
<1>2. ASSUME NEW up, NEW host, NEW id \in DOMAIN recs, SyncId(id, host, up) PROVE TrackInv'
  <2>1. SyncFound(recs, {id}, host, up) /\ UNCHANGED <<disk, excludes, edits>> BY <1>2 DEF SyncId
  <2>2. {id} \in SUBSET DOMAIN recs OBVIOUS
  <2> QED BY <1>0, <2>1, <2>2, SyncFoundKeeps
<1>3. ASSUME NEW up, NEW host, NEW target, NEW named, SyncTarget(target, named, host, up)
      PROVE  TrackInv'
  <2>1. PICK rs \in AutoTrack(recs, {d \in GroupDirs(recs) : Under(d, target)}) :
          SyncFound(rs, resolveSyncTarget(rs, target), host, up)
    BY <1>3 DEF SyncTarget
  <2>2. {d \in GroupDirs(recs) : Under(d, target)} \in SUBSET Dirs BY <1>0, GroupDirsAreDirs
  <2>3. rs \in RecMaps(DOMAIN refs) BY <1>0, <2>2, AutoTrackFits
  <2>4. resolveSyncTarget(rs, target) \in SUBSET DOMAIN rs BY DEF resolveSyncTarget
  <2>5. UNCHANGED <<disk, excludes, edits>> BY <1>3 DEF SyncTarget
  <2> QED BY <2>1, <2>3, <2>4, <2>5, SyncFoundKeeps
<1> QED BY <1>1, <1>2, <1>3

\* track.
LEMMA TracksKeeps ==
  ASSUME TrackInv, NEW ids \in SUBSET Ids, NEW bad, NEW group \in Dirs \cup {None}, NEW mode \in Modes,
         NEW up, Tracks(ids, bad, group, mode, up),
         \A id \in ids : Trackable(recs, id, mode) /\ (HostOf(id) # Here => mode \in ServerModes)
  PROVE  TrackInv'
<1> DEFINE groups == [id \in ids |-> group]
<1>0. PICK seen \in Listings(ids) :
        LET rs == Over([id \in ids |-> NewRecord(seen[id], id, group, mode)], recs) IN
        /\ UNCHANGED <<disk, excludes, edits>>
        /\ \/ recs' = rs /\ UNCHANGED <<repo, manifest>>
           \/ SyncFiles(rs, ids, FALSE, up)
  BY DEF Tracks
<1> DEFINE rs == Added(recs, ids, groups, mode, seen)
<1>1. rs = Over([id \in ids |-> NewRecord(seen[id], id, group, mode)], recs) BY DEF Added
<1>2. recs \in RecMaps(DOMAIN refs) BY DEF TrackInv
<1>3. groups \in [ids -> Dirs \cup {None}] OBVIOUS
<1>4. \A id \in ids : disk[id] # Gone /\ (PathOf(id) \in Denied => mode = "hash")
                      /\ (HostOf(id) # Here => mode \in ServerModes)
  BY DEF Trackable
<1>5. UNCHANGED <<disk, excludes, edits>> BY <1>0
<1>6. \/ recs' = rs /\ UNCHANGED <<repo, manifest>>
      \/ SyncFiles(rs, ids, FALSE, up)
  BY <1>0, <1>1
<1>7. ids \in SUBSET DOMAIN rs BY <1>1 DEF Over
<1> HIDE DEF groups
<1>8. rs \in RecMaps(DOMAIN refs) BY <1>2, <1>3, <1>4, NewRecordsFit
<1> HIDE DEF rs
<1>9. CASE recs' = rs /\ UNCHANGED <<repo, manifest>>
  BY <1>5, <1>8, <1>9 DEF TrackInv, repo
<1>10. CASE SyncFiles(rs, ids, FALSE, up) BY <1>5, <1>7, <1>8, <1>10, SyncFilesKeeps
<1> QED BY <1>6, <1>9, <1>10

\* track of a file, and of a directory.
LEMMA TrackCommandsKeep ==
  ASSUME TrackInv,
         \E up : \/ \E t \in FileTracks : TrackCmd(<<t[1], t[2]>>, t[3], up)
                 \/ \E t \in DirTracks : \E skip, unreadable : TrackDir(t[1], t[2], t[3], skip, unreadable, up)
  PROVE  TrackInv'
<1>1. ASSUME NEW up, NEW t \in FileTracks, TrackCmd(<<t[1], t[2]>>, t[3], up)
      PROVE  TrackInv'
  <2> DEFINE id == <<t[1], t[2]>>
  <2>1. id \in Ids /\ t[3] \in Modes /\ (HostOf(id) # Here => t[3] \in ServerModes)
    BY DEF Ids, HostOf, ServerModes
  <2>2. Trackable(recs, id, t[3]) /\ Tracks({id}, {}, None, t[3], up) BY <1>1 DEF TrackCmd
  <2> HIDE DEF id
  <2>3. /\ {id} \in SUBSET Ids
        /\ \A i \in {id} : Trackable(recs, i, t[3]) /\ (HostOf(i) # Here => t[3] \in ServerModes)
    BY <2>1, <2>2
  <2>4. None \in Dirs \cup {None} OBVIOUS
  <2> QED BY <2>1, <2>2, <2>3, <2>4, TracksKeeps
<1>2. ASSUME NEW up, NEW t \in DirTracks, NEW skip, NEW unreadable,
             TrackDir(t[1], t[2], t[3], skip, unreadable, up)
      PROVE  TrackInv'
  <2> DEFINE ids == Listed(t[1], t[2], t[3], skip)
             bad == {id \in ids : PathOf(id) \in unreadable}
  <2>1. t[2] \in Dirs \cup {None} /\ t[3] \in Modes OBVIOUS
  <2>2. Tracks(ids \ bad, bad, t[2], t[3], up) BY <1>2 DEF TrackDir
  <2>3. /\ ids \ bad \in SUBSET Ids
        /\ \A id \in ids \ bad : Trackable(recs, id, t[3]) /\ (HostOf(id) # Here => t[3] \in ServerModes)
    BY DEF Listed, ServerModes
  <2> HIDE DEF ids, bad
  <2> QED BY <2>1, <2>2, <2>3, TracksKeeps
<1> QED BY <1>1, <1>2

\* untrack, and the user's edits.
LEMMA UntrackKeeps ==
  ASSUME TrackInv, (\E id : UntrackId(id)) \/ (\E arg \in Arguments : \E host : Untrack(arg, host))
  PROVE  TrackInv'
<1>1. PICK gone : recs' = [id \in DOMAIN recs \ gone |-> recs[id]] \/ recs' = recs
  BY DEF UntrackId, Untrack
<1>2. excludes' \subseteq Arguments /\ UNCHANGED <<disk, repo, manifest, edits>>
  BY DEF UntrackId, Untrack, TrackInv
<1>3. \A id \in DOMAIN recs' : id \in DOMAIN recs /\ recs'[id] = recs[id] BY <1>1
<1>4. recs' = [id \in DOMAIN recs' |-> recs'[id]]
  <2>1. recs = [id \in DOMAIN recs |-> recs[id]] BY DEF TrackInv, RecMaps
  <2> QED BY <1>1, <2>1
<1>5. /\ recs' \in UNION {[I -> Records] : I \in SUBSET Ids}
      /\ \A id \in DOMAIN recs' : RecordFits(id, recs'[id], DOMAIN refs)
  <2>1. DOMAIN recs \subseteq Ids /\ \A id \in DOMAIN recs : RecordFits(id, recs[id], DOMAIN refs)
    BY DEF TrackInv, RecMaps
  <2>2. \A id \in DOMAIN recs' : recs'[id] \in Records BY <1>3, <2>1 DEF RecordFits
  <2>3. recs' \in [DOMAIN recs' -> Records] BY <1>4, <2>2
  <2> QED BY <1>3, <2>1, <2>3
<1>6. recs' \in RecMaps(DOMAIN refs) BY <1>5 DEF RecMaps
<1> QED BY <1>2, <1>3, <1>6 DEF TrackInv, repo

\* What a user writes is a content.
LEMMA RawIsContent == ASSUME NEW n \in 0..MaxEdits PROVE Raw(n) \in Contents
BY DEF Raw, Contents

\* Files are written or removed.
LEMMA WriteKeeps ==
  ASSUME TrackInv, NEW ids, NEW content, Write(ids, content), content \in {Gone, Raw(edits + 1)}
  PROVE  TrackInv'
<1>1. edits + 1 \in 0..MaxEdits /\ edits' = edits + 1 BY DEF Write, TrackInv
<1>2. content \in Contents \cup {Gone} BY <1>1, RawIsContent
<1>3. disk' \in [Ids -> Contents \cup {Gone}] BY <1>2 DEF Write, TrackInv
<1>4. UNCHANGED <<recs, excludes, refs, commits, manifest>> BY DEF Write, OnlyDisk, state, repo
<1> QED BY <1>1, <1>3, <1>4 DEF TrackInv

\* What is read back is a content.
LEMMA ShowIsContent ==
  ASSUME NEW r \in Repos, NEW b, NEW id PROVE Show(r, b, id) \in Contents \cup {Gone}
<1>1. b \in DOMAIN r => r[b] \in Trees BY DEF Repos
<1> QED BY <1>1 DEF Show, Trees

\* What is read back is decrypted only if it was encrypted, and is a content.
LEMMA TextIsContent ==
  ASSUME TrackInv, NEW id, Readable(id)
  PROVE  Text(id) \in Contents /\ RenderTemplate(Text(id)) \in Contents
<1>1. Blob(id) \in Contents
  <2>1. refs \in Repos BY DEF TrackInv, RepoInv
  <2> QED BY <2>1, ShowIsContent DEF Readable, Blob
<1>2. Text(id) \in Contents
  <2>1. recs[id].mode = "encrypt" => Blob(id).seals > 0 /\ Blob(id).seals - 1 \in Nat
    BY <1>1 DEF Readable, Contents
  <2>2. recs[id].mode = "encrypt" => Decrypt(Blob(id)) \in Contents BY <1>1, <2>1 DEF Decrypt, Contents
  <2> QED BY <1>1, <2>2 DEF Text
<1>3. RenderTemplate(Text(id)) \in Contents BY <1>2 DEF RenderTemplate, Contents
<1> QED BY <1>2, <1>3

Disks == [Ids -> Contents \cup {Gone}]

\* deploy --host.
LEMMA DeployKeepsDisk ==
  ASSUME TrackInv, NEW ids \in SUBSET DOMAIN recs, NEW order \in SetToSeqs(ids), NEW host \in Hosts
  PROVE  FoldLeft(LAMBDA d, id : DeployOne(d, id, host), disk, order) \in Disks
<1> DEFINE D == Disks
           start == disk
           F(q, id) == DeployOne(q, id, host)
<1>1. start \in D /\ \A id \in ids, q \in D : F(q, id) \in D
  <2>1. start \in D BY DEF TrackInv, Disks
  <2>2. ASSUME NEW id \in ids, NEW q \in Disks PROVE DeployOne(q, id, host) \in Disks
    <3>1. <<host, PathOf(id)>> \in Ids BY DEF TrackInv, RecMaps, Ids, PathOf
    <3>2. Readable(id) => Text(id) \in Contents BY TextIsContent
    <3> QED BY <3>1, <3>2 DEF DeployOne, Disks
  <2> QED BY <2>1, <2>2
<1> DEFINE Step == [id \in ids |-> [q \in D |-> F(q, id)]]
           n == Cardinality(ids)
           Is(iter) == iter = [s \in SUBSET DOMAIN order |->
                                 IF s = {} THEN start ELSE F(iter[s \ {Max(s)}], order[Max(s)])]
           it == CHOOSE iter : Is(iter)
<1>2. FoldLeft(LAMBDA d, id : DeployOne(d, id, host), disk, order) = it[DOMAIN order]
  BY DEF FoldLeft, MapThenFoldSet
<1>3. n \in Nat /\ order \in [1..n -> ids] /\ DOMAIN order = 1..n
  <2>1. ids \subseteq Ids BY DEF TrackInv, RecMaps
  <2>2. n \in Nat BY <2>1, FinitelyManyFiles, FS_Subset, FS_CardinalityType
  <2>3. order \in [1..n -> ids] BY DEF SetToSeqs
  <2> HIDE DEF n
  <2> QED BY <2>2, <2>3
<1> HIDE DEF D, F, start, n
<1>4. Step \in [ids -> [D -> D]] BY <1>1
<1>5. PICK iter : IsFoldLeft(iter, n, order, D, start, Step)
  <2> HIDE DEF Step
  <2> QED BY <1>1, <1>3, <1>4, FoldLeftExists
<1>6. ASSUME NEW s \in SUBSET (1..n)
       PROVE  /\ s # {} => Max(s) \in s /\ order[Max(s)] \in ids /\ s \ {Max(s)} \in SUBSET (1..n)
              /\ iter[s] = IF s = {} THEN start ELSE F(iter[s \ {Max(s)}], order[Max(s)])
  <2>1. s # {} => Max(s) \in s /\ order[Max(s)] \in ids /\ s \ {Max(s)} \in SUBSET (1..n) BY <1>3, MaxIsIn
  <2>2. iter[s] = IF s = {} THEN start ELSE Step[order[Max(s)]][iter[s \ {Max(s)}]]
    <3> HIDE DEF Step
    <3> QED BY <1>5 DEF IsFoldLeft
  <2>3. s # {} => iter[s \ {Max(s)}] \in D BY <1>5, <2>1 DEF IsFoldLeft
  <2> QED BY <2>1, <2>2, <2>3
<1>7. Is(it)
  <2>1. Is(iter) BY <1>3, <1>5, <1>6 DEF IsFoldLeft
  <2> HIDE DEF Is
  <2> QED BY <2>1
<1> HIDE DEF it
<1>8. \A s \in SUBSET (1..n) : it[s] = IF s = {} THEN start ELSE F(it[s \ {Max(s)}], order[Max(s)])
  BY <1>3, <1>7
<1>9. it[{}] \in D BY <1>1, <1>8
<1>10. ASSUME NEW s \in (SUBSET (1..n)) \ {{}}, it[s \ {Max(s)}] \in D PROVE it[s] \in D
  <2>1. order[Max(s)] \in ids BY <1>6
  <2>2. it[s] = F(it[s \ {Max(s)}], order[Max(s)]) BY <1>8
  <2> QED BY <1>1, <1>10, <2>1, <2>2
<1>11. it[1..n] \in D BY <1>3, <1>9, <1>10, FoldLeftKeeps
<1> QED BY Zenon, <1>2, <1>3, <1>11 DEF D

\* apply.
ApplyStates == [disk : Disks, ok : BOOLEAN]

Applied(order, force) ==
  FoldLeft(LAMBDA s, id : ApplyOne(s, id, force), [disk |-> disk, ok |-> TRUE], order)

\* Whatever order the files are applied in.
LEMMA ApplyKeepsDisk ==
  ASSUME TrackInv, NEW ids \in SUBSET DOMAIN recs, NEW order \in SetToSeqs(ids), NEW force
  PROVE  Applied(order, force) \in ApplyStates
<1> DEFINE D == ApplyStates
           start == [disk |-> disk, ok |-> TRUE]
           F(q, id) == ApplyOne(q, id, force)
<1>1. start \in D /\ \A id \in ids, q \in D : F(q, id) \in D
  <2>1. start \in D BY DEF TrackInv, ApplyStates, Disks
  <2>2. ASSUME NEW id \in ids, NEW q \in ApplyStates PROVE ApplyOne(q, id, force) \in ApplyStates
    <3>1. <<Here, PathOf(id)>> \in Ids BY DEF TrackInv, RecMaps, Ids, Hosts, PathOf
    <3>2. Readable(id) => Text(id) \in Contents /\ RenderTemplate(Text(id)) \in Contents BY TextIsContent
    <3>3. \A c \in Contents : [q EXCEPT !.disk[<<Here, PathOf(id)>>] = c] \in ApplyStates
      BY <3>1 DEF ApplyStates, Disks
    <3>4. [q EXCEPT !.ok = FALSE] \in ApplyStates BY DEF ApplyStates
    <3> QED BY <3>2, <3>3, <3>4 DEF ApplyOne
  <2> QED BY <2>1, <2>2
<1> DEFINE Step == [id \in ids |-> [q \in D |-> F(q, id)]]
           n == Cardinality(ids)
           Is(iter) == iter = [s \in SUBSET DOMAIN order |->
                                 IF s = {} THEN start ELSE F(iter[s \ {Max(s)}], order[Max(s)])]
           it == CHOOSE iter : Is(iter)
<1>2. Applied(order, force) = it[DOMAIN order] BY DEF Applied, FoldLeft, MapThenFoldSet
<1>3. n \in Nat /\ order \in [1..n -> ids] /\ DOMAIN order = 1..n
  <2>1. ids \subseteq Ids BY DEF TrackInv, RecMaps
  <2>2. n \in Nat BY <2>1, FinitelyManyFiles, FS_Subset, FS_CardinalityType
  <2>3. order \in [1..n -> ids] BY DEF SetToSeqs
  <2> HIDE DEF n
  <2> QED BY <2>2, <2>3
<1> HIDE DEF D, F, start, n
<1>4. Step \in [ids -> [D -> D]] BY <1>1
<1>5. PICK iter : IsFoldLeft(iter, n, order, D, start, Step)
  <2> HIDE DEF Step
  <2> QED BY <1>1, <1>3, <1>4, FoldLeftExists
<1>6. ASSUME NEW s \in SUBSET (1..n)
       PROVE  /\ s # {} => Max(s) \in s /\ order[Max(s)] \in ids /\ s \ {Max(s)} \in SUBSET (1..n)
              /\ iter[s] = IF s = {} THEN start ELSE F(iter[s \ {Max(s)}], order[Max(s)])
  <2>1. s # {} => Max(s) \in s /\ order[Max(s)] \in ids /\ s \ {Max(s)} \in SUBSET (1..n) BY <1>3, MaxIsIn
  <2>2. iter[s] = IF s = {} THEN start ELSE Step[order[Max(s)]][iter[s \ {Max(s)}]]
    <3> HIDE DEF Step
    <3> QED BY <1>5 DEF IsFoldLeft
  <2>3. s # {} => iter[s \ {Max(s)}] \in D BY <1>5, <2>1 DEF IsFoldLeft
  <2> QED BY <2>1, <2>2, <2>3
<1>7. Is(it)
  <2>1. Is(iter) BY <1>3, <1>5, <1>6 DEF IsFoldLeft
  <2> HIDE DEF Is
  <2> QED BY <2>1
<1> HIDE DEF it
<1>8. \A s \in SUBSET (1..n) : it[s] = IF s = {} THEN start ELSE F(it[s \ {Max(s)}], order[Max(s)])
  BY <1>3, <1>7
<1>9. it[{}] \in D BY <1>1, <1>8
<1>10. ASSUME NEW s \in (SUBSET (1..n)) \ {{}}, it[s \ {Max(s)}] \in D PROVE it[s] \in D
  <2>1. order[Max(s)] \in ids BY <1>6
  <2>2. it[s] = F(it[s \ {Max(s)}], order[Max(s)]) BY <1>8
  <2> QED BY <1>1, <1>10, <2>1, <2>2
<1>11. it[1..n] \in D BY <1>3, <1>9, <1>10, FoldLeftKeeps
<1> QED BY <1>2, <1>3, <1>11 DEF D

\* undo: the branches stay, or more come.
UndoStates ==
  {r \in [disk : Disks, recs : UNION {[I -> Records] : I \in SUBSET Ids}, refs : Repos] :
     /\ \A id \in DOMAIN r.recs : RecordFits(id, r.recs[id], DOMAIN r.refs)
     /\ DOMAIN r.recs = DOMAIN recs
     /\ \A b \in DOMAIN r.refs : r.refs[b] \in commits}

\* undo starts from the state there is.
LEMMA UndoStarts == ASSUME TrackInv PROVE [disk |-> disk, recs |-> recs, refs |-> refs] \in UndoStates
BY DEF TrackInv, RecMaps, RepoInv, UndoStates, Disks

\* One file restored.
LEMMA RestoreKeeps ==
  ASSUME NEW r \in UndoStates, NEW id \in DOMAIN recs, NEW blob \in Contents \cup {Gone}
  PROVE  Restore(r, id, blob) \in UndoStates
<1> DEFINE dest == <<Here, PathOf(id)>>
           d2   == [r.disk EXCEPT ![dest] = blob]
           rs2  == [i \in DOMAIN r.recs |-> IF i = dest THEN [r.recs[i] EXCEPT !.hash = blob] ELSE r.recs[i]]
<1>1. CASE blob = Gone BY <1>1 DEF Restore
<1>2. CASE blob # Gone
  <2>1. /\ r.disk \in Disks /\ r.refs \in Repos /\ DOMAIN r.recs \subseteq Ids
        /\ \A i \in DOMAIN r.recs : RecordFits(i, r.recs[i], DOMAIN r.refs)
        /\ r = [disk |-> r.disk, recs |-> r.recs, refs |-> r.refs]
        /\ DOMAIN r.recs = DOMAIN recs /\ \A b \in DOMAIN r.refs : r.refs[b] \in commits
    BY DEF UndoStates
  <2>2. Restore(r, id, blob) = [disk |-> d2, recs |-> rs2, refs |-> r.refs]
    <3>1. Restore(r, id, blob) = [r EXCEPT !.disk = d2, !.recs = rs2] BY <1>2 DEF Restore
    <3> HIDE DEF d2, rs2
    <3> QED BY <2>1, <3>1
  <2>3. d2 \in Disks BY <2>1 DEF Disks
  <2>4. ASSUME NEW i \in DOMAIN r.recs PROVE RecordFits(i, rs2[i], DOMAIN r.refs)
    <3>1. RecordFits(i, r.recs[i], DOMAIN r.refs) BY <2>1
    <3>2. rs2[i] \in Records /\ rs2[i].branch = r.recs[i].branch /\ rs2[i].group = r.recs[i].group
            /\ rs2[i].mode = r.recs[i].mode
      BY <1>2, <3>1 DEF RecordFits, Records
    <3> HIDE DEF rs2
    <3> QED BY <3>1, <3>2 DEF RecordFits
  <2>5. DOMAIN rs2 = DOMAIN r.recs OBVIOUS
  <2>6. rs2 \in [DOMAIN r.recs -> Records] BY <2>4 DEF RecordFits
  <2> HIDE DEF rs2, d2
  <2>7. rs2 \in UNION {[I -> Records] : I \in SUBSET Ids} BY <2>1, <2>6
  <2> QED BY <2>1, <2>2, <2>3, <2>4, <2>5, <2>7 DEF UndoStates
<1> QED BY <1>1, <1>2

\* What undo reads is a branch name.
LEMMA UndoBranches == ASSUME TrackInv, NEW id \in DOMAIN recs PROVE UndoBranch(id) \in Branches
<1>1. id \in Ids /\ recs[id] \in Records BY DEF TrackInv, RecMaps, RecordFits
<1>2. HostOf(id) \in {Here} \cup Servers /\ PathOf(id) \in Paths BY <1>1 DEF Ids, Hosts, HostOf, PathOf
<1>3. CASE recs[id].branch # None BY <1>1, <1>3 DEF UndoBranch, Records
<1>4. CASE recs[id].branch = None
  <2>1. (IF HostOf(id) = Here THEN PathOf(id) ELSE <<HostOf(id)>> \o PathOf(id)) \in Seq(Names)
    <3>1. CASE HostOf(id) = Here BY <1>2, <3>1, NameSequences
    <3>2. CASE HostOf(id) # Here BY <1>2, <3>2, NameSequences
    <3> QED BY <3>1, <3>2
  <2> QED BY <1>4, <2>1, BranchNames DEF UndoBranch
<1> QED BY <1>3, <1>4

\* One branch set back, and its file restored.
LEMMA RewindOneKeeps ==
  ASSUME TrackInv, NEW r \in UndoStates, NEW id \in DOMAIN recs, NEW tree \in commits
  PROVE  RewindOne(r, id, tree) \in UndoStates
<1> DEFINE b  == UndoBranch(id)
           r2 == SetBranch(r.refs, b, tree)
           q  == [r EXCEPT !.refs = r2]
           blob == IF id \in DOMAIN tree THEN tree[id] ELSE Gone
<1>1. CASE \E c \in DOMAIN r.refs : Clash(b, c) BY <1>1 DEF RewindOne
<1>2. CASE \A c \in DOMAIN r.refs : ~Clash(b, c)
  <2>1. RewindOne(r, id, tree) = Restore(q, id, blob) BY <1>2 DEF RewindOne, SetBranch
  <2>2. commits \in SUBSET Trees BY DEF TrackInv, RepoInv
  <2>3. tree \in Trees BY <2>2
  <2>4. blob \in Contents \cup {Gone} BY <2>3 DEF Trees
  <2>5. /\ r.disk \in Disks /\ r.refs \in Repos /\ DOMAIN r.recs \subseteq Ids
        /\ r.recs \in UNION {[I -> Records] : I \in SUBSET Ids}
        /\ \A i \in DOMAIN r.recs : RecordFits(i, r.recs[i], DOMAIN r.refs)
        /\ DOMAIN r.recs = DOMAIN recs /\ \A c \in DOMAIN r.refs : r.refs[c] \in commits
    BY DEF UndoStates
  <2>6. RepoInv(r.refs, commits) BY <2>2, <2>5 DEF RepoInv
  <2>7. b \in Branches BY UndoBranches
  <2> HIDE DEF b
  <2>8. /\ RepoInv(r2, commits \cup {tree}) /\ DOMAIN r2 = {b} \cup DOMAIN r.refs
    BY <1>2, <2>2, <2>3, <2>5, <2>6, <2>7, CommitKeeps
  <2> HIDE DEF r2
  <2>9. commits \cup {tree} = commits OBVIOUS
  <2>10. r2 \in Repos /\ \A c \in DOMAIN r2 : r2[c] \in commits BY <2>8, <2>9 DEF RepoInv
  <2>11. DOMAIN r.refs \subseteq DOMAIN r2 BY <2>8
  <2>12. \A i \in DOMAIN r.recs : RecordFits(i, r.recs[i], DOMAIN r2)
    BY <2>5, <2>11, ReachesGrows DEF RecordFits
  <2>13. q \in [disk : Disks, recs : UNION {[I -> Records] : I \in SUBSET Ids}, refs : Repos]
         /\ q.recs = r.recs /\ q.refs = r2
    BY <2>10 DEF UndoStates
  <2> HIDE DEF q
  <2>14. q \in UndoStates BY <2>5, <2>10, <2>12, <2>13 DEF UndoStates
  <2> HIDE DEF blob
  <2> QED BY <2>1, <2>4, <2>14, RestoreKeeps
<1> QED BY <1>1, <1>2

\* undo in any order.
LEMMA UndoKeepsAll ==
  ASSUME TrackInv, NEW ids \in SUBSET DOMAIN recs, NEW order \in SetToSeqs(ids)
  PROVE  FoldLeft(LAMBDA r, id : Restore(r, id, Show(refs, UndoBranch(id), id)),
                  [disk |-> disk, recs |-> recs, refs |-> refs], order) \in UndoStates
<1> DEFINE D == UndoStates
           start == [disk |-> disk, recs |-> recs, refs |-> refs]
           F(q, id) == Restore(q, id, Show(refs, UndoBranch(id), id))
<1>1. start \in D /\ \A id \in ids, q \in D : F(q, id) \in D
  <2>1. refs \in Repos BY DEF TrackInv, RepoInv
  <2>2. \A id \in ids : Show(refs, UndoBranch(id), id) \in Contents \cup {Gone} BY <2>1, ShowIsContent
  <2> QED BY <2>2, UndoStarts, RestoreKeeps
<1> DEFINE Step == [id \in ids |-> [q \in D |-> F(q, id)]]
           n == Cardinality(ids)
           Is(iter) == iter = [s \in SUBSET DOMAIN order |->
                                 IF s = {} THEN start ELSE F(iter[s \ {Max(s)}], order[Max(s)])]
           it == CHOOSE iter : Is(iter)
<1>2. FoldLeft(LAMBDA r, id : Restore(r, id, Show(refs, UndoBranch(id), id)), start, order) = it[DOMAIN order]
  BY DEF FoldLeft, MapThenFoldSet
<1>3. n \in Nat /\ order \in [1..n -> ids] /\ DOMAIN order = 1..n
  <2>1. ids \subseteq Ids BY DEF TrackInv, RecMaps
  <2>2. n \in Nat BY <2>1, FinitelyManyFiles, FS_Subset, FS_CardinalityType
  <2>3. order \in [1..n -> ids] BY DEF SetToSeqs
  <2> HIDE DEF n
  <2> QED BY <2>2, <2>3
<1> HIDE DEF D, F, start, n
<1>4. Step \in [ids -> [D -> D]] BY <1>1
<1>5. PICK iter : IsFoldLeft(iter, n, order, D, start, Step)
  <2> HIDE DEF Step
  <2> QED BY <1>1, <1>3, <1>4, FoldLeftExists
<1>6. ASSUME NEW s \in SUBSET (1..n)
       PROVE  /\ s # {} => Max(s) \in s /\ order[Max(s)] \in ids /\ s \ {Max(s)} \in SUBSET (1..n)
              /\ iter[s] = IF s = {} THEN start ELSE F(iter[s \ {Max(s)}], order[Max(s)])
  <2>1. s # {} => Max(s) \in s /\ order[Max(s)] \in ids /\ s \ {Max(s)} \in SUBSET (1..n) BY <1>3, MaxIsIn
  <2>2. iter[s] = IF s = {} THEN start ELSE Step[order[Max(s)]][iter[s \ {Max(s)}]]
    <3> HIDE DEF Step
    <3> QED BY <1>5 DEF IsFoldLeft
  <2>3. s # {} => iter[s \ {Max(s)}] \in D BY <1>5, <2>1 DEF IsFoldLeft
  <2> QED BY <2>1, <2>2, <2>3
<1>7. Is(it)
  <2>1. Is(iter) BY <1>3, <1>5, <1>6 DEF IsFoldLeft
  <2> HIDE DEF Is
  <2> QED BY <2>1
<1> HIDE DEF it
<1>8. \A s \in SUBSET (1..n) : it[s] = IF s = {} THEN start ELSE F(it[s \ {Max(s)}], order[Max(s)])
  BY <1>3, <1>7
<1>9. it[{}] \in D BY <1>1, <1>8
<1>10. ASSUME NEW s \in (SUBSET (1..n)) \ {{}}, it[s \ {Max(s)}] \in D PROVE it[s] \in D
  <2>1. order[Max(s)] \in ids BY <1>6
  <2>2. it[s] = F(it[s \ {Max(s)}], order[Max(s)]) BY <1>8
  <2> QED BY <1>1, <1>10, <2>1, <2>2
<1>11. it[1..n] \in D BY <1>3, <1>9, <1>10, FoldLeftKeeps
<1> QED BY Zenon, <1>2, <1>3, <1>11 DEF D, start

\* undo to a commit in any order.
LEMMA RewindKeepsAll ==
  ASSUME TrackInv, NEW ids \in SUBSET DOMAIN recs, NEW order \in SetToSeqs(ids), NEW tree \in commits
  PROVE  FoldLeft(LAMBDA r, id : RewindOne(r, id, tree),
                  [disk |-> disk, recs |-> recs, refs |-> refs], order) \in UndoStates
<1> DEFINE D == UndoStates
           start == [disk |-> disk, recs |-> recs, refs |-> refs]
           F(q, id) == RewindOne(q, id, tree)
<1>1. start \in D /\ \A id \in ids, q \in D : F(q, id) \in D BY UndoStarts, RewindOneKeeps
<1> DEFINE Step == [id \in ids |-> [q \in D |-> F(q, id)]]
           n == Cardinality(ids)
           Is(iter) == iter = [s \in SUBSET DOMAIN order |->
                                 IF s = {} THEN start ELSE F(iter[s \ {Max(s)}], order[Max(s)])]
           it == CHOOSE iter : Is(iter)
<1>2. FoldLeft(LAMBDA r, id : RewindOne(r, id, tree), start, order) = it[DOMAIN order]
  BY DEF FoldLeft, MapThenFoldSet
<1>3. n \in Nat /\ order \in [1..n -> ids] /\ DOMAIN order = 1..n
  <2>1. ids \subseteq Ids BY DEF TrackInv, RecMaps
  <2>2. n \in Nat BY <2>1, FinitelyManyFiles, FS_Subset, FS_CardinalityType
  <2>3. order \in [1..n -> ids] BY DEF SetToSeqs
  <2> HIDE DEF n
  <2> QED BY <2>2, <2>3
<1> HIDE DEF D, F, start, n
<1>4. Step \in [ids -> [D -> D]] BY <1>1
<1>5. PICK iter : IsFoldLeft(iter, n, order, D, start, Step)
  <2> HIDE DEF Step
  <2> QED BY <1>1, <1>3, <1>4, FoldLeftExists
<1>6. ASSUME NEW s \in SUBSET (1..n)
       PROVE  /\ s # {} => Max(s) \in s /\ order[Max(s)] \in ids /\ s \ {Max(s)} \in SUBSET (1..n)
              /\ iter[s] = IF s = {} THEN start ELSE F(iter[s \ {Max(s)}], order[Max(s)])
  <2>1. s # {} => Max(s) \in s /\ order[Max(s)] \in ids /\ s \ {Max(s)} \in SUBSET (1..n) BY <1>3, MaxIsIn
  <2>2. iter[s] = IF s = {} THEN start ELSE Step[order[Max(s)]][iter[s \ {Max(s)}]]
    <3> HIDE DEF Step
    <3> QED BY <1>5 DEF IsFoldLeft
  <2>3. s # {} => iter[s \ {Max(s)}] \in D BY <1>5, <2>1 DEF IsFoldLeft
  <2> QED BY <2>1, <2>2, <2>3
<1>7. Is(it)
  <2>1. Is(iter) BY <1>3, <1>5, <1>6 DEF IsFoldLeft
  <2> HIDE DEF Is
  <2> QED BY <2>1
<1> HIDE DEF it
<1>8. \A s \in SUBSET (1..n) : it[s] = IF s = {} THEN start ELSE F(it[s \ {Max(s)}], order[Max(s)])
  BY <1>3, <1>7
<1>9. it[{}] \in D BY <1>1, <1>8
<1>10. ASSUME NEW s \in (SUBSET (1..n)) \ {{}}, it[s \ {Max(s)}] \in D PROVE it[s] \in D
  <2>1. order[Max(s)] \in ids BY <1>6
  <2>2. it[s] = F(it[s \ {Max(s)}], order[Max(s)]) BY <1>8
  <2> QED BY <1>1, <1>10, <2>1, <2>2
<1>11. it[1..n] \in D BY <1>3, <1>9, <1>10, FoldLeftKeeps
<1> QED BY Zenon, <1>2, <1>3, <1>11 DEF D, start

\* apply.
LEMMA ApplyCommandKeeps ==
  ASSUME TrackInv, NEW ids \in SUBSET DOMAIN recs, NEW force, ApplyCmd(ids, force)
  PROVE  TrackInv'
<1> DEFINE dest(order, id) == Applied(order, force).disk[<<Here, PathOf(id)>>]
           new(order) == [id \in DOMAIN recs |->
                            IF id \in ids /\ dest(order, id) # Gone
                            THEN [recs[id] EXCEPT !.hash = dest(order, id)] ELSE recs[id]]
<1>1. PICK order \in SetToSeqs(ids) :
        /\ disk' = Applied(order, force).disk
        /\ recs' = IF Applied(order, force).ok THEN new(order) ELSE recs
  BY Zenon DEF ApplyCmd, Applied
<1> DEFINE r == Applied(order, force)
<1>2. disk' = r.disk /\ recs' = IF r.ok THEN new(order) ELSE recs BY <1>1
<1>3. r \in ApplyStates BY ApplyKeepsDisk
<1>4. UNCHANGED <<excludes, refs, commits, manifest, edits>> BY Zenon DEF ApplyCmd, repo
<1>5. DOMAIN recs \subseteq Ids /\ \A id \in DOMAIN recs : RecordFits(id, recs[id], DOMAIN refs)
  BY DEF TrackInv, RecMaps
<1> HIDE DEF r
<1>6. disk' \in Disks BY <1>2, <1>3 DEF ApplyStates
<1>7. ASSUME NEW id \in DOMAIN recs PROVE RecordFits(id, new(order)[id], DOMAIN refs)
  <2>1. <<Here, PathOf(id)>> \in Ids BY <1>5 DEF Ids, Hosts, PathOf
  <2>2. dest(order, id) \in Contents \cup {Gone} BY <1>3, <2>1 DEF ApplyStates, Disks, r
  <2>3. RecordFits(id, recs[id], DOMAIN refs) BY <1>5
  <2>4. new(order)[id] \in Records /\ new(order)[id].branch = recs[id].branch /\ new(order)[id].group = recs[id].group
          /\ new(order)[id].mode = recs[id].mode
    BY <2>2, <2>3 DEF RecordFits, Records
  <2> HIDE DEF new
  <2> QED BY <2>3, <2>4 DEF RecordFits
<1>8. new(order) \in [DOMAIN recs -> Records] BY <1>7 DEF RecordFits
<1>9. DOMAIN new(order) = DOMAIN recs OBVIOUS
<1> HIDE DEF new
<1>10. new(order) \in RecMaps(DOMAIN refs) BY <1>5, <1>7, <1>8, <1>9 DEF RecMaps
<1>11. recs' \in RecMaps(DOMAIN refs) /\ DOMAIN recs' = DOMAIN recs BY <1>2, <1>9, <1>10 DEF TrackInv
<1> QED BY <1>4, <1>6, <1>11 DEF TrackInv, RepoInv, Disks

\* What undo leaves.
LEMMA UndoneKeeps ==
  ASSUME TrackInv, NEW r \in UndoStates, Undone(r) PROVE TrackInv'
<1>1. /\ disk' = r.disk /\ recs' = r.recs /\ refs' = r.refs
      /\ UNCHANGED <<excludes, commits, manifest, edits>>
  BY DEF Undone
<1>2. /\ r.disk \in Disks /\ r.refs \in Repos /\ r.recs \in UNION {[I -> Records] : I \in SUBSET Ids}
      /\ \A id \in DOMAIN r.recs : RecordFits(id, r.recs[id], DOMAIN r.refs)
      /\ DOMAIN r.recs = DOMAIN recs /\ \A b \in DOMAIN r.refs : r.refs[b] \in commits
  BY DEF UndoStates
<1>3. recs' \in RecMaps(DOMAIN refs') BY <1>1, <1>2 DEF RecMaps
<1>4. RepoInv(refs', commits') BY <1>1, <1>2 DEF TrackInv, RepoInv
<1> QED BY <1>1, <1>2, <1>3, <1>4 DEF TrackInv, Disks, RepoInv

\* undo of files, and to a commit.
LEMMA UndoCommandsKeep ==
  ASSUME TrackInv, NEW ids \in SUBSET DOMAIN recs, UndoCmd(ids) \/ \E tree \in commits : RewindCmd(tree, ids)
  PROVE  TrackInv'
<1>1. ASSUME UndoCmd(ids) PROVE TrackInv'
  <2>1. PICK order \in SetToSeqs(ids) :
          Undone(FoldLeft(LAMBDA r, id : Restore(r, id, Show(refs, UndoBranch(id), id)),
                          [disk |-> disk, recs |-> recs, refs |-> refs], order))
    BY Zenon, <1>1 DEF UndoCmd
  <2> QED BY Zenon, <2>1, UndoKeepsAll, UndoneKeeps
<1>2. ASSUME NEW tree \in commits, RewindCmd(tree, ids) PROVE TrackInv'
  <2>1. PICK order \in SetToSeqs(ids) :
          Undone(FoldLeft(LAMBDA r, id : RewindOne(r, id, tree),
                          [disk |-> disk, recs |-> recs, refs |-> refs], order))
    BY Zenon, <1>2 DEF RewindCmd
  <2> QED BY Zenon, <2>1, RewindKeepsAll, UndoneKeeps
<1> QED BY <1>1, <1>2

\* deploy --host, of records and of a profile.
LEMMA DeployKeeps ==
  ASSUME TrackInv, NEW host \in Servers,
         \/ \E ids \in SUBSET DOMAIN recs : RemoteDeploy(host, ids)
         \/ \E paths \in SUBSET Paths : DeployFrom(host, paths)
  PROVE  TrackInv'
<1>1. ASSUME NEW ids \in SUBSET DOMAIN recs, RemoteDeploy(host, ids) PROVE TrackInv'
  <2>1. PICK order \in SetToSeqs(ids) :
          disk' = FoldLeft(LAMBDA d, id : DeployOne(d, id, host), disk, order)
    BY Zenon, <1>1 DEF RemoteDeploy
  <2>2. host \in Hosts BY DEF Hosts
  <2>3. disk' \in Disks BY Zenon, <2>1, <2>2, DeployKeepsDisk
  <2>4. UNCHANGED <<recs, excludes, refs, commits, manifest, edits>>
    BY Zenon, <1>1 DEF RemoteDeploy, OnlyDisk, state, repo
  <2> QED BY <2>3, <2>4 DEF TrackInv, Disks
<1>2. ASSUME NEW paths \in SUBSET Paths, DeployFrom(host, paths) PROVE TrackInv'
  BY <1>2, WriteKeeps DEF DeployFrom, RemoteDeployRendered, RenderProfileFromRepo
<1> QED BY <1>1, <1>2

\* The targets of undo are records.
LEMMA TargetsAreRecords == Targets \subseteq SUBSET DOMAIN recs
BY DEF Targets

\* The invariant holds at first.
LEMMA TrackInvInit == Init => TrackInv
<1> SUFFICES ASSUME Init PROVE TrackInv OBVIOUS
<1>1. 0 \in 0..MaxEdits /\ Raw(0) \in Contents BY RawIsContent
<1>2. disk \in [Ids -> Contents \cup {Gone}] BY <1>1 DEF Init
<1>3. ASSUME NEW S, NEW e, e = <<>> PROVE e \in UNION {[I -> S] : I \in SUBSET Ids} /\ DOMAIN e = {}
  <2>1. e \in [{} -> S] BY <1>3
  <2>2. {} \in SUBSET Ids OBVIOUS
  <2> QED BY <2>1, <2>2
<1>4. recs \in RecMaps(DOMAIN refs) BY <1>3 DEF Init, RecMaps
<1>5. refs \in Repos
  <2>1. refs = <<>> BY DEF Init
  <2>2. DOMAIN refs = {} /\ refs \in [{} -> Trees] BY <2>1
  <2>3. {} \in SUBSET Branches OBVIOUS
  <2> QED BY <2>2, <2>3, FS_EmptySet DEF Repos
<1>6. RepoInv(refs, commits) BY <1>5 DEF Init, RepoInv
<1> QED BY <1>1, <1>2, <1>4, <1>6 DEF Init, TrackInv

\* Every command keeps the invariant, and gives new records branches in the way of none.
LEMMA TrackStep == TrackInv /\ [Next]_vars => TrackInv'
<1> SUFFICES ASSUME TrackInv, [Next]_vars PROVE TrackInv' OBVIOUS
<1>1. CASE UNCHANGED vars BY <1>1 DEF vars, state, repo, TrackInv, RepoInv
<1>2. ASSUME NEW id \in Ids, Edit(id) \/ Delete(id) PROVE TrackInv'
  BY <1>2, WriteKeeps DEF Edit, Delete
<1>3. ASSUME NEW ids \in Targets, UndoCmd(ids) \/ \E tree \in commits : RewindCmd(tree, ids)
      PROVE  TrackInv'
  BY <1>3, TargetsAreRecords, UndoCommandsKeep
<1>4. CASE Command
  BY <1>2, <1>3, <1>4, SyncCommandsKeep, TrackCommandsKeep, UntrackKeeps, ApplyCommandKeeps, DeployKeeps
     DEF Command
<1> QED BY <1>1, <1>4 DEF Next

\* The invariant holds always.
LEMMA TrackInvHolds == Spec => []TrackInv
BY TrackInvInit, TrackStep, PTL DEF Spec

-----------------------------------------------------------------------------
(* What follows.                                                           *)

\* Records, branches and contents are of their types, and no two branches are
\* ever in each other's way (track, sync, undo and untrack in any order).
THEOREM TypeCorrect == Spec => []TypeOK
<1>1. TrackInv => TypeOK
  <2> SUFFICES ASSUME TrackInv PROVE TypeOK OBVIOUS
  <2>1. DOMAIN recs \subseteq Ids /\ \A id \in DOMAIN recs : RecordFits(id, recs[id], DOMAIN refs)
    BY DEF TrackInv, RecMaps
  <2>2. \A id \in DOMAIN recs : recs[id] \in Records /\ (recs[id].branch = None <=> recs[id].mode = "hash")
    BY <2>1 DEF RecordFits
  <2>3. \A b, c \in DOMAIN refs : ~Clash(b, c) BY DEF TrackInv, RepoInv, Repos
  <2>4. \A t \in commits : DOMAIN t \subseteq Ids /\ \A id \in DOMAIN t : t[id] \in Contents
    BY DEF TrackInv, RepoInv, Trees, Storable
  <2>5. \A b \in DOMAIN refs : refs[b] \in commits BY DEF TrackInv, RepoInv
  <2> QED BY <2>1, <2>2, <2>3, <2>4, <2>5 DEF TypeOK, TrackInv, Records
<1> QED BY <1>1, TrackInvHolds, PTL

\* Content of a path on the denylist gets into no commit through the records
\* that track and the walk of Sync make, the only ones there are here (not of
\* those seeded from a manifest or made by source render): the records of such
\* paths are hash-only, which Sync leaves out (sync.go, track.go).
THEOREM TrackedDeniedStaysOut == Spec => []TrackKeepsDeniedOut
<1>1. TrackInv => TrackKeepsDeniedOut BY DEF TrackInv, RepoInv, Trees, Storable, TrackKeepsDeniedOut
<1> QED BY <1>1, TrackInvHolds, PTL

\* Two records of one tracked directory whose branches are both in the
\* repository have the same branch: their names were resolved from the same
\* name, and among branches next to each other resolveTrackBranch leads to one
\* at most, however many there were at the time.
THEOREM GroupsShareBranch == Spec => []GroupsStayTogether
<1>1. TrackInv => GroupsStayTogether
  <2> SUFFICES ASSUME TrackInv, NEW i \in DOMAIN recs, NEW j \in DOMAIN recs,
                      recs[i].group # None, GroupKey(i, recs[i]) = GroupKey(j, recs[j]),
                      {recs[i].mode, recs[j].mode} \cap {"local", "hash"} = {},
                      {recs[i].branch, recs[j].branch} \subseteq DOMAIN refs
               PROVE  recs[i].branch = recs[j].branch
    BY DEF GroupsStayTogether
  <2>1. /\ i \in Ids /\ RecordFits(i, recs[i], DOMAIN refs)
        /\ j \in Ids /\ RecordFits(j, recs[j], DOMAIN refs)
    BY DEF TrackInv, RecMaps
  <2>2. recs[i].group \in Dirs /\ recs[i].mode \in Modes /\ recs[j].mode \in Modes
    BY <2>1 DEF RecordFits, Records
  <2>3. recs[j].group = recs[i].group /\ HostOf(j) = HostOf(i)
    <3>1. CASE recs[j].group = None
      <4>1. j = <<HostOf(i), recs[i].group>> BY <3>1 DEF GroupKey
      <4>2. recs[i].group \in Paths BY <2>1, <4>1 DEF Ids
      <4> QED BY <2>2, <4>2
    <3>2. CASE recs[j].group # None BY <3>2 DEF GroupKey
    <3> QED BY <3>1, <3>2
  <2> DEFINE base == BaseName(i, recs[i].group, recs[i].mode)
  <2>4. BaseName(j, recs[j].group, recs[j].mode) = base BY <2>2, <2>3 DEF BaseName
  <2>5. base \in Branches BY <2>1, <2>2, BaseNames
  <2> HIDE DEF base
  <2>6. Reaches(DOMAIN refs, base, recs[i].branch) /\ Reaches(DOMAIN refs, base, recs[j].branch)
    BY <2>1, <2>4 DEF RecordFits, base
  <2>7. DOMAIN refs \in SUBSET Branches /\ \A r, q \in DOMAIN refs : ~Clash(r, q)
    BY DEF TrackInv, RepoInv, Repos
  <2> QED BY <2>5, <2>6, <2>7, ReachesOne
<1> QED BY <1>1, TrackInvHolds, PTL
=============================================================================
