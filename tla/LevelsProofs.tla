---------------------------- MODULE LevelsProofs ----------------------------
(***************************************************************************)
(* The levels of leveldb, for any keys, any number of levels, writes and   *)
(* snapshots: types hold in every behaviour; the order of the levels, and  *)
(* with it what Get and an iterator find, in those without a manual        *)
(* compaction in which no two output files share a key.                    *)
(*                                                                         *)
(* The invariant speaks of entries: two files are apart if every key of    *)
(* one is less than every key of the other.                                *)
(***************************************************************************)
EXTENDS Levels, TLAPS, FiniteSetTheorems, NaturalsInduction, WellFoundedInduction

USE LevelsAssumption

Entry == 1..last
HistOK == hist \in Seq([key : Key, del : BOOLEAN])

\* Some file: a set of entries that is not empty.
File == (SUBSET Entry) \ {{}}

Left(f, g) == \A a \in f, b \in g : KeyOf(a) < KeyOf(b)
Apart(f, g) == Left(f, g) \/ Left(g, f)
Older(f, g) == \A a \in f, b \in g : a < b
\* x lies in the range of f.
Reaches(f, x) == \E a, b \in f : KeyOf(a) <= x /\ x <= KeyOf(b)
\* The files leave no gap between their smallest and their largest key.
Covered(S) ==
  \A a, b \in UNION S : \A x \in Key :
    KeyOf(a) <= x /\ x <= KeyOf(b) => \E f \in S : Reaches(f, x)

-----------------------------------------------------------------------------
(* Least and greatest.                                                     *)

\* A set of natural numbers that is not empty has a least.
LEMMA LeastNat ==
  ASSUME NEW S \in SUBSET Nat, S # {}
  PROVE  \E n \in S : \A m \in S : n <= m
<1>1. PICK n \in S : \A m \in S : <<m, n>> \notin OpToRel(<, Nat)
  BY NatLessThanWellFounded, WFMin
<1>2. \A m \in S : ~(m < n)
  BY <1>1 DEF OpToRel
<1> QED
  BY <1>2

\* A finite set of numbers has a greatest.
LEMMA FiniteHasGreatest ==
  ASSUME NEW S \in SUBSET Nat, IsFiniteSet(S), S # {}
  PROVE  \E x \in S : \A y \in S : x >= y
<1> DEFINE Above(x) == {y \in S : x < y}
           Aboves == {Above(x) : x \in S}
<1>1. Aboves \subseteq FiniteSubsetsOf(S) /\ Aboves # {}
  <2>1. FiniteSubsetsOf(S) = SUBSET S
    BY FS_FiniteSubsetsOfFinite
  <2>2. Aboves \subseteq SUBSET S
    OBVIOUS
  <2>3. PICK x \in S : TRUE
    OBVIOUS
  <2>4. Above(x) \in Aboves
    OBVIOUS
  <2> QED
    BY <2>1, <2>2, <2>4
<1>2. PICK U \in Aboves : \A V \in Aboves : <<V, U>> \notin StrictSubsetOrdering(S)
  <2> HIDE DEF Aboves
  <2> QED
    BY <1>1, FS_StrictSubsetOrderingWellFounded, WFMin
<1>3. PICK x \in S : U = Above(x)
  BY <1>2
<1>4. ASSUME NEW y \in S, x < y PROVE FALSE
  <2>1. x \in Nat /\ y \in Nat
    OBVIOUS
  <2>2. Above(y) \subseteq Above(x)
    <3>1. ASSUME NEW z \in S, y < z PROVE x < z
      BY <1>4, <2>1, <3>1, z \in Nat
    <3> QED
      BY <3>1
  <2>3. y \in Above(x) /\ y \notin Above(y)
    BY <1>4, <2>1
  <2>4. <<Above(y), Above(x)>> \in StrictSubsetOrdering(S)
    BY <2>2, <2>3 DEF StrictSubsetOrdering
  <2> QED
    BY <1>2, <1>3, <2>4
<1> QED
  BY <1>4

\* Max chooses the greatest of a finite set.
LEMMA MaxFacts ==
  ASSUME NEW S \in SUBSET Nat, IsFiniteSet(S), S # {}
  PROVE  Max(S) \in S /\ \A y \in S : Max(S) >= y
BY FiniteHasGreatest DEF Max

\* The least of a set of integers that is bounded below.
LEMMA MinFacts ==
  ASSUME NEW S \in SUBSET Int, S # {}, \E n \in Int : \A y \in S : n <= y
  PROVE  Min(S) \in S /\ \A y \in S : Min(S) <= y
<1>1. PICK n \in Int : \A y \in S : n <= y
  OBVIOUS
<1>2. DEFINE T == {m \in Nat : m + n \in S}
<1>3. T # {}
  <2>1. PICK y \in S : TRUE
    OBVIOUS
  <2>2. y - n \in Nat /\ (y - n) + n = y
    BY <1>1, <2>1
  <2> QED
    BY <2>2
<1>4. PICK t \in T : \A m \in T : t <= m
  BY <1>3, LeastNat
<1>5. ASSUME NEW y \in S PROVE t + n <= y
  <2>1. y - n \in Nat /\ (y - n) + n = y
    BY <1>1
  <2>2. y - n \in T
    BY <2>1
  <2> QED
    BY <1>4, <2>1, <2>2
<1> QED
  BY <1>4, <1>5 DEF Min

\* The least of a set of natural numbers.
LEMMA MinNat ==
  ASSUME NEW S \in SUBSET Nat, S # {}
  PROVE  Min(S) \in S /\ \A y \in S : Min(S) <= y
BY LeastNat DEF Min

-----------------------------------------------------------------------------
(* Entries and files.                                                      *)

\* Entries are finitely many, and each has a key.
LEMMA Entries ==
  ASSUME HistOK
  PROVE  /\ last \in Nat /\ Entry \subseteq Nat /\ IsFiniteSet(Entry)
         /\ \A e \in Entry : hist[e] \in [key : Key, del : BOOLEAN]
         /\ \A e \in Entry : KeyOf(e) \in Key /\ KeyOf(e) \in Nat /\ e \in Nat
<1>1. last \in Nat
  BY DEF HistOK, last
<1>2. \A e \in Entry : hist[e] \in [key : Key, del : BOOLEAN]
  <2> DEFINE Rec == [key : Key, del : BOOLEAN]
  <2>1. hist \in Seq(Rec)
    BY DEF HistOK
  <2> HIDE DEF Rec
  <2>2. \A e \in 1..Len(hist) : hist[e] \in Rec
    BY <2>1
  <2> QED
    BY <2>2 DEF Entry, last, Rec
<1>3. ASSUME NEW e \in Entry PROVE KeyOf(e) \in Key /\ KeyOf(e) \in Nat /\ e \in Nat
  <2>1. hist[e] \in [key : Key, del : BOOLEAN]
    BY <1>2
  <2>2. hist[e].key \in Key
    BY <2>1
  <2>3. e \in Nat
    BY <1>1 DEF Entry
  <2> QED
    BY <2>2, <2>3 DEF KeyOf
<1>4. IsFiniteSet(Entry)
  BY <1>1, FS_Interval DEF Entry
<1> QED
  BY <1>1, <1>2, <1>3, <1>4 DEF Entry

\* The least and the greatest of a set of entries.
LEMMA EntryMax ==
  ASSUME HistOK, NEW f \in File
  PROVE  Max(f) \in f /\ \A e \in f : e <= Max(f)
<1>1. f \in SUBSET Nat /\ IsFiniteSet(f) /\ f # {}
  BY Entries, FS_Subset DEF File
<1>2. Max(f) \in f /\ \A e \in f : Max(f) >= e
  BY <1>1, MaxFacts
<1> QED
  BY <1>1, <1>2

\* The smallest and the largest key of a file are those of entries in it.
LEMMA KeyRange ==
  ASSUME HistOK, NEW f \in File
  PROVE  /\ FirstKey(f) \in Key /\ LastKey(f) \in Key
         /\ \E a \in f : KeyOf(a) = FirstKey(f)
         /\ \E b \in f : KeyOf(b) = LastKey(f)
         /\ \A e \in f : FirstKey(f) <= KeyOf(e) /\ KeyOf(e) <= LastKey(f)
<1> DEFINE K == KeysOf(f)
           k == [e \in f |-> KeyOf(e)]
<1>1. f \subseteq Entry /\ IsFiniteSet(f) /\ f # {}
  BY Entries, FS_Subset DEF File
<1>2. K \subseteq Key /\ K # {} /\ \A x \in K : \E e \in f : x = KeyOf(e)
  BY <1>1, Entries DEF KeysOf
<1>3. IsFiniteSet(K)
  <2>1. k \in Surjection(f, K)
    BY DEF Surjection, KeysOf
  <2> QED
    BY <1>1, <2>1, FS_Surjection
<1>4. K \in SUBSET Nat
  BY <1>2
<1>5. LastKey(f) \in K /\ \A x \in K : LastKey(f) >= x
  BY <1>2, <1>3, <1>4, MaxFacts DEF LastKey
<1>6. FirstKey(f) \in K /\ \A x \in K : FirstKey(f) <= x
  BY <1>2, <1>4, MinNat DEF FirstKey
<1>7. \A e \in f : KeyOf(e) \in K
  BY DEF KeysOf
<1> HIDE DEF K, k
<1>8. LastKey(f) \in Nat /\ FirstKey(f) \in Nat
  BY <1>4, <1>5, <1>6
<1>9. ASSUME NEW e \in f PROVE FirstKey(f) <= KeyOf(e) /\ KeyOf(e) <= LastKey(f)
  BY <1>4, <1>5, <1>6, <1>7, <1>8, <1>9
<1> QED
  BY <1>2, <1>5, <1>6, <1>9

\* A range of keys overlaps a file that has a key on either side.
LEMMA OverlapsFacts ==
  ASSUME HistOK, NEW f \in File, NEW lo \in Nat, NEW hi \in Nat
  PROVE  Overlaps(f, lo, hi) <=> \E a, b \in f : KeyOf(a) <= hi /\ KeyOf(b) >= lo
<1>1. PICK a \in f : KeyOf(a) = FirstKey(f)
  BY KeyRange
<1>2. PICK b \in f : KeyOf(b) = LastKey(f)
  BY KeyRange
<1>3. \A e \in f : KeyOf(e) \in Nat
  BY Entries DEF File
<1>4. \A e \in f : FirstKey(f) <= KeyOf(e) /\ KeyOf(e) <= LastKey(f)
  BY KeyRange
<1>5. FirstKey(f) \in Nat /\ LastKey(f) \in Nat
  BY KeyRange
<1>6. ASSUME NEW c \in f, NEW d \in f, KeyOf(c) <= hi, KeyOf(d) >= lo
      PROVE  FirstKey(f) <= hi /\ LastKey(f) >= lo
  BY <1>3, <1>4, <1>5, <1>6
<1> QED
  BY <1>1, <1>2, <1>6 DEF Overlaps

\* Files do not overlap if and only if they are apart.
LEMMA OverlapsApart ==
  ASSUME HistOK, NEW f \in File, NEW g \in File
  PROVE  ~Overlaps(f, FirstKey(g), LastKey(g)) <=> Apart(f, g)
<1>1. PICK a \in g : KeyOf(a) = FirstKey(g)
  BY KeyRange
<1>2. PICK b \in g : KeyOf(b) = LastKey(g)
  BY KeyRange
<1>3. \A e \in f \cup g : KeyOf(e) \in Nat
  BY Entries DEF File
<1>4. \A e \in g : FirstKey(g) <= KeyOf(e) /\ KeyOf(e) <= LastKey(g)
  BY KeyRange
<1>5. FirstKey(g) \in Nat /\ LastKey(g) \in Nat
  BY KeyRange
<1>6. Overlaps(f, FirstKey(g), LastKey(g)) <=>
        \E c, d \in f : KeyOf(c) <= LastKey(g) /\ KeyOf(d) >= FirstKey(g)
  BY <1>5, OverlapsFacts
<1>7. ASSUME Apart(f, g), NEW c \in f, NEW d \in f,
             KeyOf(c) <= LastKey(g), KeyOf(d) >= FirstKey(g)
      PROVE  FALSE
  <2>1. KeyOf(d) >= KeyOf(a) /\ KeyOf(c) <= KeyOf(b)
    BY <1>1, <1>2, <1>7
  <2> QED
    BY <1>3, <1>7, <2>1 DEF Apart, Left
<1>8. ASSUME ~Apart(f, g)
      PROVE  \E c, d \in f : KeyOf(c) <= LastKey(g) /\ KeyOf(d) >= FirstKey(g)
  <2>1. PICK d \in f, u \in g : ~(KeyOf(d) < KeyOf(u))
    BY <1>8 DEF Apart, Left
  <2>2. PICK v \in g, c \in f : ~(KeyOf(v) < KeyOf(c))
    BY <1>8 DEF Apart, Left
  <2>3. KeyOf(d) >= FirstKey(g)
    BY <1>3, <1>4, <1>5, <2>1
  <2>4. KeyOf(c) <= LastKey(g)
    BY <1>3, <1>4, <1>5, <2>2
  <2> QED
    BY <2>3, <2>4
<1> QED
  BY <1>6, <1>7, <1>8

-----------------------------------------------------------------------------
(* The invariant, in parts.                                                *)

Held == snapshots \cup {last}
Filed == UNION UNION {files[l] : l \in Level}

\* The memtables are newer than the files, and of two files of level 0 one is
\* newer than the other.
Ages ==
  /\ Older(imm, mem) /\ Older(Filed, mem) /\ Older(Filed, imm)
  /\ \A f, g \in files[0] : f = g \/ Older(f, g) \/ Older(g, f)

\* Files of a level below 0 are apart.
FilesApart == \A l \in Level \ {0} : \A f, g \in files[l] : f = g \/ Apart(f, g)

\* The numbers of the levels.
LEMMA LevelFacts ==
  /\ Level \subseteq Nat /\ 0 \in Level /\ NumLevels \in Nat /\ 0..MaxMemCompactLevel \subseteq Level
  /\ \A l \in 0..(NumLevels - 2) : l \in Level /\ l + 1 \in Level /\ l + 1 # 0 /\ l \in Nat
BY DEF Level

\* What a state of the right type has.
LEMMA TypeFacts ==
  ASSUME TypeOK
  PROVE  /\ HistOK /\ last \in Nat /\ mem \in SUBSET Entry /\ imm \in SUBSET Entry
         /\ \A l \in Level : files[l] \in SUBSET File /\ IsFiniteSet(files[l])
         /\ \A l \in Level : \A f \in files[l] : f \in File
         /\ \A l \in Level : UNION files[l] \in SUBSET Entry
         /\ Filed \in SUBSET Entry /\ Everything \in SUBSET Entry
         /\ Everything = mem \cup imm \cup Filed
         /\ Held \subseteq 0..last /\ Held \subseteq Nat
<1>1. HistOK
  BY DEF TypeOK, HistOK
<1>2. last \in Nat
  BY <1>1, Entries
<1>3. mem \in SUBSET Entry /\ imm \in SUBSET Entry
  BY DEF TypeOK, Entry
<1>4. ASSUME NEW l \in Level PROVE files[l] \in SUBSET File /\ IsFiniteSet(files[l])
  <2>1. files[l] \in SUBSET File
    BY <1>4 DEF TypeOK, File, Entry
  <2>2. IsFiniteSet(SUBSET Entry)
    BY <1>1, Entries, FS_SUBSET
  <2>3. files[l] \in SUBSET (SUBSET Entry)
    BY <2>1 DEF File
  <2> QED
    BY <2>1, <2>2, <2>3, FS_Subset
<1>5. \A l \in Level : UNION files[l] \in SUBSET Entry
  BY <1>4 DEF File
<1>6. Filed \in SUBSET Entry
  BY <1>4 DEF File, Filed
<1>7. Held \subseteq 0..last /\ Held \subseteq Nat
  <2>1. snapshots \subseteq 0..last
    BY DEF TypeOK
  <2> QED
    BY <1>2, <2>1 DEF Held
<1> QED
  BY <1>1, <1>2, <1>3, <1>4, <1>5, <1>6, <1>7 DEF Everything, Filed

-----------------------------------------------------------------------------
(* Reading                                                                 *)

Sees(e, k, s) == KeyOf(e) = k /\ e <= s

\* n is the newest entry of key k that snapshot s sees in es, None if none is.
IsNewest(n, es, k, s) ==
  IF n = None THEN \A d \in es : ~Sees(d, k, s)
  ELSE n \in es /\ Sees(n, k, s) /\ \A d \in es : Sees(d, k, s) => d <= n

\* Newest finds the newest.
LEMMA NewestIsNewest ==
  ASSUME HistOK, NEW es \in SUBSET Entry, NEW k, NEW s \in Nat
  PROVE  IsNewest(Newest(es, k, s), es, k, s)
<1> DEFINE seen == {e \in es : KeyOf(e) = k /\ e <= s}
<1>1. CASE seen = {}
  BY <1>1 DEF Newest, IsNewest, Sees
<1>2. CASE seen # {}
  <2>1. seen \in File
    BY <1>2 DEF File
  <2>2. Max(seen) \in seen /\ \A e \in seen : e <= Max(seen)
    BY <2>1, EntryMax
  <2>3. Newest(es, k, s) = Max(seen)
    BY <1>2 DEF Newest
  <2>4. Max(seen) # None
    BY <2>2, Entries DEF None, Entry
  <2> QED
    BY <2>2, <2>3, <2>4 DEF IsNewest, Sees
<1> QED
  BY <1>1, <1>2

\* There is only one newest entry.
LEMMA NewestUnique ==
  ASSUME HistOK, NEW es \in SUBSET Entry, NEW k, NEW s \in Nat, NEW m, NEW n,
         IsNewest(m, es, k, s), IsNewest(n, es, k, s)
  PROVE  m = n
<1>1. CASE m = None \/ n = None
  BY <1>1 DEF IsNewest
<1>2. CASE m # None /\ n # None
  <2>1. m \in es /\ n \in es /\ m <= n /\ n <= m
    BY <1>2 DEF IsNewest
  <2>2. m \in Nat /\ n \in Nat
    BY <2>1, Entries
  <2> QED
    BY <2>1, <2>2
<1> QED
  BY <1>1, <1>2

\* The newest in level 0 is that of the newest file that has one.
LEMMA Level0IsNewest ==
  ASSUME TypeOK, Ages, NEW k, NEW s \in Nat
  PROVE  IsNewest(InLevel0(k, s), UNION files[0], k, s)
<1> DEFINE hits == {f \in files[0] : Newest(f, k, s) # None}
<1>1. HistOK /\ files[0] \in SUBSET File /\ \A f \in files[0] : f \in File /\ f \in SUBSET Entry
  BY TypeFacts, LevelFacts DEF File
<1>2. \A f \in files[0] : IsNewest(Newest(f, k, s), f, k, s)
  BY <1>1, NewestIsNewest
<1>3. CASE hits = {}
  <2>1. InLevel0(k, s) = None
    BY <1>3 DEF InLevel0
  <2>2. \A f \in files[0] : \A d \in f : ~Sees(d, k, s)
    BY <1>2, <1>3 DEF IsNewest
  <2> QED
    BY <2>1, <2>2 DEF IsNewest
<1>4. CASE hits # {}
  <2> DEFINE f == NewestFirst(hits)
  <2>1. InLevel0(k, s) = Newest(f, k, s)
    BY <1>4 DEF InLevel0
  <2>2. \A g \in hits : Max(g) \in g /\ Max(g) \in Nat /\ Max(g) <= last /\ \A e \in g : e <= Max(g)
    <3>1. \A g \in hits : g \in File
      BY <1>1
    <3>2. \A g \in hits : Max(g) \in g /\ \A e \in g : e <= Max(g)
      BY <1>1, <3>1, EntryMax
    <3> QED
      BY <1>1, <3>1, <3>2, Entries DEF File, Entry
  <2>3. \E g \in hits : \A h \in hits : Max(g) >= Max(h)
    <3> DEFINE M == {Max(g) : g \in hits}
    <3>1. M \in SUBSET (1..last) /\ M \in SUBSET Nat /\ M # {}
      <4>1. \A g \in hits : Max(g) \in 1..last /\ Max(g) \in Nat
        BY <1>1, <2>2 DEF File, Entry
      <4> QED
        BY <1>4, <4>1
    <3>2. IsFiniteSet(M)
      BY <1>1, <3>1, Entries, FS_Subset DEF Entry
    <3>3. PICK m \in M : \A n \in M : m >= n
      BY <3>1, <3>2, FiniteHasGreatest
    <3> QED
      BY <3>3
  <2>4. f \in hits /\ \A g \in hits : Max(f) >= Max(g)
    BY <2>3 DEF NewestFirst
  <2>5. IsNewest(Newest(f, k, s), f, k, s) /\ Newest(f, k, s) # None
    BY <1>2, <2>4
  <2> HIDE DEF f
  <2>6. ASSUME NEW g \in files[0], NEW d \in g, Sees(d, k, s) PROVE d <= Newest(f, k, s)
    <3>1. CASE g = f
      BY <2>5, <2>6, <3>1 DEF IsNewest
    <3>2. CASE g # f
      <4>1. g \in hits
        BY <1>2, <2>6 DEF IsNewest
      <4>2. Max(g) \in g /\ Max(f) \in f /\ Max(f) >= Max(g) /\ Max(f) \in Nat /\ Max(g) \in Nat
        BY <2>2, <2>4, <4>1
      <4>3. ~Older(f, g)
        <5>1. SUFFICES ASSUME Max(f) < Max(g) PROVE FALSE
          BY <4>2 DEF Older
        <5> QED
          BY <4>2, <5>1
      <4>4. Older(g, f)
        BY <2>4, <3>2, <4>3 DEF Ages
      <4>5. d < Newest(f, k, s)
        BY <2>5, <4>4 DEF IsNewest, Older
      <4>6. d \in Nat /\ Newest(f, k, s) \in Nat
        <5>1. d \in Entry /\ Newest(f, k, s) \in Entry
          BY <1>1, <2>4, <2>5 DEF IsNewest
        <5> QED
          BY <1>1, <5>1, Entries
      <4> QED
        BY <4>5, <4>6
    <3> QED
      BY <3>1, <3>2
  <2>7. Newest(f, k, s) \in UNION files[0] /\ Sees(Newest(f, k, s), k, s)
    BY <2>4, <2>5 DEF IsNewest
  <2> QED
    BY <2>1, <2>5, <2>6, <2>7 DEF IsNewest
<1> QED
  BY <1>3, <1>4


\* A file has a largest and a smallest entry.
LEMMA EndsOfFile ==
  ASSUME HistOK, NEW f \in File
  PROVE  /\ Largest(f) \in f /\ \A d \in f : d = Largest(f) \/ Before(d, Largest(f))
         /\ Smallest(f) \in f /\ \A d \in f : d = Smallest(f) \/ Before(Smallest(f), d)
<1>1. f \in SUBSET Entry /\ f # {} /\ \A e \in f : KeyOf(e) \in Nat /\ e \in Nat
  BY Entries DEF File
<1>2. \A e \in f : FirstKey(f) <= KeyOf(e) /\ KeyOf(e) <= LastKey(f)
  BY KeyRange
<1>3. FirstKey(f) \in Nat /\ LastKey(f) \in Nat
  BY KeyRange
<1>4. \E e \in f : \A d \in f : d = e \/ Before(d, e)
  <2> DEFINE S == {e \in f : KeyOf(e) = LastKey(f)}
  <2>1. S \in SUBSET Nat /\ S # {}
    BY <1>1, KeyRange
  <2>2. PICK e \in S : \A d \in S : e <= d
    BY <2>1, LeastNat
  <2>3. ASSUME NEW d \in f, d # e PROVE Before(d, e)
    <3>1. CASE d \in S
      BY <1>1, <2>2, <2>3, <3>1 DEF Before
    <3>2. CASE d \notin S
      BY <1>1, <1>2, <1>3, <2>2, <3>2 DEF Before
    <3> QED
      BY <3>1, <3>2
  <2> QED
    BY <2>2, <2>3
<1>5. \E e \in f : \A d \in f : d = e \/ Before(e, d)
  <2> DEFINE S == {e \in f : KeyOf(e) = FirstKey(f)}
  <2>1. S \in SUBSET Nat /\ S # {} /\ IsFiniteSet(S)
    BY <1>1, KeyRange, Entries, FS_Subset
  <2>2. PICK e \in S : \A d \in S : e >= d
    BY <2>1, FiniteHasGreatest
  <2>3. ASSUME NEW d \in f, d # e PROVE Before(e, d)
    <3>1. CASE d \in S
      BY <1>1, <2>2, <2>3, <3>1 DEF Before
    <3>2. CASE d \notin S
      BY <1>1, <1>2, <1>3, <2>2, <3>2 DEF Before
    <3> QED
      BY <3>1, <3>2
  <2> QED
    BY <2>2, <2>3
<1> QED
  BY <1>4, <1>5 DEF Largest, Smallest

\* Where files are apart the search by file finds the one that has the entry.
LEMMA FindFileFinds ==
  ASSUME HistOK, NEW fs \in SUBSET File, \A f, g \in fs : f = g \/ Apart(f, g),
         NEW k \in Nat, NEW s \in Nat
  PROVE  /\ FindFile(fs, k, s) \in fs \cup {{}}
         /\ \A g \in fs : \A e \in g : Sees(e, k, s) => FindFile(fs, k, s) = g
<1> DEFINE cands == {f \in fs : NotBefore(f, k, s)}
<1>1. \A f \in fs : f \in SUBSET Entry /\ \A e \in f : KeyOf(e) \in Nat /\ e \in Nat
  BY Entries DEF File
<1>2. \A f \in fs : /\ Largest(f) \in f /\ \A d \in f : d = Largest(f) \/ Before(d, Largest(f))
                    /\ Smallest(f) \in f
  BY EndsOfFile
\* Files in order have their smallest entries in order.
<1>3. ASSUME NEW f \in fs, NEW g \in fs, f # g
      PROVE  Before(Smallest(f), Smallest(g)) <=> Left(f, g)
  <2>1. KeyOf(Smallest(f)) \in Nat /\ KeyOf(Smallest(g)) \in Nat
    BY <1>1, <1>2
  <2>2. Left(f, g) \/ Left(g, f)
    BY <1>3 DEF Apart
  <2>3. Left(f, g) => KeyOf(Smallest(f)) < KeyOf(Smallest(g))
    BY <1>2 DEF Left
  <2>4. Left(g, f) => KeyOf(Smallest(g)) < KeyOf(Smallest(f))
    BY <1>2 DEF Left
  <2> QED
    BY <2>1, <2>2, <2>3, <2>4 DEF Before
<1>4. ASSUME cands # {} PROVE \E f \in cands : \A g \in cands \ {f} : Before(Smallest(f), Smallest(g))
  <2> DEFINE S == {FirstKey(f) : f \in cands}
  <2>1. S \in SUBSET Nat /\ S # {}
    BY <1>4, KeyRange
  <2>2. PICK n \in S : \A m \in S : n <= m
    BY <2>1, LeastNat
  <2>3. PICK f \in cands : n = FirstKey(f)
    BY <2>2
  <2>4. ASSUME NEW g \in cands \ {f} PROVE Left(f, g)
    <3>1. PICK a \in f : KeyOf(a) = FirstKey(f)
      BY KeyRange
    <3>2. PICK b \in g : KeyOf(b) = FirstKey(g)
      BY KeyRange
    <3>3. FirstKey(g) \in S
      BY <2>4
    <3>4. KeyOf(a) <= KeyOf(b)
      BY <2>2, <2>3, <3>1, <3>2, <3>3
    <3>5. KeyOf(a) \in Nat /\ KeyOf(b) \in Nat
      BY <1>1, <2>4
    <3>6. ~Left(g, f)
      BY <3>4, <3>5 DEF Left
    <3> QED
      BY <2>4, <3>6 DEF Apart
  <2> QED
    BY <1>3, <2>4
<1>5. FindFile(fs, k, s) \in fs \cup {{}}
  BY <1>4 DEF FindFile
<1>6. ASSUME NEW g \in fs, NEW e \in g, Sees(e, k, s) PROVE FindFile(fs, k, s) = g
  <2>1. g \in cands
    <3>1. KeyOf(Largest(g)) \in Nat /\ Largest(g) \in Nat /\ KeyOf(e) = k /\ e <= s /\ e \in Nat
      BY <1>1, <1>2, <1>6 DEF Sees
    <3>2. e = Largest(g) \/ Before(e, Largest(g))
      BY <1>2
    <3>3. NotBefore(g, k, s)
      BY <3>1, <3>2 DEF NotBefore, Before
    <3> QED
      BY <3>3
  <2>2. ASSUME NEW h \in cands, h # g PROVE Left(g, h)
    <3>1. Largest(h) \in h /\ NotBefore(h, k, s) /\ KeyOf(Largest(h)) \in Nat /\ KeyOf(e) = k
      BY <1>1, <1>2, <1>6 DEF Sees
    <3>2. KeyOf(Largest(h)) >= k
      BY <3>1 DEF NotBefore
    <3>3. ~Left(h, g)
      BY <1>1, <3>1, <3>2 DEF Left
    <3> QED
      BY <2>2, <3>3 DEF Apart
  <2> DEFINE f == FindFile(fs, k, s)
  <2>3. f \in cands /\ \A h \in cands \ {f} : Before(Smallest(f), Smallest(h))
    BY <1>4, <2>1 DEF FindFile
  <2> HIDE DEF f
  <2>4. SUFFICES ASSUME f # g PROVE FALSE
    BY DEF f
  <2>5. Left(f, g)
    BY <1>3, <2>1, <2>3, <2>4
  <2>6. Left(g, f)
    BY <2>2, <2>3, <2>4
  <2>7. Smallest(f) \in f /\ Smallest(g) \in g
    BY <1>2, <2>3
  <2>8. KeyOf(Smallest(f)) < KeyOf(Smallest(g)) /\ KeyOf(Smallest(g)) < KeyOf(Smallest(f))
    BY <2>5, <2>6, <2>7 DEF Left
  <2>9. KeyOf(Smallest(f)) \in Nat /\ KeyOf(Smallest(g)) \in Nat
    BY <1>1, <2>3, <2>7
  <2> QED
    BY <2>8, <2>9
<1> QED
  BY <1>5, <1>6

\* The newest in a deeper level is that of the file that is searched.
LEMMA LevelIsNewest ==
  ASSUME TypeOK, FilesApart, NEW l \in Level \ {0}, NEW k \in Nat, NEW s \in Nat
  PROVE  IsNewest(InLevel(l, k, s), UNION files[l], k, s)
<1> DEFINE f == FindFile(files[l], k, s)
<1>1. HistOK /\ files[l] \in SUBSET File /\ UNION files[l] \in SUBSET Entry
  BY TypeFacts
<1>2. \A g, h \in files[l] : g = h \/ Apart(g, h)
  BY DEF FilesApart
<1>3. f \in files[l] \cup {{}} /\ \A g \in files[l] : \A e \in g : Sees(e, k, s) => f = g
  BY <1>1, <1>2, FindFileFinds
<1>4. f \in SUBSET Entry /\ f \in SUBSET UNION files[l]
  BY <1>1, <1>3
<1>5. InLevel(l, k, s) = Newest(f, k, s)
  BY DEF InLevel
<1> HIDE DEF f
<1>6. IsNewest(Newest(f, k, s), f, k, s)
  BY <1>1, <1>4, NewestIsNewest
<1>7. \A e \in UNION files[l] : Sees(e, k, s) => e \in f
  BY <1>3
<1> QED
  BY <1>4, <1>5, <1>6, <1>7 DEF IsNewest


\* What Get looks at, place by place.
At(i) == IF i = -2 THEN mem ELSE IF i = -1 THEN imm ELSE UNION files[i]

\* Every place Get looks in answers with the newest entry it has.
LEMMA HitIsNewest ==
  ASSUME TypeOK, Ages, FilesApart, NEW i \in Place, NEW k \in Nat, NEW s \in Nat
  PROVE  At(i) \in SUBSET Entry /\ IsNewest(Hit(i, k, s), At(i), k, s)
<1>1. HistOK /\ mem \in SUBSET Entry /\ imm \in SUBSET Entry
  BY TypeFacts
<1>2. CASE i = -2
  <2>1. At(i) = mem /\ Hit(i, k, s) = Newest(mem, k, s)
    BY <1>2 DEF At, Hit
  <2> QED
    BY <1>1, <2>1, NewestIsNewest
<1>3. CASE i = -1
  <2>1. At(i) = imm /\ Hit(i, k, s) = Newest(imm, k, s)
    BY <1>3 DEF At, Hit
  <2> QED
    BY <1>1, <2>1, NewestIsNewest
<1>4. CASE i = 0
  <2>1. At(i) = UNION files[0] /\ Hit(i, k, s) = InLevel0(k, s) /\ 0 \in Level
    BY <1>4, LevelFacts DEF At, Hit
  <2> QED
    BY <2>1, Level0IsNewest, TypeFacts
<1>5. CASE i \notin {-2, -1, 0}
  <2>1. i \in Level \ {0}
    BY <1>5 DEF Place, Level
  <2>2. At(i) = UNION files[i] /\ Hit(i, k, s) = InLevel(i, k, s)
    BY <1>5 DEF At, Hit
  <2> QED
    BY <2>1, <2>2, LevelIsNewest, TypeFacts
<1> QED
  BY <1>2, <1>3, <1>4, <1>5

\* Of two places the one looked at first has the newer entries of a key.
LEMMA PlacesInOrder ==
  ASSUME TypeOK, Ages, NewerAbove, NEW i \in Place, NEW j \in Place, i < j,
         NEW e \in At(i), NEW d \in At(j), KeyOf(d) = KeyOf(e)
  PROVE  e > d
<1>1. i \in Int /\ j \in Int
  BY DEF Place
<1>2. \A l \in Level : \A x \in UNION files[l] : x \in Filed
  BY DEF Filed
<1>3. CASE i = -2
  <2>1. e \in mem
    BY <1>3 DEF At
  <2>2. d \in imm \/ d \in Filed
    <3>1. j = -1 \/ j \in Level
      BY <1>1, <1>3 DEF Place, Level
    <3> QED
      BY <1>2, <1>3, <3>1 DEF At, Level
  <2> QED
    BY <2>1, <2>2, Entries, TypeFacts DEF Ages, Older
<1>4. CASE i = -1
  <2>1. e \in imm
    BY <1>4 DEF At
  <2>2. j \in Level /\ d \in UNION files[j]
    BY <1>1, <1>4 DEF At, Place, Level
  <2>3. d \in Filed
    BY <1>2, <2>2
  <2> QED
    BY <2>1, <2>3, Entries, TypeFacts DEF Ages, Older
<1>5. CASE i \notin {-2, -1}
  <2>1. i \in Level /\ j \in Level /\ e \in UNION files[i] /\ d \in UNION files[j]
    BY <1>1, <1>5 DEF At, Place, Level
  <2> QED
    BY <2>1 DEF NewerAbove
<1> QED
  BY <1>3, <1>4, <1>5

\* Every entry is in a place.
LEMMA PlacesAreAll == \A e : e \in Everything <=> \E i \in Place : e \in At(i)
<1>1. \A l \in Level : l \in Place /\ At(l) = UNION files[l]
  BY DEF Level, Place, At
<1>2. -2 \in Place /\ At(-2) = mem /\ -1 \in Place /\ At(-1) = imm
  BY DEF Place, At
<1>3. \A i \in Place : i = -2 \/ i = -1 \/ i \in Level
  BY DEF Level, Place
<1> QED
  BY <1>1, <1>2, <1>3 DEF Everything

\* Get finds the newest entry there is.
LEMMA GetIsNewest ==
  ASSUME TypeOK, Ages, FilesApart, NewerAbove, NEW k \in Nat, NEW s \in Nat
  PROVE  IsNewest(Get(k, s), Everything, k, s)
<1> DEFINE found == {i \in Place : Hit(i, k, s) # None}
<1>1. \A i \in Place : IsNewest(Hit(i, k, s), At(i), k, s)
  BY HitIsNewest
<1>2. CASE found = {}
  <2>1. Get(k, s) = None
    BY <1>2 DEF Get
  <2>2. \A i \in Place : \A d \in At(i) : ~Sees(d, k, s)
    BY <1>1, <1>2 DEF IsNewest
  <2> QED
    BY <2>1, <2>2, PlacesAreAll DEF IsNewest
<1>3. CASE found # {}
  <2> DEFINE m == Min(found)
  <2>1. m \in found /\ \A j \in found : m <= j
    <3>1. found \in SUBSET Int /\ \A y \in found : -2 <= y
      BY DEF Place
    <3> HIDE DEF found
    <3> QED
      BY <1>3, <3>1, MinFacts
  <2>2. Get(k, s) = Hit(m, k, s) /\ m \in Place /\ Hit(m, k, s) # None
    BY <1>3, <2>1 DEF Get
  <2> HIDE DEF m
  <2> DEFINE e == Hit(m, k, s)
  <2>3. e \in At(m) /\ Sees(e, k, s) /\ \A d \in At(m) : Sees(d, k, s) => d <= e
    BY <1>1, <2>2 DEF IsNewest
  <2> HIDE DEF e
  <2>4. ASSUME NEW j \in Place, NEW d \in At(j), Sees(d, k, s) PROVE d <= e
    <3>1. j \in found
      BY <1>1, <2>4 DEF IsNewest
    <3>2. m <= j /\ m \in Int /\ j \in Int
      BY <2>1, <2>2, <3>1 DEF Place
    <3>3. CASE m = j
      BY <2>3, <2>4, <3>3
    <3>4. CASE m < j
      <4>1. KeyOf(d) = KeyOf(e)
        BY <2>3, <2>4 DEF Sees
      <4>2. e > d
        BY <2>2, <2>3, <3>4, <4>1, PlacesInOrder
      <4>3. d \in Everything /\ e \in Everything
        BY <2>2, <2>3, <2>4, PlacesAreAll
      <4>4. d \in Nat /\ e \in Nat
        BY <4>3, Entries, TypeFacts
      <4> QED
        BY <4>2, <4>4
    <3> QED
      BY <3>2, <3>3, <3>4
  <2>5. e \in Everything
    BY <2>2, <2>3, PlacesAreAll
  <2>6. \A d \in Everything : Sees(d, k, s) => d <= e
    BY <2>4, PlacesAreAll
  <2>7. e = Get(k, s) /\ e # None
    BY <2>2 DEF e
  <2> QED
    BY <2>3, <2>5, <2>6, <2>7 DEF IsNewest
<1> QED
  BY <1>2, <1>3


\* The last write of a key that a held snapshot covers is there, or was a
\* deletion and left nothing the snapshot would see in its place.
Complete ==
  \A n \in Entry : \A s \in Held :
    IsNewest(n, Entry, KeyOf(n), s) =>
      n \in Everything \/ (hist[n].del /\ \A d \in Everything : ~Sees(d, KeyOf(n), s))

\* What is read of what is there is what was written.
LEMMA CompleteValue ==
  ASSUME TypeOK, Complete, NEW k \in Nat, NEW s \in Held, NEW n, NEW m,
         IsNewest(n, Entry, k, s), IsNewest(m, Everything, k, s)
  PROVE  Value(m) = Value(n)
<1>1. HistOK /\ Everything \in SUBSET Entry /\ s \in Nat
  BY TypeFacts
<1>2. CASE n = None
  <2>1. m = None
    BY <1>1, <1>2 DEF IsNewest
  <2> QED
    BY <1>2, <2>1
<1>3. CASE n # None /\ n \in Everything
  <2>1. IsNewest(n, Everything, k, s)
    BY <1>1, <1>3 DEF IsNewest
  <2>2. m = n
    BY <1>1, <2>1, NewestUnique
  <2> QED
    BY <2>2
<1>4. CASE n # None /\ n \notin Everything
  <2>1. n \in Entry /\ KeyOf(n) = k
    BY <1>4 DEF IsNewest, Sees
  <2>2. hist[n].del /\ \A d \in Everything : ~Sees(d, k, s)
    BY <1>4, <2>1 DEF Complete
  <2>3. m = None
    BY <2>2 DEF IsNewest
  <2> QED
    BY <2>2, <2>3 DEF Value
<1> QED
  BY <1>2, <1>3, <1>4

\* The properties, from the parts of the invariant.
LEMMA PropertiesFollow ==
  ASSUME TypeOK, Ages, FilesApart, NewerAbove, Complete
  PROVE  LevelsOrdered /\ ReadsRight
<1>1. HistOK /\ Everything \in SUBSET Entry /\ Entry \in SUBSET Entry /\ Held \subseteq Nat
  BY TypeFacts
<1>2. LevelsDisjoint
  <2>1. SUFFICES ASSUME NEW l \in Level \ {0}, NEW f \in files[l], NEW g \in files[l], f # g
                 PROVE  ~Overlaps(f, FirstKey(g), LastKey(g))
    BY DEF LevelsDisjoint
  <2>2. f \in File /\ g \in File
    BY TypeFacts
  <2>3. Apart(f, g)
    BY <2>1 DEF FilesApart
  <2> QED
    BY <1>1, <2>2, <2>3, OverlapsApart
<1>3. ReadsRight
  <2>1. SUFFICES ASSUME NEW k \in Key, NEW s \in Held
                 PROVE  /\ Value(Get(k, s)) = Value(Newest(Entry, k, s))
                        /\ Value(Newest(Everything, k, s)) = Value(Newest(Entry, k, s))
    BY DEF ReadsRight, Held, Entry
  <2>2. k \in Nat /\ s \in Nat
    BY <1>1
  <2>3. IsNewest(Newest(Entry, k, s), Entry, k, s)
    BY <1>1, <2>2, NewestIsNewest
  <2>4. IsNewest(Newest(Everything, k, s), Everything, k, s)
    BY <1>1, <2>2, NewestIsNewest
  <2>5. IsNewest(Get(k, s), Everything, k, s)
    BY <2>2, GetIsNewest
  <2> QED
    BY <2>2, <2>3, <2>4, <2>5, CompleteValue
<1> QED
  BY <1>2, <1>3 DEF LevelsOrdered


-----------------------------------------------------------------------------
(* The inputs of a compaction                                              *)

Reached(l, S) == IF l = 0 THEN KeysOf(UNION S) ELSE {}

\* S has every file that it, or the range it was asked for, overlaps.
ClosedUp(l, lo, hi, S) ==
  \A f \in files[l] :
    (\E a \in {lo} \cup Reached(l, S), b \in {hi} \cup Reached(l, S) : Overlaps(f, a, b)) => f \in S

\* GetOverlappingInputs is the least such set.
LEMMA LeastClosed ==
  ASSUME NEW l, NEW lo, NEW hi
  PROVE  /\ GetOverlappingInputs(l, lo, hi) \in SUBSET files[l]
         /\ ClosedUp(l, lo, hi, GetOverlappingInputs(l, lo, hi))
         /\ \A S \in SUBSET files[l] :
              ClosedUp(l, lo, hi, S) => GetOverlappingInputs(l, lo, hi) \subseteq S
<1> DEFINE R == GetOverlappingInputs(l, lo, hi)
<1>1. R = {f \in files[l] : \A S \in SUBSET files[l] : ClosedUp(l, lo, hi, S) => f \in S}
  BY DEF GetOverlappingInputs, ClosedUp, Reached
<1> HIDE DEF R
<1>2. R \in SUBSET files[l]
  BY <1>1
<1>3. \A S \in SUBSET files[l] : ClosedUp(l, lo, hi, S) => R \subseteq S
  BY <1>1
<1>4. \A S : R \subseteq S => Reached(l, R) \subseteq Reached(l, S)
  BY DEF Reached, KeysOf
<1>5. ClosedUp(l, lo, hi, R)
  <2>1. SUFFICES ASSUME NEW f \in files[l], NEW a \in {lo} \cup Reached(l, R),
                        NEW b \in {hi} \cup Reached(l, R), Overlaps(f, a, b)
                 PROVE  f \in R
    BY DEF ClosedUp
  <2>2. ASSUME NEW S \in SUBSET files[l], ClosedUp(l, lo, hi, S) PROVE f \in S
    <3>1. Reached(l, R) \subseteq Reached(l, S)
      BY <1>3, <1>4, <2>2
    <3>2. a \in {lo} \cup Reached(l, S) /\ b \in {hi} \cup Reached(l, S)
      BY <3>1
    <3> QED
      BY <2>1, <2>2, <3>2 DEF ClosedUp
  <2> QED
    BY <1>1, <2>2
<1> QED
  BY <1>2, <1>3, <1>5 DEF R

\* A file that is left out at level 0 is apart from those that are not.
LEMMA Level0LeftOut ==
  ASSUME TypeOK, NEW lo, NEW hi, NEW R, R = GetOverlappingInputs(0, lo, hi), NEW g \in files[0] \ R
  PROVE  Apart(g, UNION R)
<1>1. SUFFICES ASSUME ~Apart(g, UNION R) PROVE FALSE
  OBVIOUS
<1>2. PICK d \in g, u \in UNION R : ~(KeyOf(d) < KeyOf(u))
  BY <1>1 DEF Apart, Left
<1>3. PICK v \in UNION R, c \in g : ~(KeyOf(v) < KeyOf(c))
  BY <1>1 DEF Apart, Left
<1>4. HistOK /\ g \in File /\ R \in SUBSET File /\ UNION R \in SUBSET Entry
  BY TypeFacts, LevelFacts, LeastClosed DEF File
<1>5. KeyOf(d) \in Nat /\ KeyOf(u) \in Nat /\ KeyOf(v) \in Nat /\ KeyOf(c) \in Nat
  BY <1>4, Entries DEF File
<1>6. KeyOf(c) <= KeyOf(v) /\ KeyOf(d) >= KeyOf(u)
  BY <1>2, <1>3, <1>5
<1>7. Overlaps(g, KeyOf(u), KeyOf(v))
  BY <1>4, <1>5, <1>6, OverlapsFacts
<1>8. KeyOf(u) \in Reached(0, R) /\ KeyOf(v) \in Reached(0, R)
  BY DEF Reached, KeysOf
<1>9. ClosedUp(0, lo, hi, R)
  BY LeastClosed
<1> QED
  BY <1>7, <1>8, <1>9 DEF ClosedUp

\* Below level 0 the files that overlap the range, and no others.
LEMMA DeeperInputs ==
  ASSUME NEW l, l # 0, NEW lo, NEW hi
  PROVE  GetOverlappingInputs(l, lo, hi) = {f \in files[l] : Overlaps(f, lo, hi)}
<1> DEFINE S == {f \in files[l] : Overlaps(f, lo, hi)}
           R == GetOverlappingInputs(l, lo, hi)
<1>1. \A T : Reached(l, T) = {}
  BY DEF Reached
<1>2. S \in SUBSET files[l] /\ ClosedUp(l, lo, hi, S)
  BY <1>1 DEF ClosedUp
<1>3. R \in SUBSET files[l] /\ R \subseteq S /\ ClosedUp(l, lo, hi, R)
  BY <1>2, LeastClosed
<1>4. S \subseteq R
  BY <1>3 DEF ClosedUp
<1> QED
  BY <1>3, <1>4

\* A range without gaps stays one: what is added to it is, file by file,
\* connected with it.
LEMMA LeastCovered ==
  ASSUME TypeOK, NEW l \in Level, NEW lo \in Nat, NEW hi \in Nat,
         NEW R, R = GetOverlappingInputs(l, lo, hi), NEW T \in SUBSET File,
         \A e \in UNION T : lo <= KeyOf(e) /\ KeyOf(e) <= hi,
         \A x \in Key : lo <= x /\ x <= hi => \E f \in R \cup T : Reaches(f, x)
  PROVE  Covered(R \cup T)
<1>1. SUFFICES ASSUME NEW a \in UNION (R \cup T), NEW b \in UNION (R \cup T), NEW x \in Key,
                      KeyOf(a) <= x, x <= KeyOf(b), \A f \in R \cup T : ~Reaches(f, x)
               PROVE  FALSE
  BY DEF Covered
<1>2. HistOK /\ R \in SUBSET File /\ files[l] \in SUBSET File /\ R \in SUBSET files[l]
  BY TypeFacts, LeastClosed
<1>3. \A f \in files[l] \cup T : f \in File /\ \A e \in f : KeyOf(e) \in Nat
  BY <1>2, Entries DEF File
<1>4. KeyOf(a) \in Nat /\ KeyOf(b) \in Nat /\ x \in Nat
  <2>1. \A e \in UNION (R \cup T) : KeyOf(e) \in Nat
    BY <1>2, <1>3
  <2> QED
    BY <2>1
<1>5. x < lo \/ x > hi
  BY <1>1, <1>4
<1>6. \A f \in R : (\A e \in f : KeyOf(e) < x) \/ (\A e \in f : KeyOf(e) > x)
  <2>1. SUFFICES ASSUME NEW f \in R, NEW c \in f, NEW d \in f, KeyOf(c) >= x, KeyOf(d) <= x PROVE FALSE
    BY <1>2, <1>3, <1>4
  <2> QED
    BY <1>1, <2>1 DEF Reaches
<1>7. ClosedUp(l, lo, hi, R)
  BY LeastClosed
<1>8. ASSUME NEW S \in SUBSET R PROVE Reached(l, S) \subseteq Reached(l, R)
  BY DEF Reached, KeysOf
<1>9. CASE x > hi
  <2> DEFINE S == {f \in R : \A e \in f : KeyOf(e) < x}
  <2>1. \A q \in {hi} \cup Reached(l, S) : q \in Nat /\ q < x
    <3>1. \A e \in UNION S : KeyOf(e) \in Nat /\ KeyOf(e) < x
      BY <1>2, <1>3
    <3> QED
      BY <1>9, <3>1 DEF Reached, KeysOf
  <2>2. ClosedUp(l, lo, hi, S)
    <3>1. SUFFICES ASSUME NEW f \in files[l], NEW p \in {lo} \cup Reached(l, S),
                          NEW q \in {hi} \cup Reached(l, S), Overlaps(f, p, q)
                   PROVE  f \in S
      BY DEF ClosedUp
    <3>2. f \in R
      <4>1. Reached(l, S) \subseteq Reached(l, R)
        BY <1>8
      <4>2. p \in {lo} \cup Reached(l, R) /\ q \in {hi} \cup Reached(l, R)
        BY <4>1
      <4> QED
        BY <1>7, <3>1, <4>2 DEF ClosedUp
    <3>3. PICK c \in f : KeyOf(c) = FirstKey(f)
      BY <1>2, <1>3, KeyRange
    <3>4. KeyOf(c) < x
      <4>1. KeyOf(c) <= q
        BY <3>1, <3>3 DEF Overlaps
      <4>2. KeyOf(c) \in Nat /\ q \in Nat /\ q < x
        BY <1>3, <2>1
      <4> QED
        BY <1>4, <4>1, <4>2
    <3> QED
      BY <1>3, <1>4, <1>6, <3>2, <3>4
  <2>3. R \subseteq S
    BY <1>2, <2>2, LeastClosed
  <2>4. CASE b \in UNION R
    BY <1>1, <1>4, <2>3, <2>4
  <2>5. CASE b \in UNION T
    BY <1>1, <1>4, <1>9, <2>5
  <2> QED
    BY <2>4, <2>5
<1>10. CASE x < lo
  <2> DEFINE S == {f \in R : \A e \in f : KeyOf(e) > x}
  <2>1. \A p \in {lo} \cup Reached(l, S) : p \in Nat /\ p > x
    <3>1. \A e \in UNION S : KeyOf(e) \in Nat /\ KeyOf(e) > x
      BY <1>2, <1>3
    <3> QED
      BY <1>10, <3>1 DEF Reached, KeysOf
  <2>2. ClosedUp(l, lo, hi, S)
    <3>1. SUFFICES ASSUME NEW f \in files[l], NEW p \in {lo} \cup Reached(l, S),
                          NEW q \in {hi} \cup Reached(l, S), Overlaps(f, p, q)
                   PROVE  f \in S
      BY DEF ClosedUp
    <3>2. f \in R
      <4>1. Reached(l, S) \subseteq Reached(l, R)
        BY <1>8
      <4>2. p \in {lo} \cup Reached(l, R) /\ q \in {hi} \cup Reached(l, R)
        BY <4>1
      <4> QED
        BY <1>7, <3>1, <4>2 DEF ClosedUp
    <3>3. PICK c \in f : KeyOf(c) = LastKey(f)
      BY <1>2, <1>3, KeyRange
    <3>4. KeyOf(c) > x
      <4>1. KeyOf(c) >= p
        BY <3>1, <3>3 DEF Overlaps
      <4>2. KeyOf(c) \in Nat /\ p \in Nat /\ p > x
        BY <1>3, <2>1
      <4> QED
        BY <1>4, <4>1, <4>2
    <3> QED
      BY <1>3, <1>4, <1>6, <3>2, <3>4
  <2>3. R \subseteq S
    BY <1>2, <2>2, LeastClosed
  <2>4. CASE a \in UNION R
    BY <1>1, <1>4, <2>3, <2>4
  <2>5. CASE a \in UNION T
    BY <1>1, <1>4, <1>10, <2>5
  <2> QED
    BY <2>4, <2>5
<1> QED
  BY <1>5, <1>9, <1>10


\* What a compaction of files X0 of level l with files X1 of the next has.
GoodInputs(l, X0, X1) ==
  /\ X0 \subseteq files[l] /\ X1 \subseteq files[l + 1] /\ X0 # {}
  /\ Covered(X0 \cup X1)
  /\ \A g \in files[l + 1] \ X1 : Apart(g, UNION (X0 \cup X1))
  /\ \A g \in files[l] \ X0, f \in X0 : Apart(g, f)

\* A file apart from some files is apart from those that overlap them as well.
LEMMA ApartThrough ==
  ASSUME HistOK, NEW g \in File, NEW U \in File, NEW S \in SUBSET File,
         Apart(g, U), \A f \in S : Apart(g, f) /\ ~Apart(f, U)
  PROVE  Apart(g, U \cup UNION S)
<1>1. \A e \in g \cup U \cup UNION S : KeyOf(e) \in Nat
  BY Entries DEF File
<1>2. PICK e \in g : TRUE
  BY DEF File
<1>3. CASE Left(g, U)
  <2>1. ASSUME NEW f \in S PROVE Left(g, f)
    <3>1. SUFFICES ASSUME Left(f, g) PROVE FALSE
      BY DEF Apart
    <3>2. ASSUME NEW a \in f, NEW b \in U PROVE KeyOf(a) < KeyOf(b)
      <4>1. KeyOf(a) < KeyOf(e) /\ KeyOf(e) < KeyOf(b)
        BY <1>2, <1>3, <3>1 DEF Left
      <4> QED
        BY <1>1, <4>1
    <3> QED
      BY <3>2 DEF Apart, Left
  <2> QED
    BY <1>3, <2>1 DEF Apart, Left
<1>4. CASE Left(U, g)
  <2>1. ASSUME NEW f \in S PROVE Left(f, g)
    <3>1. SUFFICES ASSUME Left(g, f) PROVE FALSE
      BY DEF Apart
    <3>2. ASSUME NEW a \in f, NEW b \in U PROVE KeyOf(b) < KeyOf(a)
      <4>1. KeyOf(e) < KeyOf(a) /\ KeyOf(b) < KeyOf(e)
        BY <1>2, <1>4, <3>1 DEF Left
      <4> QED
        BY <1>1, <4>1
    <3> QED
      BY <3>2 DEF Apart, Left
  <2> QED
    BY <1>4, <2>1 DEF Apart, Left
<1> QED
  BY <1>3, <1>4 DEF Apart

\* The files of some files of a level, and the range they are asked for with.
LEMMA HullFacts ==
  ASSUME NEW X \in SUBSET File, X # {}, NEW m
  PROVE  /\ UNION X \in File
         /\ OverlappingFiles(m, X) = GetOverlappingInputs(m, FirstKey(UNION X), LastKey(UNION X))
<1>1. UNION X \in File
  BY DEF File
<1> QED
  BY <1>1 DEF OverlappingFiles, Hull, FirstKey, LastKey

\* X1 is what X0 brings in of the next level.
BringsIn(l, X0, X1) ==
  /\ X1 \in SUBSET files[l + 1] /\ \A f \in files[l + 1] : f \in X1 <=> ~Apart(f, UNION X0)
  /\ \A g \in files[l + 1] \ X1 : Apart(g, UNION (X0 \cup X1))

\* What a compaction takes of the next level is such a choice.
LEMMA NextLevelInputs ==
  ASSUME TypeOK, FilesApart, NEW l \in 0..(NumLevels - 2), NEW X0 \in SUBSET files[l], X0 # {}
  PROVE  BringsIn(l, X0, OverlappingFiles(l + 1, X0))
<1> DEFINE X1 == OverlappingFiles(l + 1, X0)
<1> DEFINE U == UNION X0
<1>1. l \in Level /\ l + 1 \in Level /\ l + 1 # 0
  BY LevelFacts
<1>2. HistOK /\ files[l + 1] \in SUBSET File
  BY <1>1, TypeFacts
<1>3. U \in File /\ X1 = {f \in files[l + 1] : Overlaps(f, FirstKey(U), LastKey(U))}
  <2>1. X0 \in SUBSET File
    BY <1>1, TypeFacts
  <2>2. U \in File /\ X1 = GetOverlappingInputs(l + 1, FirstKey(U), LastKey(U))
    BY <2>1, HullFacts
  <2> QED
    BY <1>1, <2>2, DeeperInputs
<1> HIDE DEF U, X1
<1>4. \A f \in files[l + 1] : f \in X1 <=> ~Apart(f, U)
  BY <1>2, <1>3, OverlapsApart
<1>5. X1 \in SUBSET files[l + 1] /\ X1 \in SUBSET File
  BY <1>2, <1>3
<1>6. ASSUME NEW g \in files[l + 1] \ X1 PROVE Apart(g, U \cup UNION X1)
  <2>1. Apart(g, U) /\ \A f \in X1 : Apart(g, f) /\ ~Apart(f, U)
    BY <1>1, <1>4, <1>5, <1>6 DEF FilesApart
  <2>2. g \in File
    BY <1>2, <1>6
  <2> QED
    BY <1>2, <1>3, <1>5, <2>1, <2>2, ApartThrough
<1>7. UNION (X0 \cup X1) = U \cup UNION X1
  BY DEF U
<1> QED
  BY <1>4, <1>5, <1>6, <1>7 DEF U, X1, BringsIn

\* Each key in the range of a file is reached by it.
LEMMA RangeReached ==
  ASSUME HistOK, NEW f \in File, NEW x \in Key
  PROVE  FirstKey(f) <= x /\ x <= LastKey(f) => Reaches(f, x)
<1>1. PICK a \in f, b \in f : KeyOf(a) = FirstKey(f) /\ KeyOf(b) = LastKey(f)
  BY KeyRange
<1> QED
  BY <1>1 DEF Reaches

\* What an automatic compaction starts from.
LEMMA PickedFacts ==
  ASSUME TypeOK, FilesApart, NEW l \in Level, NEW X \in Picked(l)
  PROVE  /\ X \in SUBSET files[l] /\ X # {} /\ Covered(X)
         /\ \A g \in files[l] \ X, h \in X : Apart(g, h)
<1>1. PICK f \in files[l] : X = IF l = 0 THEN OverlappingFiles(0, {f}) ELSE {f}
  BY DEF Picked
<1>2. HistOK /\ f \in File /\ \A g \in files[l] : g \in File
  BY TypeFacts
<1>3. CASE l = 0
  <2>1. UNION {f} = f /\ {f} \in SUBSET File
    BY <1>2
  <2>2. X = GetOverlappingInputs(0, FirstKey(f), LastKey(f))
    BY <1>1, <1>3, <2>1, HullFacts
  <2>3. FirstKey(f) \in Nat /\ LastKey(f) \in Nat
    BY <1>2, KeyRange
  <2>4. Overlaps(f, FirstKey(f), LastKey(f))
    <3>1. FirstKey(f) <= LastKey(f)
      <4>1. PICK a \in f : KeyOf(a) = FirstKey(f)
        BY <1>2, KeyRange
      <4> QED
        BY <1>2, <4>1, KeyRange
    <3> QED
      BY <3>1 DEF Overlaps
  <2>5. X \in SUBSET files[0] /\ f \in X
    BY <1>3, <2>2, <2>4, LeastClosed DEF ClosedUp
  <2>6. Covered(X \cup {})
    <3>1. \A x \in Key : FirstKey(f) <= x /\ x <= LastKey(f) => \E g \in X \cup {} : Reaches(g, x)
      BY <1>2, <2>5, RangeReached
    <3> QED
      BY <1>3, <2>2, <2>3, <3>1, LeastCovered
  <2>7. X \cup {} = X
    OBVIOUS
  <2>8. \A g \in files[0] \ X, h \in X : Apart(g, h)
    BY <2>2, Level0LeftOut DEF Apart, Left
  <2> QED
    BY <1>3, <2>5, <2>6, <2>7, <2>8
<1>4. CASE l # 0
  <2>1. X = {f} /\ UNION X = f
    BY <1>1, <1>4
  <2>2. Covered(X)
    BY <2>1 DEF Covered, Reaches
  <2>3. \A g \in files[l] \ X : Apart(g, f)
    BY <1>4, <2>1 DEF FilesApart
  <2> QED
    BY <2>1, <2>2, <2>3
<1> QED
  BY <1>3, <1>4


\* Files without gaps, and what overlaps their range, have none.
LEMMA CoveredGrows ==
  ASSUME TypeOK, NEW l \in Level, NEW X \in SUBSET File, X # {}, Covered(X),
         NEW R, R = OverlappingFiles(l, X), NEW T \in SUBSET X, X \subseteq R \cup T
  PROVE  Covered(R \cup T)
<1> DEFINE U == UNION X
<1>1. HistOK /\ U \in File /\ R = GetOverlappingInputs(l, FirstKey(U), LastKey(U))
  BY HullFacts, TypeFacts
<1>2. \A e \in UNION T : e \in U
  OBVIOUS
<1>3. Covered(X) <=> \A a, b \in U : \A x \in Key :
                       KeyOf(a) <= x /\ x <= KeyOf(b) => \E f \in X : Reaches(f, x)
  BY DEF Covered
<1> HIDE DEF U
<1>4. FirstKey(U) \in Nat /\ LastKey(U) \in Nat
  BY <1>1, KeyRange
<1>5. \A e \in UNION T : FirstKey(U) <= KeyOf(e) /\ KeyOf(e) <= LastKey(U)
  BY <1>1, <1>2, KeyRange
<1>6. PICK a \in U, b \in U : KeyOf(a) = FirstKey(U) /\ KeyOf(b) = LastKey(U)
  BY <1>1, KeyRange
<1>7. \A x \in Key : FirstKey(U) <= x /\ x <= LastKey(U) => \E f \in R \cup T : Reaches(f, x)
  BY <1>3, <1>6
<1>8. T \in SUBSET File
  OBVIOUS
<1> QED
  BY <1>1, <1>4, <1>5, <1>7, <1>8, LeastCovered

\* A file is among those its own range overlaps, at its level.
LEMMA OverlapsItself ==
  ASSUME TypeOK, NEW l \in Level, NEW X \in SUBSET File, NEW f \in files[l], f \in X
  PROVE  f \in OverlappingFiles(l, X)
<1> DEFINE U == UNION X
<1>1. HistOK /\ f \in File /\ f \subseteq U
  BY TypeFacts
<1>2. U \in File /\ OverlappingFiles(l, X) = GetOverlappingInputs(l, FirstKey(U), LastKey(U))
  BY HullFacts
<1> HIDE DEF U
<1>3. PICK a \in f : a \in U
  BY <1>1 DEF File
<1>4. FirstKey(U) <= KeyOf(a) /\ KeyOf(a) <= LastKey(U) /\ FirstKey(U) \in Nat /\ LastKey(U) \in Nat
  BY <1>1, <1>2, <1>3, KeyRange
<1>5. Overlaps(f, FirstKey(U), LastKey(U))
  BY <1>1, <1>4, OverlapsFacts
<1> QED
  BY <1>2, <1>5, LeastClosed DEF ClosedUp

\* Both choices of SetupOtherInputs are good: the larger one has, for it brings
\* in no more files of the next level, the same files there.
LEMMA SetupIsGood ==
  ASSUME TypeOK, FilesApart, NEW l \in 0..(NumLevels - 2), NEW in0 \in Picked(l),
         NEW in \in SetupOtherInputs(l, in0)
  PROVE  GoodInputs(l, in[1], in[2])
<1> DEFINE in1 == OverlappingFiles(l + 1, in0)
           more0 == OverlappingFiles(l, in0 \cup in1)
           more1 == OverlappingFiles(l + 1, more0)
<1>1. l \in Level /\ l + 1 \in Level /\ l + 1 # 0
  BY LevelFacts
<1>2. /\ in0 \in SUBSET files[l] /\ in0 # {} /\ Covered(in0)
      /\ \A g \in files[l] \ in0, f \in in0 : Apart(g, f)
  BY <1>1, PickedFacts
<1>3. files[l] \in SUBSET File /\ files[l + 1] \in SUBSET File /\ IsFiniteSet(files[l + 1])
  BY <1>1, TypeFacts
<1>4. /\ in1 \in SUBSET files[l + 1] /\ \A f \in files[l + 1] : f \in in1 <=> ~Apart(f, UNION in0)
      /\ \A g \in files[l + 1] \ in1 : Apart(g, UNION (in0 \cup in1))
  <2>1. in0 \in SUBSET files[l] /\ in0 # {}
    BY <1>2
  <2>2. BringsIn(l, in0, in1)
    BY <2>1, NextLevelInputs
  <2> HIDE DEF in1
  <2> QED
    BY <2>2 DEF BringsIn
<1>5. Covered(in0 \cup in1)
  <2>1. in0 \in SUBSET File /\ in0 \in SUBSET in0 /\ in0 \subseteq in1 \cup in0
    BY <1>2, <1>3
  <2> HIDE DEF in1
  <2>2. Covered(in1 \cup in0)
    BY <1>1, <1>2, <2>1, CoveredGrows DEF in1
  <2>3. in1 \cup in0 = in0 \cup in1
    OBVIOUS
  <2> QED
    BY <2>2, <2>3
<1>6. CASE in = <<in0, in1>>
  <2>1. in[1] = in0 /\ in[2] = in1
    BY <1>6
  <2> QED
    BY <1>2, <1>4, <1>5, <2>1 DEF GoodInputs
<1>7. CASE in = <<more0, more1>> /\ Cardinality(more1) = Cardinality(in1)
  <2>1. in[1] = more0 /\ in[2] = more1
    BY <1>7
  <2> DEFINE X == in0 \cup in1
  <2>2. X \in SUBSET File /\ X # {} /\ Covered(X)
    BY <1>2, <1>3, <1>4, <1>5
  <2>3. more0 = GetOverlappingInputs(l, FirstKey(UNION X), LastKey(UNION X))
    BY <2>2, HullFacts
  <2>4. more0 \in SUBSET files[l]
    BY <2>3, LeastClosed
  <2>5. in0 \subseteq more0
    <3>1. \A f \in in0 : f \in files[l] /\ f \in X
      BY <1>2
    <3> QED
      BY <1>1, <2>2, <3>1, OverlapsItself
  <2>6. more0 # {}
    BY <1>2, <2>5
  <2>7. /\ more1 \in SUBSET files[l + 1]
        /\ \A f \in files[l + 1] : f \in more1 <=> ~Apart(f, UNION more0)
        /\ \A g \in files[l + 1] \ more1 : Apart(g, UNION (more0 \cup more1))
    <3> HIDE DEF more0
    <3>1. BringsIn(l, more0, more1)
      BY <2>4, <2>6, NextLevelInputs
    <3> HIDE DEF more1
    <3> QED
      BY <3>1 DEF BringsIn
  <2>8. in1 \subseteq more1
    <3>1. \A f : Apart(f, UNION more0) => Apart(f, UNION in0)
      BY <2>5 DEF Apart, Left
    <3> QED
      BY <1>4, <2>7, <3>1
  <2>9. in1 = more1
    <3> HIDE DEF in1, more1
    <3>1. IsFiniteSet(more1)
      BY <1>3, <2>7, FS_Subset
    <3> QED
      BY <1>7, <2>8, <3>1, FS_Subset
  <2>10. Covered(more0 \cup in1)
    <3>1. in1 \in SUBSET X /\ X \subseteq more0 \cup in1
      BY <2>5
    <3> HIDE DEF in1
    <3> QED
      BY <1>1, <2>2, <3>1, CoveredGrows
  <2>11. \A g \in files[l] \ more0, f \in more0 : Apart(g, f)
    <3>1. CASE l = 0
      BY <2>3, <3>1, Level0LeftOut DEF Apart, Left
    <3>2. CASE l # 0
      BY <1>1, <2>4, <3>2 DEF FilesApart
    <3> QED
      BY <3>1, <3>2
  <2> QED
    BY <2>1, <2>4, <2>6, <2>7, <2>9, <2>10, <2>11 DEF GoodInputs
<1> QED
  BY <1>6, <1>7 DEF SetupOtherInputs


-----------------------------------------------------------------------------
(* Types                                                                   *)

\* Every entry is in one file.
OneFile ==
  \A l, m \in Level : \A f \in files[l], g \in files[m] : (l # m \/ f # g) => f \cap g = {}

\* The inputs of a compaction stay where they are until it is done.
CompType ==
  comp.on =>
    /\ comp.level \in 0..(NumLevels - 2)
    /\ comp.in0 \subseteq files[comp.level] /\ comp.in1 \subseteq files[comp.level + 1]

TypeInv == TypeOK /\ CompType

\* The type invariant in these words.
LEMMA TypeParts ==
  TypeOK <=> /\ HistOK /\ files \in [Level -> SUBSET File] /\ OneFile
             /\ mem \subseteq Entry /\ imm \subseteq Entry /\ mem \cap imm = {}
             /\ snapshots \subseteq 0..last
             /\ \A l \in Level : \A f \in files[l] : f \cap (mem \cup imm) = {}
BY DEF TypeOK, HistOK, File, Entry, OneFile

\* Versions: a table is added, or files make place for others.
Added(m, f) ==
  /\ m \in Level
  /\ files' = [j \in Level |-> IF j = m THEN files[j] \cup {f} ELSE files[j]]

Replaced(l, X, Y, Z) ==
  /\ l \in Level /\ l + 1 \in Level /\ l # l + 1 /\ X \subseteq files[l] /\ Y \subseteq files[l + 1]
  /\ files' = [j \in Level |-> IF j = l THEN files[j] \ X
                               ELSE IF j = l + 1 THEN (files[j] \ Y) \cup Z ELSE files[j]]

\* The output files of a compaction are the classes of an equivalence.
LEMMA OutputsFacts ==
  ASSUME NEW kept \in SUBSET Entry, NEW out \in Outputs(kept)
  PROVE  /\ out \in SUBSET File /\ UNION out = kept
         /\ \A f, g \in out : f = g \/ f \cap g = {}
<1>1. PICK C \in SUBSET {e \in kept : MayEnd(e, kept)} :
        out = {{e \in kept : \A c \in C : Before(c, e) <=> Before(c, f)} : f \in kept}
  BY DEF Outputs
<1> DEFINE Class(f) == {e \in kept : \A c \in C : Before(c, e) <=> Before(c, f)}
<1>2. out = {Class(f) : f \in kept} /\ \A f \in kept : f \in Class(f) /\ Class(f) \subseteq kept
  BY <1>1
<1>3. \A e, f, g : e \in Class(f) /\ e \in Class(g) => Class(f) = Class(g)
  OBVIOUS
<1> HIDE DEF Class
<1>4. out \in SUBSET File
  BY <1>2 DEF File
<1>5. UNION out = kept
  BY <1>2
<1>6. \A f, g \in out : f = g \/ f \cap g = {}
  BY <1>2, <1>3
<1> QED
  BY <1>4, <1>5, <1>6

\* A version in which files make place for others with no other entries.
LEMMA ReplacedTypes ==
  ASSUME TypeOK, NEW l, NEW X, NEW Y, NEW Z \in SUBSET File, Replaced(l, X, Y, Z),
         UNION Z \subseteq UNION (X \cup Y), \A f, g \in Z : f = g \/ f \cap g = {},
         UNCHANGED <<hist, mem, imm, snapshots>>
  PROVE  TypeOK'
<1>1. /\ HistOK /\ files \in [Level -> SUBSET File] /\ OneFile
      /\ \A j \in Level : \A f \in files[j] : f \cap (mem \cup imm) = {}
  BY TypeParts
<1>2. /\ l \in Level /\ l + 1 \in Level /\ l # l + 1
      /\ X \subseteq files[l] /\ Y \subseteq files[l + 1]
  BY DEF Replaced
<1>3. \A j \in Level : files'[j] = IF j = l THEN files[j] \ X
                               ELSE IF j = l + 1 THEN (files[j] \ Y) \cup Z ELSE files[j]
  BY DEF Replaced
<1>3a. files'[l] = files[l] \ X /\ files'[l + 1] = (files[l + 1] \ Y) \cup Z
  BY <1>2, <1>3
<1>3b. \A j \in Level : j # l /\ j # l + 1 => files'[j] = files[j]
  BY <1>3
<1>4. files' \in [Level -> SUBSET File]
  <2>1. ASSUME NEW j \in Level PROVE files'[j] \in SUBSET File
    <3>1. files[j] \in SUBSET File
      BY <1>1
    <3>2. CASE j = l
      BY <1>3a, <3>1, <3>2
    <3>3. CASE j = l + 1
      BY <1>3a, <3>1, <3>3
    <3>4. CASE j # l /\ j # l + 1
      BY <1>3b, <3>1, <3>4
    <3> QED
      BY <3>2, <3>3, <3>4
  <2>2. files' = [j \in Level |-> files'[j]]
    BY DEF Replaced
  <2> QED
    BY <2>1, <2>2
\* An entry of an output was in an input.
<1>5. ASSUME NEW z \in Z, NEW e \in z
      PROVE  (\E x \in X : e \in x) \/ (\E y \in Y : e \in y)
  <2>1. e \in UNION (X \cup Y)
    OBVIOUS
  <2> QED
    BY <2>1
\* A file that stays has no entry of an output.
<1>6. ASSUME NEW j \in Level, NEW f \in files[j], f \notin X \/ j # l, f \notin Y \/ j # l + 1,
             NEW z \in Z
      PROVE  f \cap z = {}
  <2>1. SUFFICES ASSUME NEW e \in z, e \in f PROVE FALSE
    OBVIOUS
  <2>2. CASE \E x \in X : e \in x
    BY <1>1, <1>2, <1>6, <2>1, <2>2 DEF OneFile
  <2>3. CASE \E y \in Y : e \in y
    BY <1>1, <1>2, <1>6, <2>1, <2>3 DEF OneFile
  <2> QED
    BY <1>5, <2>2, <2>3
<1>7. ASSUME NEW j \in Level, NEW f \in files'[j]
      PROVE  \/ f \in files[j] /\ (f \notin X \/ j # l) /\ (f \notin Y \/ j # l + 1)
             \/ f \in Z /\ j = l + 1
  <2>1. CASE j = l
    BY <1>2, <1>7, <1>3a, <2>1
  <2>2. CASE j = l + 1
    BY <1>2, <1>7, <1>3a, <2>2
  <2>3. CASE j # l /\ j # l + 1
    BY <1>7, <1>3b, <2>3
  <2> QED
    BY <2>1, <2>2, <2>3
<1>8. OneFile'
  <2>1. SUFFICES ASSUME NEW i \in Level, NEW j \in Level, NEW f \in files'[i], NEW g \in files'[j],
                        i # j \/ f # g
                 PROVE  f \cap g = {}
    BY DEF OneFile, Level
  <2>2. CASE f \in Z /\ i = l + 1 /\ g \in Z /\ j = l + 1
    BY <2>1, <2>2
  <2>3. CASE f \in files[i] /\ (f \notin X \/ i # l) /\ (f \notin Y \/ i # l + 1)
    <3>1. CASE g \in Z
      BY <1>6, <2>3, <3>1
    <3>2. CASE g \in files[j]
      BY <1>1, <2>1, <2>3, <3>2 DEF OneFile
    <3> QED
      BY <1>7, <3>1, <3>2
  <2>4. CASE f \in Z /\ g \in files[j] /\ (g \notin X \/ j # l) /\ (g \notin Y \/ j # l + 1)
    <3>1. g \cap f = {}
      BY <1>6, <2>4
    <3> QED
      BY <3>1
  <2> QED
    BY <1>7, <2>2, <2>3, <2>4
<1>9. ASSUME NEW j \in Level, NEW f \in files'[j] PROVE f \cap (mem \cup imm) = {}
  <2>1. CASE f \in files[j]
    BY <1>1, <2>1
  <2>2. CASE f \in Z
    <3>1. SUFFICES ASSUME NEW e \in f, e \in mem \cup imm PROVE FALSE
      OBVIOUS
    <3>2. (\E x \in X : e \in x) \/ (\E y \in Y : e \in y)
      BY <1>5, <2>2
    <3> QED
      BY <1>1, <1>2, <3>1, <3>2
  <2> QED
    BY <1>7, <2>1, <2>2
<1>10. HistOK' /\ File' = File /\ Entry' = Entry /\ last' = last
  BY <1>1 DEF HistOK, File, Entry, last
<1>11. mem' = mem /\ imm' = imm /\ snapshots' = snapshots
  OBVIOUS
<1> QED
  BY <1>4, <1>8, <1>9, <1>10, <1>11, TypeParts DEF TypeOK, HistOK, File, Entry, OneFile, Level


\* Whatever a compaction chooses are files of its two levels.
LEMMA InputsAreFiles ==
  ASSUME NEW l, NEW in0 \in Picked(l) \cup Manual(l), NEW in \in SetupOtherInputs(l, in0)
  PROVE  in[1] \in SUBSET files[l] /\ in[2] \in SUBSET files[l + 1]
<1>1. \A m, fs : OverlappingFiles(m, fs) \in SUBSET files[m]
  BY LeastClosed DEF OverlappingFiles
<1>2. in0 \in SUBSET files[l]
  <2>1. CASE in0 \in Picked(l)
    <3>1. PICK f \in files[l] : in0 = IF l = 0 THEN OverlappingFiles(0, {f}) ELSE {f}
      BY <2>1 DEF Picked
    <3>2. CASE l = 0
      BY <1>1, <3>1, <3>2
    <3>3. CASE l # 0
      BY <3>1, <3>3
    <3> QED
      BY <3>2, <3>3
  <2>2. CASE in0 \in Manual(l)
    <3> DEFINE found == {GetOverlappingInputs(l, lo, hi) : lo \in Key, hi \in Key}
    <3>1. \A fs \in found : fs \in SUBSET files[l]
      BY LeastClosed
    <3>2. in0 \in found \/ \E fs \in found : in0 \in SUBSET fs
      BY <2>2 DEF Manual
    <3> HIDE DEF found
    <3> QED
      BY <3>1, <3>2
  <2> QED
    BY <2>1, <2>2
<1> DEFINE in1 == OverlappingFiles(l + 1, in0)
           more0 == OverlappingFiles(l, in0 \cup in1)
           more1 == OverlappingFiles(l + 1, more0)
<1>3. in = <<in0, in1>> \/ in = <<more0, more1>>
  BY DEF SetupOtherInputs
<1>4. in1 \in SUBSET files[l + 1] /\ more0 \in SUBSET files[l] /\ more1 \in SUBSET files[l + 1]
  BY <1>1
<1> HIDE DEF in1, more0, more1
<1> QED
  BY <1>2, <1>3, <1>4

\* The steps that change the version, in these words.
LEMMA FlushAdds ==
  ASSUME TypeOK, Flush
  PROVE  \E m \in PickLevelForMemTableOutput(FirstKey(imm), LastKey(imm)) : Added(m, imm)
<1>1. PICK m \in PickLevelForMemTableOutput(FirstKey(imm), LastKey(imm)) :
        files' = [files EXCEPT ![m] = @ \cup {imm}]
  BY DEF Flush
<1>2. m \in Level
  BY LevelFacts DEF PickLevelForMemTableOutput
<1>3. files \in [Level -> SUBSET File]
  BY TypeParts
<1>4. files' = [j \in Level |-> IF j = m THEN files[j] \cup {imm} ELSE files[j]]
  BY <1>1, <1>2, <1>3
<1> QED
  BY <1>2, <1>4 DEF Added

\* A move puts its file a level lower.
LEMMA MoveReplaces ==
  ASSUME TypeOK, NEW l \in 0..(NumLevels - 2), TrivialMove(l)
  PROVE  \E in0 \in Picked(l) : \E in \in SetupOtherInputs(l, in0) :
           Cardinality(in[1]) = 1 /\ in[2] = {} /\ Replaced(l, in[1], {}, in[1])
<1>0. PICK in0 \in Picked(l) : \E in \in SetupOtherInputs(l, in0) :
        /\ Cardinality(in[1]) = 1 /\ in[2] = {}
        /\ files' = [files EXCEPT ![l] = @ \ in[1], ![l + 1] = @ \cup in[1]]
  BY DEF TrivialMove
<1>1. PICK in \in SetupOtherInputs(l, in0) :
        /\ Cardinality(in[1]) = 1 /\ in[2] = {}
        /\ files' = [files EXCEPT ![l] = @ \ in[1], ![l + 1] = @ \cup in[1]]
  BY <1>0
<1>2. l \in Level /\ l + 1 \in Level /\ l # l + 1
  BY LevelFacts
<1>3. files \in [Level -> SUBSET File]
  BY TypeParts
<1>4. in[1] \in SUBSET files[l]
  BY InputsAreFiles
<1>5a. PICK X : X = in[1]
  OBVIOUS
<1>5. files' = [files EXCEPT ![l] = @ \ X, ![l + 1] = @ \cup X]
  BY <1>1, <1>5a
<1>6. files' = [j \in Level |-> IF j = l THEN files[j] \ X
                                ELSE IF j = l + 1 THEN files[j] \cup X ELSE files[j]]
  BY <1>2, <1>3, <1>5
<1>7. \A S : (S \ {}) \cup X = S \cup X
  OBVIOUS
<1>8. files' = [j \in Level |-> IF j = l THEN files[j] \ X
                                ELSE IF j = l + 1 THEN (files[j] \ {}) \cup X ELSE files[j]]
  BY <1>6, <1>7
<1>9. Replaced(l, X, {}, X)
  BY <1>2, <1>4, <1>5a, <1>8 DEF Replaced
<1> QED
  BY <1>1, <1>5a, <1>9

\* A compaction that is done puts its outputs in the place of its inputs.
LEMMA DoneReplaces ==
  ASSUME TypeInv, CompactDone
  PROVE  \E out \in Outputs(Kept(UNION (comp.in0 \cup comp.in1))) :
           Replaced(comp.level, comp.in0, comp.in1, out)
<1>1. comp.on
  BY DEF CompactDone
<1> DEFINE l == comp.level
           X == comp.in0
           Y == comp.in1
<1>2. PICK out \in Outputs(Kept(UNION (X \cup Y))) :
        files' = [files EXCEPT ![l] = @ \ X, ![l + 1] = (@ \ Y) \cup out]
  BY DEF CompactDone
<1>3. l \in 0..(NumLevels - 2) /\ X \subseteq files[l] /\ Y \subseteq files[l + 1]
  BY <1>1 DEF TypeInv, CompType
<1>4. l \in Level /\ l + 1 \in Level /\ l # l + 1
  BY <1>3, LevelFacts
<1>5. files \in [Level -> SUBSET File]
  BY TypeParts DEF TypeInv
<1> HIDE DEF l, X, Y
<1>6. files' = [j \in Level |-> IF j = l THEN files[j] \ X
                                ELSE IF j = l + 1 THEN (files[j] \ Y) \cup out ELSE files[j]]
  BY <1>2, <1>4, <1>5
<1>7. Replaced(l, X, Y, out)
  BY <1>3, <1>4, <1>6 DEF Replaced
<1> QED
  BY <1>2, <1>7 DEF l, X, Y


\* Types hold at the start.
LEMMA TypeInit == Init => TypeInv
<1>1. ASSUME Init PROVE TypeInv
  <2>1. last = 0 /\ HistOK
    BY <1>1 DEF Init, last, HistOK
  <2>2. files = [l \in Level |-> {}] /\ mem = {} /\ imm = {} /\ snapshots = {} /\ ~comp.on
    BY <1>1 DEF Init, NoComp
  <2>3. files \in [Level -> SUBSET File]
    BY <2>2
  <2>4. OneFile
    BY <2>2 DEF OneFile
  <2> QED
    BY <2>1, <2>2, <2>3, <2>4, TypeParts DEF TypeInv, CompType
<1> QED
  BY <1>1

\* A write: the history grows by one, which no file has yet.
LEMMA WriteFacts ==
  ASSUME TypeOK, NEW k \in Key, NEW del \in BOOLEAN, Write(k, del)
  PROVE  /\ HistOK' /\ last' = last + 1 /\ last + 1 \notin Entry /\ Entry' = Entry \cup {last + 1}
         /\ hist'[last + 1] = [key |-> k, del |-> del]
         /\ \A e \in Entry : hist'[e] = hist[e]
         /\ mem' = mem \cup {last + 1}
<1>1. HistOK /\ last \in Nat
  BY TypeFacts
<1> DEFINE Rec == [key : Key, del : BOOLEAN]
           r == [key |-> k, del |-> del]
<1>2. hist \in Seq(Rec) /\ r \in Rec /\ hist' = Append(hist, r)
  BY <1>1 DEF HistOK, Write
<1> HIDE DEF Rec, r
<1>3. hist' \in Seq(Rec) /\ Len(hist') = Len(hist) + 1
  BY <1>2
<1>4. hist'[Len(hist) + 1] = r
  BY <1>2
<1>5. \A e \in 1..Len(hist) : hist'[e] = hist[e]
  BY <1>2
<1>6. last = Len(hist) /\ last' = Len(hist')
  BY DEF last
<1>7. HistOK'
  BY <1>3 DEF HistOK, Rec
<1>8. last' = last + 1
  BY <1>3, <1>6
<1>9. last + 1 \notin Entry /\ Entry' = Entry \cup {last + 1}
  BY <1>1, <1>8 DEF Entry
<1>10. hist'[last + 1] = [key |-> k, del |-> del]
  BY <1>4, <1>6 DEF r
<1>11. mem' = mem \cup {last + 1}
  BY DEF Write
<1> QED
  BY <1>5, <1>6, <1>7, <1>8, <1>9, <1>10, <1>11 DEF Entry

\* Types, and the inputs of a compaction, are kept by every step.
LEMMA TypeStep == TypeInv /\ [Next]_vars => TypeInv'
<1> SUFFICES ASSUME TypeInv, [Next]_vars PROVE TypeInv'
  OBVIOUS
<1>0. TypeOK /\ CompType
  BY DEF TypeInv
<1>t. /\ HistOK /\ files \in [Level -> SUBSET File] /\ OneFile
      /\ mem \subseteq Entry /\ imm \subseteq Entry /\ mem \cap imm = {}
      /\ snapshots \subseteq 0..last
      /\ \A l \in Level : \A f \in files[l] : f \cap (mem \cup imm) = {}
  BY <1>0, TypeParts
<1>n. last \in Nat
  BY <1>0, TypeFacts
\* What a step that leaves the history, or the version, alone leaves.
<1>h. ASSUME hist' = hist PROVE HistOK' /\ last' = last /\ Entry' = Entry /\ File' = File
  BY <1>t, <1>h DEF HistOK, last, Entry, File
<1>f. ASSUME files' = files PROVE OneFile' /\ (comp' = comp => CompType')
  BY <1>0, <1>t, <1>f DEF OneFile, CompType, Level
<1>1. CASE UNCHANGED vars
  BY <1>0, <1>1 DEF vars, TypeInv, TypeOK, CompType, last, Level
<1>2. ASSUME NEW k \in Key, NEW del \in BOOLEAN, Write(k, del) PROVE TypeInv'
  <2>1. /\ HistOK' /\ last' = last + 1 /\ last + 1 \notin Entry /\ Entry' = Entry \cup {last + 1}
        /\ mem' = mem \cup {last + 1}
    BY <1>0, <1>2, WriteFacts
  <2>2. files' = files /\ imm' = imm /\ snapshots' = snapshots /\ comp' = comp
    BY <1>2 DEF Write
  <2>3. \A l \in Level : \A f \in files[l] : f \subseteq Entry
    BY <1>t DEF File
  <2>4. File \subseteq File'
    BY <2>1 DEF File
  <2>5. files' \in [Level -> SUBSET File']
    BY <1>t, <2>2, <2>4
  <2>6. snapshots' \subseteq 0..last'
    BY <1>t, <1>n, <2>1, <2>2
  <2>7. mem' \subseteq Entry' /\ imm' \subseteq Entry' /\ mem' \cap imm' = {}
    BY <1>t, <2>1, <2>2
  <2>8. \A l \in Level : \A f \in files'[l] : f \cap (mem' \cup imm') = {}
    BY <1>t, <2>1, <2>2, <2>3
  <2>9. OneFile' /\ CompType'
    BY <1>f, <2>2
  <2>10. Level' = Level
    BY DEF Level
  <2> QED
    BY <2>1, <2>5, <2>6, <2>7, <2>8, <2>9, <2>10, TypeParts DEF TypeInv, TypeOK, HistOK, File, Entry, OneFile
<1>3. CASE SwitchMemTable
  <2>1. hist' = hist /\ files' = files /\ snapshots' = snapshots /\ comp' = comp
        /\ imm' = mem /\ mem' = {}
    BY <1>3 DEF SwitchMemTable
  <2>2. \A l \in Level : \A f \in files[l] : f \cap (mem' \cup imm') = {}
    BY <1>t, <2>1
  <2> QED
    BY <1>t, <1>h, <1>f, <2>1, <2>2 DEF TypeInv, TypeOK, HistOK, File, Entry, OneFile, Level
<1>4. CASE GetSnapshot \/ \E s \in snapshots : ReleaseSnapshot(s)
  <2>1. hist' = hist /\ files' = files /\ mem' = mem /\ comp' = comp /\ imm' = imm
    BY <1>4 DEF GetSnapshot, ReleaseSnapshot
  <2>2. snapshots' \subseteq 0..last
    <3>1. last \in 0..last
      BY <1>n
    <3>2. CASE GetSnapshot
      <4>1. snapshots' = snapshots \cup {last}
        BY <3>2 DEF GetSnapshot
      <4> QED
        BY <1>t, <3>1, <4>1
    <3>3. CASE \E s \in snapshots : ReleaseSnapshot(s)
      <4>1. snapshots' \subseteq snapshots
        BY <3>3 DEF ReleaseSnapshot
      <4> QED
        BY <1>t, <4>1
    <3> QED
      BY <1>4, <3>2, <3>3
  <2> QED
    BY <1>t, <1>h, <1>f, <2>1, <2>2 DEF TypeInv, TypeOK, HistOK, File, Entry, OneFile, Level
<1>5. CASE Flush
  <2>1. PICK m : Added(m, imm)
    BY <1>0, <1>5, FlushAdds
  <2>2. imm # {} /\ imm' = {} /\ hist' = hist /\ mem' = mem /\ snapshots' = snapshots /\ comp' = comp
    BY <1>5 DEF Flush
  <2>3. m \in Level /\ imm \in File
    BY <1>t, <2>1, <2>2 DEF Added, File
  <2>4. files' = [j \in Level |-> IF j = m THEN files[j] \cup {imm} ELSE files[j]]
    BY <2>1 DEF Added
  <2>5. files' \in [Level -> SUBSET File]
    BY <1>t, <2>3, <2>4
  <2>6. ASSUME NEW j \in Level, NEW f \in files'[j]
        PROVE  f \in files[j] \/ (j = m /\ f = imm)
    BY <2>4, <2>6
  <2>7. \A j \in Level : files[j] \subseteq files'[j]
    BY <2>4
  <2>8. OneFile'
    <3>1. SUFFICES ASSUME NEW i \in Level, NEW j \in Level, NEW f \in files'[i], NEW g \in files'[j],
                          i # j \/ f # g
                   PROVE  f \cap g = {}
      BY DEF OneFile, Level
    <3>2. f \in files[i] /\ g \in files[j] => f \cap g = {}
      BY <1>t, <3>1 DEF OneFile
    <3>3. f \in files[i] => f \cap imm = {}
      BY <1>t
    <3>4. g \in files[j] => g \cap imm = {}
      BY <1>t
    <3> QED
      BY <2>6, <3>1, <3>2, <3>3, <3>4
  <2>9. \A j \in Level : \A f \in files'[j] : f \cap (mem' \cup imm') = {}
    BY <1>t, <2>2, <2>6
  <2>10. CompType'
    <3>1. SUFFICES ASSUME comp.on
                   PROVE  /\ comp.level \in 0..(NumLevels - 2)
                          /\ comp.in0 \subseteq files'[comp.level] /\ comp.in1 \subseteq files'[comp.level + 1]
      BY <2>2 DEF CompType
    <3>2. /\ comp.level \in 0..(NumLevels - 2)
          /\ comp.in0 \subseteq files[comp.level] /\ comp.in1 \subseteq files[comp.level + 1]
      BY <1>0, <3>1 DEF CompType
    <3>3. comp.level \in Level /\ comp.level + 1 \in Level
      BY <3>2, LevelFacts
    <3> QED
      BY <2>7, <3>2, <3>3
  <2>11. TypeOK'
    BY <1>t, <1>h, <2>2, <2>5, <2>8, <2>9 DEF TypeOK, HistOK, File, Entry, OneFile, Level
  <2> QED
    BY <2>10, <2>11 DEF TypeInv
<1>6. ASSUME NEW l \in 0..(NumLevels - 2), CompactStart(l) PROVE TypeInv'
  <2>1. UNCHANGED <<hist, mem, imm, files, snapshots>>
    BY <1>6 DEF CompactStart
  <2>2. PICK in0 \in Picked(l) \cup Manual(l) : \E in \in SetupOtherInputs(l, in0) :
          comp' = [on |-> TRUE, level |-> l, in0 |-> in[1], in1 |-> in[2],
                   base |-> UNION {files[i] : i \in {j \in Level : j >= l + 2}},
                   snap |-> IF snapshots = {} THEN last ELSE Min(snapshots)]
    BY <1>6 DEF CompactStart
  <2>3. PICK in \in SetupOtherInputs(l, in0) :
          comp'.level = l /\ comp'.in0 = in[1] /\ comp'.in1 = in[2]
    BY <2>2
  <2>4. in[1] \in SUBSET files[l] /\ in[2] \in SUBSET files[l + 1]
    BY InputsAreFiles
  <2>5. CompType'
    BY <2>1, <2>3, <2>4 DEF CompType
  <2>6. TypeOK'
    BY <1>0, <2>1 DEF TypeOK, last, Level
  <2> QED
    BY <2>5, <2>6 DEF TypeInv
<1>7. ASSUME NEW l \in 0..(NumLevels - 2), TrivialMove(l) PROVE TypeInv'
  <2>1. PICK in0 \in Picked(l) : \E in \in SetupOtherInputs(l, in0) : Replaced(l, in[1], {}, in[1])
    BY <1>0, <1>7, MoveReplaces
  <2>2. PICK X : X \in SUBSET files[l] /\ Replaced(l, X, {}, X)
    BY <2>1 DEF Replaced
  <2>3. X \in SUBSET File /\ \A f, g \in X : f = g \/ f \cap g = {}
    BY <1>t, <2>2, LevelFacts DEF OneFile
  <2>4. UNCHANGED <<hist, mem, imm, snapshots>> /\ ~comp.on /\ comp' = comp
    BY <1>7 DEF TrivialMove, MayCompact
  <2>5. UNION X \subseteq UNION (X \cup {})
    OBVIOUS
  <2>6. TypeOK'
    BY <1>0, <2>2, <2>3, <2>4, <2>5, ReplacedTypes
  <2> QED
    BY <2>4, <2>6 DEF TypeInv, CompType
<1>8. CASE CompactDone
  <2> DEFINE Y == UNION (comp.in0 \cup comp.in1)
  <2>1. PICK out \in Outputs(Kept(Y)) : Replaced(comp.level, comp.in0, comp.in1, out)
    BY <1>8, DoneReplaces
  <2>2. comp.on /\ comp' = NoComp /\ UNCHANGED <<hist, mem, imm, snapshots>>
    BY <1>8 DEF CompactDone
  <2>3. Y \in SUBSET Entry
    <3>1. comp.in0 \subseteq files[comp.level] /\ comp.in1 \subseteq files[comp.level + 1]
      BY <2>1 DEF Replaced
    <3>2. comp.level \in Level /\ comp.level + 1 \in Level
      BY <2>1 DEF Replaced
    <3>3. comp.in0 \in SUBSET File /\ comp.in1 \in SUBSET File
      BY <1>t, <3>1, <3>2
    <3> QED
      BY <3>3 DEF File
  <2>4. Kept(Y) \subseteq Y
    BY DEF Kept
  <2> HIDE DEF Y
  <2>5. Kept(Y) \in SUBSET Entry
    BY <2>3, <2>4
  <2>6. out \in SUBSET File /\ UNION out = Kept(Y) /\ \A f, g \in out : f = g \/ f \cap g = {}
    BY <2>5, OutputsFacts
  <2>7. UNION out \subseteq UNION (comp.in0 \cup comp.in1)
    BY <2>4, <2>6 DEF Y
  <2>8. TypeOK'
    BY <1>0, <2>1, <2>2, <2>6, <2>7, ReplacedTypes
  <2> QED
    BY <2>2, <2>8 DEF TypeInv, CompType, NoComp
<1> QED
  BY <1>1, <1>2, <1>3, <1>4, <1>5, <1>6, <1>7, <1>8 DEF Next

\* Every variable keeps its type and every entry is in one place, whatever is
\* flushed, moved or compacted, by hand or not.
THEOREM LevelsTypes == Spec => []TypeOK
<1>1. TypeInv => TypeOK
  BY DEF TypeInv
<1> QED
  BY TypeInit, TypeStep, <1>1, PTL DEF Spec


-----------------------------------------------------------------------------
(* The order of the levels                                                 *)

\* No manual compaction; and either no output ends between two entries of a
\* key, or no compaction leaves two, as no snapshot is held.
Automatic == ManualFiles = 0 /\ (SplitKeys => MaxSnapshots = 0)

NoSnapshots == MaxSnapshots = 0 => snapshots = {}

\* The entries of the compaction's inputs.
Ins == UNION (comp.in0 \cup comp.in1)
Deep(l) == UNION {files[i] : i \in {j \in Level : j >= l + 2}}

\* What is older than an input entry is an input or lies deeper.
OlderInside(I, D) ==
  \A e \in I, d \in Everything : (KeyOf(d) = KeyOf(e) /\ d < e) => d \in I \/ d \in D

\* What a compaction relies on until it is done, while tables are flushed and
\* snapshots come and go.
Compacting ==
  comp.on =>
    /\ comp.base \subseteq Deep(comp.level)
    /\ comp.snap \in Nat /\ \A s \in Held : comp.snap <= s
    /\ Covered(comp.in0 \cup comp.in1)
    /\ \A g \in files[comp.level + 1] \ comp.in1 : Apart(g, Ins)
    /\ OlderInside(Ins, UNION comp.base)
    /\ SplitKeys => \A e \in Ins : e <= comp.snap

Order == Ages /\ FilesApart /\ NewerAbove
LevelsInv == TypeInv /\ NoSnapshots /\ Order /\ Compacting /\ Complete

\* The history keeps what it has.
HistKept == \A e \in Entry : hist'[e] = hist[e]

\* So keys, and what is said of files by their keys, stay.
LEMMA KeysKept ==
  ASSUME HistKept
  PROVE  /\ \A e \in Entry : KeyOf(e)' = KeyOf(e)
         /\ \A f, g \in SUBSET Entry : Apart(f, g)' <=> Apart(f, g)
         /\ \A S \in SUBSET SUBSET Entry : Covered(S)' <=> Covered(S)
<1>1. \A e \in Entry : KeyOf(e)' = KeyOf(e)
  BY DEF HistKept, KeyOf
<1>2. ASSUME NEW f \in SUBSET Entry, NEW g \in SUBSET Entry PROVE Left(f, g)' <=> Left(f, g)
  BY <1>1 DEF Left
<1>3. ASSUME NEW f \in SUBSET Entry, NEW g \in SUBSET Entry PROVE Apart(f, g)' <=> Apart(f, g)
  BY <1>2 DEF Apart
<1>4. ASSUME NEW S \in SUBSET SUBSET Entry PROVE Covered(S)' <=> Covered(S)
  <2>1. \A f \in S : \A x : Reaches(f, x)' <=> Reaches(f, x)
    BY <1>1 DEF Reaches
  <2>2. \A a \in UNION S : KeyOf(a)' = KeyOf(a)
    BY <1>1
  <2> QED
    BY <2>1, <2>2 DEF Covered
<1> QED
  BY <1>1, <1>3, <1>4

\* The files a compaction reads are files.
LEMMA InsFacts ==
  ASSUME TypeInv, comp.on
  PROVE  /\ comp.level \in Level /\ comp.level + 1 \in Level \ {0} /\ comp.level \in Nat
         /\ comp.in0 \subseteq files[comp.level] /\ comp.in1 \subseteq files[comp.level + 1]
         /\ comp.in0 \cup comp.in1 \in SUBSET File /\ Ins \in SUBSET Entry
<1>1. /\ comp.level \in 0..(NumLevels - 2)
      /\ comp.in0 \subseteq files[comp.level] /\ comp.in1 \subseteq files[comp.level + 1]
  BY DEF TypeInv, CompType
<1>2. comp.level \in Level /\ comp.level + 1 \in Level \ {0} /\ comp.level \in Nat
  BY <1>1, LevelFacts
<1>3. files[comp.level] \in SUBSET File /\ files[comp.level + 1] \in SUBSET File
  BY <1>2, TypeFacts DEF TypeInv
<1>4. comp.in0 \cup comp.in1 \in SUBSET File
  BY <1>1, <1>3
<1>5. Ins \in SUBSET Entry
  BY <1>4 DEF Ins, File
<1> QED
  BY <1>1, <1>2, <1>4, <1>5

\* The entries of a version in which files make place for others.
LEMMA ReplacedEntries ==
  ASSUME TypeOK, NEW l, NEW X, NEW Y, NEW Z \in SUBSET File, Replaced(l, X, Y, Z),
         UNION Z \subseteq UNION (X \cup Y)
  PROVE  /\ files'[l] = files[l] \ X /\ files'[l + 1] = (files[l + 1] \ Y) \cup Z
         /\ \A j \in Level : j # l /\ j # l + 1 => files'[j] = files[j]
         /\ Filed' \subseteq Filed
         /\ \A e \in Filed' : e \in UNION (X \cup Y) => e \in UNION Z
         /\ \A e \in Filed : e \notin UNION (X \cup Y) \/ e \in UNION Z => e \in Filed'
<1>1. /\ l \in Level /\ l + 1 \in Level /\ l # l + 1
      /\ X \subseteq files[l] /\ Y \subseteq files[l + 1]
      /\ \A j \in Level : files'[j] = IF j = l THEN files[j] \ X
                                   ELSE IF j = l + 1 THEN (files[j] \ Y) \cup Z ELSE files[j]
  BY DEF Replaced
<1>2. files'[l] = files[l] \ X /\ files'[l + 1] = (files[l + 1] \ Y) \cup Z
  BY <1>1
<1>3. \A j \in Level : j # l /\ j # l + 1 => files'[j] = files[j]
  BY <1>1
<1>4. OneFile
  BY TypeParts
<1>5. \A e : e \in Filed <=> \E j \in Level : \E f \in files[j] : e \in f
  BY DEF Filed
<1>6. \A e : e \in Filed' <=> \E j \in Level : \E f \in files'[j] : e \in f
  BY DEF Filed, Level
<1>7. \A e : e \in UNION (X \cup Y) <=> (\E f \in X : e \in f) \/ (\E f \in Y : e \in f)
  OBVIOUS
<1>8. ASSUME NEW e \in Filed'
      PROVE  e \in UNION Z \/ (e \in Filed /\ e \notin UNION (X \cup Y))
  <2>0. PICK j \in Level : \E f \in files'[j] : e \in f
    BY <1>6, <1>8
  <2>1. PICK f \in files'[j] : e \in f
    BY <2>0
  <2>2. CASE f \in Z
    BY <2>1, <2>2
  <2>3. CASE f \notin Z
    <3>1. f \in files[j] /\ (f \notin X \/ j # l) /\ (f \notin Y \/ j # l + 1)
      <4>1. CASE j = l
        BY <1>1, <1>2, <2>1, <4>1
      <4>2. CASE j = l + 1
        BY <1>1, <1>2, <2>1, <2>3, <4>2
      <4>3. CASE j # l /\ j # l + 1
        BY <1>3, <2>1, <4>3
      <4> QED
        BY <4>1, <4>2, <4>3
    <3>2. \A g \in X : e \notin g
      BY <1>1, <1>4, <2>1, <3>1 DEF OneFile
    <3>3. \A g \in Y : e \notin g
      BY <1>1, <1>4, <2>1, <3>1 DEF OneFile
    <3> QED
      BY <1>5, <1>7, <2>1, <3>1, <3>2, <3>3
  <2> QED
    BY <2>2, <2>3
<1>9. UNION (X \cup Y) \subseteq Filed
  BY <1>1, <1>5, <1>7
<1>10. ASSUME NEW e \in Filed, e \notin UNION (X \cup Y) \/ e \in UNION Z PROVE e \in Filed'
  <2>1. CASE e \in UNION Z
    BY <1>1, <1>2, <1>6, <2>1
  <2>2. CASE e \notin UNION (X \cup Y)
    <3>0. PICK j \in Level : \E f \in files[j] : e \in f
      BY <1>5
    <3>1. PICK f \in files[j] : e \in f
      BY <3>0
    <3>2. f \notin X /\ f \notin Y
      BY <1>7, <2>2, <3>1
    <3>3. f \in files'[j]
      BY <1>1, <3>1, <3>2
    <3> QED
      BY <1>6, <3>1, <3>3
  <2> QED
    BY <1>10, <2>1, <2>2
<1> QED
  BY <1>2, <1>3, <1>8, <1>9, <1>10


\* Files that make place for others, apart from each other and in the range of
\* those they replace, keep the order if what is older than these lies deeper.
LEMMA ReplacedOrder ==
  ASSUME TypeOK, Order, NEW l, NEW X, NEW Y, NEW Z \in SUBSET File, Replaced(l, X, Y, Z),
         UNION Z \subseteq UNION (X \cup Y), \A f, g \in Z : f = g \/ Apart(f, g),
         \A g \in files[l + 1] \ Y : Apart(g, UNION (X \cup Y)),
         OlderInside(UNION (X \cup Y), UNION Deep(l)),
         hist' = hist, mem' = mem, imm' = imm
  PROVE  Order'
<1> DEFINE I == UNION (X \cup Y)
<1>1. /\ l \in Level /\ l + 1 \in Level /\ l # l + 1 /\ l \in Nat
      /\ X \subseteq files[l] /\ Y \subseteq files[l + 1]
  BY LevelFacts DEF Replaced
<1>2. /\ files'[l] = files[l] \ X /\ files'[l + 1] = (files[l + 1] \ Y) \cup Z
      /\ \A j \in Level : j # l /\ j # l + 1 => files'[j] = files[j]
      /\ Filed' \subseteq Filed /\ \A e \in Filed' : e \in I => e \in UNION Z
  BY ReplacedEntries
<1>3. Ages /\ FilesApart /\ NewerAbove /\ OneFile /\ HistOK
  BY TypeParts DEF Order
<1>4. /\ \A e : KeyOf(e)' = KeyOf(e)
      /\ \A f, g : Apart(f, g)' <=> Apart(f, g)
  <2>1. \A e : KeyOf(e)' = KeyOf(e)
    BY DEF KeyOf
  <2>2. \A f, g : Left(f, g)' <=> Left(f, g)
    BY <2>1 DEF Left
  <2> QED
    BY <2>1, <2>2 DEF Apart
<1>5. UNION Z \subseteq I /\ \A g \in files[l + 1] \ Y : Apart(g, I)
  OBVIOUS
<1>6. \A e : e \in I <=> (\E f \in X : e \in f) \/ (\E f \in Y : e \in f)
  OBVIOUS
<1>7. \A e : e \in UNION Deep(l) <=> \E j \in Level : j >= l + 2 /\ e \in UNION files[j]
  BY DEF Deep
<1>8. \A e \in Filed : e \in Everything
  BY TypeFacts
<1>9. Ages'
  <2>1. \A f, g \in files'[0] : f \in files[0] /\ g \in files[0]
    <3>1. CASE l = 0
      BY <1>2, <3>1
    <3>2. CASE l # 0
      <4>1. 0 \in Level /\ 0 # l /\ 0 # l + 1
        BY <1>1, <3>2, LevelFacts
      <4> QED
        BY <1>2, <4>1
    <3> QED
      BY <3>1, <3>2
  <2>2. Older(Filed', mem) /\ Older(Filed', imm)
    BY <1>2, <1>3 DEF Ages, Older
  <2> QED
    BY <1>3, <2>1, <2>2 DEF Ages, Older
<1>10. FilesApart'
  <2>1. SUFFICES ASSUME NEW j \in Level \ {0}, NEW f \in files'[j], NEW g \in files'[j], f # g
                 PROVE  Apart(f, g)
    BY <1>4 DEF FilesApart, Level
  <2>2. CASE j # l + 1
    <3>1. f \in files[j] /\ g \in files[j]
      BY <1>2, <2>1, <2>2
    <3> QED
      BY <1>3, <2>1, <3>1 DEF FilesApart
  <2>3. CASE j = l + 1
    <3>1. CASE f \in Z /\ g \in Z
      BY <2>1, <3>1
    <3>2. CASE f \in files[l + 1] \ Y /\ g \in files[l + 1] \ Y
      BY <1>3, <2>1, <2>3, <3>2 DEF FilesApart
    <3>3. CASE f \in files[l + 1] \ Y /\ g \in Z
      BY <1>5, <3>3 DEF Apart, Left
    <3>4. CASE f \in Z /\ g \in files[l + 1] \ Y
      BY <1>5, <3>4 DEF Apart, Left
    <3> QED
      BY <1>2, <2>1, <2>3, <3>1, <3>2, <3>3, <3>4
  <2> QED
    BY <2>2, <2>3
\* What is new at a level was an input, at this level or the one above.
<1>11. ASSUME NEW j \in Level, NEW e \in UNION files'[j]
       PROVE  e \in UNION files[j] \/ (j = l + 1 /\ e \in UNION X)
  <2>1. CASE j = l
    BY <1>2, <1>11, <2>1
  <2>2. CASE j = l + 1
    <3>1. PICK f \in files'[j] : e \in f
      BY <1>11
    <3>2. CASE f \in files[l + 1]
      BY <2>2, <3>1, <3>2
    <3>3. CASE f \in Z
      <4>1. e \in I
        BY <1>5, <3>1, <3>3
      <4>2. (\E x \in X : e \in x) \/ (\E y \in Y : e \in y)
        BY <1>6, <4>1
      <4> QED
        BY <1>1, <2>2, <4>2
    <3> QED
      BY <1>2, <2>2, <3>1, <3>2, <3>3
  <2>3. CASE j # l /\ j # l + 1
    BY <1>2, <1>11, <2>3
  <2> QED
    BY <2>1, <2>2, <2>3
<1>12. ASSUME NEW e, NEW i \in Level, NEW j \in Level, i # j, e \in UNION files[i], e \in UNION files[j]
       PROVE  FALSE
  BY <1>3, <1>12 DEF OneFile
<1>13. NewerAbove'
  <2>1. SUFFICES ASSUME NEW i \in Level, NEW j \in Level, i < j, NEW e \in UNION files'[i],
                        NEW d \in UNION files'[j], KeyOf(d) = KeyOf(e)
                 PROVE  e > d
    BY <1>4 DEF NewerAbove, Level
  <2>2. i \in Nat /\ j \in Nat
    BY LevelFacts
  <2>3. CASE e \in UNION files[i] /\ d \in UNION files[j]
    BY <1>3, <2>1, <2>3 DEF NewerAbove
  <2>4. CASE i = l + 1 /\ e \in UNION X /\ d \in UNION files[j]
    <3>1. e \in UNION files[l] /\ l < j
      BY <1>1, <2>1, <2>2, <2>4
    <3> QED
      BY <1>1, <1>3, <2>1, <2>4, <3>1 DEF NewerAbove
  <2>5. CASE j = l + 1 /\ d \in UNION X /\ e \in UNION files[i]
    <3>1. d \in UNION files[l] /\ d \in I
      BY <1>1, <2>5
    <3>2. CASE i < l
      BY <1>1, <1>3, <2>1, <2>5, <3>1, <3>2 DEF NewerAbove
    <3>3. CASE i = l
      <4>1. PICK f \in files'[l] : e \in f
        BY <2>1, <3>3
      <4>2. f \in files[l] /\ f \notin X
        BY <1>2, <4>1
      <4>3. e \notin I
        <5>1. \A x \in X : e \notin x
          BY <1>1, <1>3, <4>1, <4>2 DEF OneFile
        <5>2. \A y \in Y : e \notin y
          BY <1>1, <1>3, <4>1, <4>2 DEF OneFile
        <5> QED
          BY <1>6, <5>1, <5>2
      <4>4. e \notin UNION Deep(l)
        <5>1. SUFFICES ASSUME NEW k \in Level, k >= l + 2, e \in UNION files[k] PROVE FALSE
          BY <1>7
        <5>2. k # l
          BY <1>1, <5>1, LevelFacts
        <5> QED
          BY <1>1, <1>12, <2>5, <3>3, <5>1, <5>2
      <4>5. e \in Filed /\ e \in Everything /\ d \in Filed
        <5>1. e \in Filed /\ d \in Filed
          BY <1>1, <2>5, <3>1 DEF Filed
        <5> QED
          BY <1>8, <5>1
      <4>6. ~(e < d)
        BY <2>1, <3>1, <4>3, <4>4, <4>5 DEF OlderInside
      <4>7. e \in Nat /\ d \in Nat
        BY <4>5, TypeFacts, Entries
      <4>8. e # d
        BY <3>1, <4>3
      <4> QED
        BY <4>6, <4>7, <4>8
    <3> QED
      BY <1>1, <2>1, <2>2, <2>5, <3>2, <3>3
  <2> QED
    BY <1>11, <2>1, <2>2, <2>3, <2>4, <2>5
<1> QED
  BY <1>9, <1>10, <1>13 DEF Order


\* What is older than an input of an automatic compaction is an input or lies
\* deeper: so the order of the levels says, and that the inputs have all the
\* files they overlap.
LEMMA OlderAreInside ==
  ASSUME TypeOK, Order, NEW l \in 0..(NumLevels - 2), NEW X, NEW Y, GoodInputs(l, X, Y)
  PROVE  OlderInside(UNION (X \cup Y), UNION Deep(l))
<1>1. SUFFICES ASSUME NEW e \in UNION (X \cup Y), NEW d \in Everything, KeyOf(d) = KeyOf(e), d < e,
                      d \notin UNION (X \cup Y)
               PROVE  d \in UNION Deep(l)
  BY DEF OlderInside
<1>2. l \in Level /\ l + 1 \in Level /\ l + 1 # 0 /\ l \in Nat
  BY LevelFacts
<1>3. Ages /\ FilesApart /\ NewerAbove
  BY DEF Order
<1>4. /\ X \subseteq files[l] /\ Y \subseteq files[l + 1]
      /\ \A g \in files[l] \ X, f \in X : Apart(g, f)
      /\ \A g \in files[l + 1] \ Y : Apart(g, UNION (X \cup Y))
  BY DEF GoodInputs
<1>5. e \in Filed /\ (e \in UNION files[l] \/ e \in UNION files[l + 1])
  <2>1. e \in UNION files[l] \/ e \in UNION files[l + 1]
    BY <1>4
  <2> QED
    BY <1>2, <2>1 DEF Filed
<1>6. e \in Nat /\ d \in Nat /\ KeyOf(e) \in Nat
  BY <1>5, TypeFacts, Entries
<1>7. d \in Filed
  <2>1. d \notin mem
    BY <1>1, <1>3, <1>5, <1>6 DEF Ages, Older
  <2>2. d \notin imm
    BY <1>1, <1>3, <1>5, <1>6 DEF Ages, Older
  <2> QED
    BY <2>1, <2>2, TypeFacts
<1>8. PICK j \in Level : d \in UNION files[j]
  BY <1>7 DEF Filed
<1>9. PICK g \in files[j] : d \in g
  BY <1>8
<1>10. PICK f \in X \cup Y : e \in f
  OBVIOUS
<1>11. ~Apart(g, f) /\ ~Apart(g, UNION (X \cup Y))
  BY <1>1, <1>6, <1>9, <1>10 DEF Apart, Left
<1>12. j \in Nat /\ l \in Nat
  BY LevelFacts
<1>13. CASE j < l
  <2>1. d > e
    <3>1. CASE e \in UNION files[l]
      BY <1>1, <1>2, <1>3, <1>8, <1>13, <3>1 DEF NewerAbove
    <3>2. CASE e \in UNION files[l + 1]
      <4>1. j < l + 1
        BY <1>12, <1>13
      <4> QED
        BY <1>1, <1>2, <1>3, <1>8, <3>2, <4>1 DEF NewerAbove
    <3> QED
      BY <1>5, <3>1, <3>2
  <2> QED
    BY <1>1, <1>6, <2>1
<1>14. CASE j = l
  <2>1. CASE f \in X
    <3>1. g \in X
      BY <1>4, <1>9, <1>11, <1>14, <2>1
    <3> QED
      BY <1>1, <1>9, <3>1
  <2>2. CASE f \in Y
    <3>1. e \in UNION files[l + 1] /\ j < l + 1
      BY <1>4, <1>10, <1>12, <1>14, <2>2
    <3>2. d > e
      BY <1>1, <1>2, <1>3, <1>8, <3>1 DEF NewerAbove
    <3> QED
      BY <1>1, <1>6, <3>2
  <2> QED
    BY <2>1, <2>2
<1>15. CASE j = l + 1
  <2>1. g \in Y
    <3>1. g \in files[l + 1]
      BY <1>9, <1>15
    <3> QED
      BY <1>4, <1>11, <3>1
  <2> QED
    BY <1>1, <1>9, <2>1
<1>16. CASE j >= l + 2
  BY <1>8, <1>16 DEF Deep
<1> QED
  BY <1>12, <1>13, <1>14, <1>15, <1>16

\* Of two classes of outputs one is left of the other: the entry that ends a file
\* is the last of its key.
LEMMA OutputsApart ==
  ASSUME HistOK, Ins \in SUBSET Entry, comp.snap \in Nat,
         SplitKeys => \A e \in Ins : e <= comp.snap,
         NEW out \in Outputs(Kept(Ins))
  PROVE  \A f, g \in out : f = g \/ Apart(f, g)
<1> DEFINE kept == Kept(Ins)
<1>1. PICK C \in SUBSET {e \in kept : MayEnd(e, kept)} :
        out = {{e \in kept : \A c \in C : Before(c, e) <=> Before(c, f)} : f \in kept}
  BY DEF Outputs
<1>2. kept \subseteq Ins /\ \A e \in kept : ~Shadowed(e, Ins)
  BY DEF Kept
<1> HIDE DEF kept
<1>3. \A e \in Ins : e \in Nat /\ KeyOf(e) \in Nat
  BY Entries
\* No entry of the key is kept after the one that ends a file.
<1>4. ASSUME NEW c \in C, NEW e \in kept, Before(c, e) PROVE KeyOf(c) < KeyOf(e)
  <2>1. SUFFICES ASSUME KeyOf(c) = KeyOf(e), c > e PROVE FALSE
    BY <1>4 DEF Before
  <2>2. c \in kept /\ MayEnd(c, kept)
    BY <1>1
  <2>3. c \in Nat /\ e \in Nat /\ c \in Ins /\ e \in Ins
    BY <1>2, <1>3, <2>2
  <2>4. CASE SplitKeys
    <3> DEFINE newer == {d \in Ins : KeyOf(d) = KeyOf(e) /\ d > e}
    <3>1. c \in newer /\ newer \in SUBSET Nat
      BY <1>3, <2>1, <2>3
    <3>2. Min(newer) <= c /\ Min(newer) \in Nat
      BY <3>1, MinNat
    <3>3. c <= comp.snap
      BY <2>3, <2>4
    <3>4. Min(newer) <= comp.snap
      <4> HIDE DEF newer
      <4> QED
        BY <2>3, <3>2, <3>3
    <3>5. Shadowed(e, Ins)
      BY <3>1, <3>4 DEF Shadowed
    <3> QED
      BY <1>2, <3>5
  <2>5. CASE ~SplitKeys
    BY <2>1, <2>2, <2>3, <2>5 DEF MayEnd
  <2> QED
    BY <2>4, <2>5
<1> DEFINE Class(f) == {e \in kept : \A c \in C : Before(c, e) <=> Before(c, f)}
<1>5. ASSUME NEW f \in kept, NEW g \in kept, NEW c \in C, Before(c, f), ~Before(c, g)
      PROVE  Left(Class(g), Class(f))
  <2>1. SUFFICES ASSUME NEW a \in Class(g), NEW b \in Class(f) PROVE KeyOf(a) < KeyOf(b)
    BY DEF Left
  <2>2. a \in kept /\ b \in kept /\ Before(c, b) /\ ~Before(c, a) /\ c \in kept
    BY <1>1, <1>5, <2>1
  <2>3. KeyOf(c) < KeyOf(b)
    BY <1>4, <2>2
  <2>4. ~(KeyOf(c) < KeyOf(a))
    BY <2>2 DEF Before
  <2>5. KeyOf(a) \in Nat /\ KeyOf(b) \in Nat /\ KeyOf(c) \in Nat
    BY <1>2, <1>3, <2>2
  <2> QED
    BY <2>3, <2>4, <2>5
<1>6. ASSUME NEW f \in kept, NEW g \in kept
      PROVE  Class(f) = Class(g) \/ Apart(Class(f), Class(g))
  <2>1. CASE \A c \in C : Before(c, f) <=> Before(c, g)
    BY <2>1
  <2>2. CASE \E c \in C : ~(Before(c, f) <=> Before(c, g))
    <3>1. PICK c \in C : ~(Before(c, f) <=> Before(c, g))
      BY <2>2
    <3>2. CASE Before(c, f) /\ ~Before(c, g)
      BY <1>5, <3>2 DEF Apart
    <3>3. CASE Before(c, g) /\ ~Before(c, f)
      BY <1>5, <3>3 DEF Apart
    <3> QED
      BY <3>1, <3>2, <3>3
  <2> QED
    BY <2>1, <2>2
<1>7. out = {Class(f) : f \in kept}
  BY <1>1
<1> HIDE DEF Class
<1> QED
  BY <1>6, <1>7

\* The level chosen for a table is above all that it overlaps.
LEMMA PickedLevelFacts ==
  ASSUME TypeOK, imm \in File, NEW m \in PickLevelForMemTableOutput(FirstKey(imm), LastKey(imm))
  PROVE  m \in Level /\ \A i \in Level : i <= m /\ m > 0 => \A f \in files[i] : Apart(f, imm)
<1>1. m \in 0..MaxMemCompactLevel /\ m \in Level /\ m \in Nat
  BY LevelFacts DEF PickLevelForMemTableOutput
<1>2. m > 0 => \A i \in 0..m : ~OverlapInLevel(i, FirstKey(imm), LastKey(imm))
  BY DEF PickLevelForMemTableOutput
<1>3. ASSUME NEW i \in Level, i <= m, m > 0, NEW f \in files[i] PROVE Apart(f, imm)
  <2>1. i \in 0..m
    BY <1>1, <1>3, LevelFacts
  <2>2. ~Overlaps(f, FirstKey(imm), LastKey(imm))
    BY <1>2, <1>3, <2>1 DEF OverlapInLevel
  <2>3. f \in File /\ HistOK
    BY TypeFacts
  <2> QED
    BY <2>2, <2>3, OverlapsApart
<1> QED
  BY <1>1, <1>3

\* A table apart from each of some files that leave no gap is apart from all.
LEMMA ApartFromCovered ==
  ASSUME HistOK, NEW S \in SUBSET File, Covered(S), NEW f \in File, \A g \in S : Apart(g, f)
  PROVE  Apart(f, UNION S)
<1>1. \A e \in f \cup UNION S : KeyOf(e) \in Nat
  BY Entries DEF File
<1>2. SUFFICES ASSUME ~Apart(f, UNION S) PROVE FALSE
  OBVIOUS
<1>3. PICK d \in f, u \in UNION S : ~(KeyOf(d) < KeyOf(u))
  BY <1>2 DEF Apart, Left
<1>4. PICK v \in UNION S, c \in f : ~(KeyOf(v) < KeyOf(c))
  BY <1>2 DEF Apart, Left
<1>5. PICK p \in S : u \in p
  OBVIOUS
<1>6. PICK q \in S : v \in q
  OBVIOUS
\* A file reached from u is left of f, and one that v is in is right of it.
<1>7. Left(p, f)
  <2>1. KeyOf(u) <= KeyOf(d)
    BY <1>1, <1>3
  <2>2. ~Left(f, p)
    BY <1>1, <1>5, <2>1 DEF Left
  <2> QED
    BY <2>2 DEF Apart
<1>8. Left(f, q)
  <2>1. KeyOf(c) <= KeyOf(v)
    BY <1>1, <1>4
  <2>2. ~Left(q, f)
    BY <1>1, <1>6, <2>1 DEF Left
  <2> QED
    BY <2>2 DEF Apart
<1>9. KeyOf(u) <= KeyOf(d) /\ KeyOf(d) <= KeyOf(v) /\ KeyOf(d) \in Key
  <2>1. KeyOf(u) < KeyOf(d)
    BY <1>5, <1>7 DEF Left
  <2>2. KeyOf(d) < KeyOf(v)
    BY <1>6, <1>8 DEF Left
  <2>3. KeyOf(d) \in Key
    BY Entries DEF File
  <2> QED
    BY <1>1, <2>1, <2>2, <2>3
<1>10. PICK g \in S : Reaches(g, KeyOf(d))
  BY <1>9 DEF Covered
<1>11. PICK a \in g, b \in g : KeyOf(a) <= KeyOf(d) /\ KeyOf(d) <= KeyOf(b)
  BY <1>10 DEF Reaches
<1> QED
  BY <1>1, <1>11 DEF Apart, Left


-----------------------------------------------------------------------------
(* The steps                                                               *)

\* A step that only changes the memtables, or who holds what.
LEMMA OrderKept ==
  ASSUME TypeOK, Order, HistKept, files' = files, Ages'
  PROVE  Order'
<1>1. \A l \in Level : \A f \in files[l] : f \in SUBSET Entry
  BY TypeFacts DEF File
<1>2. \A f, g \in SUBSET Entry : Apart(f, g)' <=> Apart(f, g)
  BY KeysKept
<1>3. \A l \in Level : \A e \in UNION files[l] : KeyOf(e)' = KeyOf(e)
  BY <1>1, KeysKept
<1>4. Level' = Level
  BY DEF Level
<1>5. FilesApart'
  BY <1>1, <1>2, <1>4 DEF Order, FilesApart
<1>6. NewerAbove'
  BY <1>3, <1>4 DEF Order, NewerAbove
<1> QED
  BY <1>5, <1>6 DEF Order

\* What a compaction relies on is left by a step that adds only newer entries and
\* takes no older snapshot.
LEMMA CompactingKept ==
  ASSUME TypeInv, Compacting, HistKept, comp' = comp, files' = files,
         \A d \in Everything' : d \in Everything \/ (d \in Nat /\ d > last),
         \A s \in Held' : comp.on => comp.snap <= s
  PROVE  Compacting'
<1>1. SUFFICES ASSUME comp.on PROVE Compacting'
  BY DEF Compacting
<1>2. /\ comp.level \in Level /\ comp.level + 1 \in Level \ {0}
      /\ comp.in0 \cup comp.in1 \in SUBSET File /\ Ins \in SUBSET Entry
  BY <1>1, InsFacts
<1>3. /\ comp.base \subseteq Deep(comp.level) /\ comp.snap \in Nat
      /\ Covered(comp.in0 \cup comp.in1)
      /\ \A g \in files[comp.level + 1] \ comp.in1 : Apart(g, Ins)
      /\ OlderInside(Ins, UNION comp.base)
      /\ SplitKeys => \A e \in Ins : e <= comp.snap
  BY <1>1 DEF Compacting
<1>4. Deep(comp.level)' = Deep(comp.level) /\ Ins' = Ins
  BY DEF Deep, Ins, Level
<1>5. Covered(comp.in0 \cup comp.in1)'
  <2>1. comp.in0 \cup comp.in1 \in SUBSET SUBSET Entry
    BY <1>2 DEF File
  <2>2. \A S \in SUBSET SUBSET Entry : Covered(S)' <=> Covered(S)
    BY KeysKept
  <2>3. PICK S : S = comp.in0 \cup comp.in1
    OBVIOUS
  <2>4. Covered(S)'
    BY <1>3, <2>1, <2>2, <2>3
  <2>5. (comp.in0 \cup comp.in1)' = S
    BY <2>3
  <2> QED
    BY <2>4, <2>5
<1>6. \A g \in files[comp.level + 1] \ comp.in1 : Apart(g, Ins)'
  <2>1. \A g \in files[comp.level + 1] : g \in SUBSET Entry
    BY <1>2, TypeFacts DEF File, TypeInv
  <2>2. \A f, g \in SUBSET Entry : Apart(f, g)' <=> Apart(f, g)
    BY KeysKept
  <2>3. PICK I : I = Ins
    OBVIOUS
  <2>4. \A g \in files[comp.level + 1] \ comp.in1 : Apart(g, I)'
    BY <1>2, <1>3, <2>1, <2>2, <2>3
  <2> QED
    BY <1>4, <2>3, <2>4
<1>7. OlderInside(Ins, UNION comp.base)'
  <2>1. SUFFICES ASSUME NEW e \in Ins, NEW d \in Everything', KeyOf(d)' = KeyOf(e)', d < e
                 PROVE  d \in Ins \/ d \in UNION comp.base
    BY <1>4 DEF OlderInside
  <2>2. e \in Entry /\ e \in Nat /\ last \in Nat /\ e <= last /\ Everything \in SUBSET Entry
    BY <1>2, TypeFacts, Entries DEF TypeInv, Entry
  <2>3. d \in Everything
    BY <2>1, <2>2
  <2>4. KeyOf(d) = KeyOf(e)
    BY <2>1, <2>2, <2>3, KeysKept
  <2> QED
    BY <1>3, <2>1, <2>3, <2>4 DEF OlderInside
<1> QED
  BY <1>1, <1>3, <1>4, <1>5, <1>6, <1>7 DEF Compacting


\* What is read stays complete if nothing is lost and no older snapshot is taken.
LEMMA CompleteKept ==
  ASSUME Complete, hist' = hist, Everything' = Everything, Held' \subseteq Held
  PROVE  Complete'
<1>1. \A e, k, s : Sees(e, k, s)' <=> Sees(e, k, s)
  BY DEF Sees, KeyOf
<1>2. Entry' = Entry /\ \A e : KeyOf(e)' = KeyOf(e)
  BY DEF Entry, last, KeyOf
<1>3. ASSUME NEW n, NEW k, NEW s PROVE IsNewest(n, Entry, k, s)' <=> IsNewest(n, Entry, k, s)
  BY <1>1, <1>2 DEF IsNewest
<1>4. SUFFICES ASSUME NEW n \in Entry, NEW s \in Held, IsNewest(n, Entry, KeyOf(n), s)'
               PROVE  n \in Everything \/ (hist[n].del /\ \A d \in Everything : ~Sees(d, KeyOf(n), s))
  <2>1. SUFFICES ASSUME NEW n \in Entry', NEW s \in Held', IsNewest(n, Entry, KeyOf(n), s)'
                 PROVE  (n \in Everything \/ (hist[n].del /\ \A d \in Everything : ~Sees(d, KeyOf(n), s)))'
    BY DEF Complete
  <2>2. n \in Entry /\ s \in Held
    BY <1>2, <2>1
  <2>3. n \in Everything \/ (hist[n].del /\ \A d \in Everything : ~Sees(d, KeyOf(n), s))
    BY <1>4, <2>1, <2>2
  <2> QED
    BY <1>1, <1>2, <2>3 DEF Sees, KeyOf
<1>5. IsNewest(n, Entry, KeyOf(n), s)
  BY <1>1, <1>2, <1>4 DEF IsNewest, KeyOf, Sees
<1> QED
  BY <1>5 DEF Complete

\* A write, with the newest number of all.
LEMMA LevelsWrite ==
  ASSUME LevelsInv, NEW k \in Key, NEW del \in BOOLEAN, Write(k, del)
  PROVE  NoSnapshots' /\ Order' /\ Compacting' /\ Complete'
<1>0. TypeInv /\ TypeOK /\ NoSnapshots /\ Order /\ Compacting /\ Complete
  BY DEF LevelsInv, TypeInv
<1>1. UNCHANGED <<imm, files, snapshots, comp>>
  BY DEF Write
<1>2. PICK w : w = last + 1
  OBVIOUS
<1>3. /\ HistOK' /\ last' = w /\ w \notin Entry /\ Entry' = Entry \cup {w}
      /\ hist'[w] = [key |-> k, del |-> del] /\ HistKept /\ mem' = mem \cup {w}
  BY <1>0, <1>2, WriteFacts DEF HistKept
<1>4. HistOK /\ last \in Nat /\ w \in Nat /\ w > last /\ Everything \in SUBSET Entry /\ Filed \in SUBSET Entry
  BY <1>0, <1>2, TypeFacts
<1>5. \A e \in Entry : e \in Nat /\ e <= last /\ e < w /\ e # w
  BY <1>2, <1>4 DEF Entry
<1>6. Everything' = Everything \cup {w} /\ Filed' = Filed
  BY <1>1, <1>3 DEF Everything, Filed, Level
<1>7. Held \subseteq 0..last /\ Held \subseteq Nat
  BY <1>0, TypeFacts
<1>8. last \in Held /\ \A s \in Held' : s = w \/ (s \in Held /\ s <= last)
  BY <1>1, <1>3, <1>7 DEF Held
<1>9. Order'
  <2>1. Ages /\ imm \in SUBSET Entry
    BY <1>0, TypeFacts DEF Order
  <2>2. Older(imm, mem') /\ Older(Filed, mem')
    BY <1>3, <1>4, <1>5, <2>1 DEF Ages, Older
  <2>3. Ages'
    BY <1>1, <1>6, <2>1, <2>2 DEF Ages
  <2> QED
    BY <1>0, <1>1, <1>3, <2>3, OrderKept
<1>10. Compacting'
  <2>1. \A d \in Everything' : d \in Everything \/ (d \in Nat /\ d > last)
    BY <1>4, <1>6
  <2>2. ASSUME comp.on, NEW s \in Held' PROVE comp.snap <= s
    <3>1. comp.snap \in Nat /\ comp.snap <= last /\ \A t \in Held : comp.snap <= t
      BY <1>0, <1>8, <2>2 DEF Compacting
    <3>2. CASE s = w
      <4>1. comp.snap <= w
        BY <1>4, <3>1
      <4> QED
        BY <3>2, <4>1
    <3>3. CASE s \in Held
      BY <3>1, <3>3
    <3> QED
      BY <1>8, <3>2, <3>3
  <2>3. \A s \in Held' : comp.on => comp.snap <= s
    BY <2>2
  <2> QED
    BY <1>0, <1>1, <1>3, <2>1, <2>3, CompactingKept
<1>11. Complete'
  <2>1. \A e \in Entry : KeyOf(e)' = KeyOf(e)
    BY <1>3, KeysKept
  <2>2. KeyOf(w)' = k /\ \A e \in Entry : hist'[e].del = hist[e].del
    BY <1>3 DEF KeyOf, HistKept
  <2>3. SUFFICES ASSUME NEW n \in Entry, NEW s \in Held', IsNewest(n, Entry, KeyOf(n), s)'
                 PROVE  \/ n \in Everything
                        \/ hist[n].del /\ \A d \in Everything' : ~Sees(d, KeyOf(n), s)'
    <3>1. SUFFICES ASSUME NEW n \in Entry', NEW s \in Held', IsNewest(n, Entry, KeyOf(n), s)'
                   PROVE  (n \in Everything \/ (hist[n].del /\ \A d \in Everything : ~Sees(d, KeyOf(n), s)))'
      BY DEF Complete
    <3>2. CASE n = w
      BY <1>6, <3>2
    <3>3. CASE n # w
      <4>1. n \in Entry
        BY <1>3, <3>1, <3>3
      <4>2. \/ n \in Everything
            \/ hist[n].del /\ \A d \in Everything' : ~Sees(d, KeyOf(n), s)'
        BY <2>3, <3>1, <4>1
      <4> QED
        BY <1>6, <2>2, <4>1, <4>2
    <3> QED
      BY <3>2, <3>3
  <2>4. n # None
    BY <1>4 DEF Entry, None
  <2>5. /\ n <= s
        /\ \A d \in Entry : KeyOf(d) = KeyOf(n) /\ d <= s => d <= n
        /\ k = KeyOf(n) /\ w <= s => w <= n
    BY <1>3, <2>1, <2>2, <2>3, <2>4 DEF IsNewest, Sees
  <2> DEFINE t == IF s = w THEN last ELSE s
  <2>6. t \in Held /\ t \in Nat /\ n <= t /\ (s = w => k # KeyOf(n)) /\ (s # w => s = t /\ s <= last)
    <3>1. CASE s = w
      BY <1>4, <1>5, <1>8, <2>3, <2>5, <3>1
    <3>2. CASE s # w
      BY <1>7, <1>8, <2>5, <3>2
    <3> QED
      BY <3>1, <3>2
  <2>7. \A d \in Entry : d <= t => d <= s
    <3>1. CASE s = w
      <4>1. \A d \in Entry : d <= w
        BY <1>4, <1>5
      <4> QED
        BY <3>1, <4>1
    <3>2. CASE s # w
      BY <2>6, <3>2
    <3> QED
      BY <3>1, <3>2
  <2>8. \A d \in Entry : d <= s => d <= t
    <3>1. CASE s = w
      <4>1. t = last
        BY <3>1
      <4> QED
        BY <1>5, <4>1
    <3>2. CASE s # w
      BY <2>6, <3>2
    <3> QED
      BY <3>1, <3>2
  <2> HIDE DEF t
  <2>9. IsNewest(n, Entry, KeyOf(n), t)
    BY <2>4, <2>5, <2>6, <2>7 DEF IsNewest, Sees
  <2>10. n \in Everything \/ (hist[n].del /\ \A d \in Everything : ~Sees(d, KeyOf(n), t))
    BY <1>0, <2>3, <2>6, <2>9 DEF Complete
  <2>11. SUFFICES ASSUME hist[n].del, \A d \in Everything : ~Sees(d, KeyOf(n), t),
                         NEW d \in Everything', Sees(d, KeyOf(n), s)'
                  PROVE  FALSE
    BY <2>10
  <2>12. CASE d = w
    <3>1. k = KeyOf(n) /\ w <= s
      BY <2>1, <2>2, <2>3, <2>11, <2>12 DEF Sees
    <3>2. s # w
      BY <2>6, <3>1
    <3> QED
      BY <1>4, <2>6, <3>1, <3>2
  <2>13. CASE d \in Everything
    <3>1. d \in Entry /\ KeyOf(d) = KeyOf(n) /\ d <= s
      BY <1>4, <2>1, <2>3, <2>11, <2>13 DEF Sees
    <3>2. Sees(d, KeyOf(n), t)
      BY <2>8, <3>1 DEF Sees
    <3> QED
      BY <2>11, <2>13, <3>2
  <2> QED
    BY <1>6, <2>12, <2>13
<1>12. NoSnapshots'
  BY <1>0, <1>1 DEF NoSnapshots
<1> QED
  BY <1>9, <1>10, <1>11, <1>12


\* What both the memtables and the snapshots leave: everything that is there.
LEMMA QuietStep ==
  ASSUME LevelsInv, hist' = hist, files' = files, comp' = comp, Everything' = Everything,
         Held' \subseteq Held, Ages'
  PROVE  Order' /\ Compacting' /\ Complete'
<1>0. TypeInv /\ TypeOK /\ Order /\ Compacting /\ Complete
  BY DEF LevelsInv, TypeInv
<1>1. HistKept
  BY DEF HistKept
<1>2. Order'
  BY <1>0, <1>1, OrderKept
<1>3. Complete'
  BY <1>0, CompleteKept
<1>4. \A s \in Held' : comp.on => comp.snap <= s
  BY <1>0 DEF Compacting
<1>5. Compacting'
  BY <1>0, <1>1, <1>4, CompactingKept
<1> QED
  BY <1>2, <1>3, <1>5

\* A memtable that is switched holds what it held.
LEMMA LevelsSwitch ==
  ASSUME LevelsInv, SwitchMemTable
  PROVE  NoSnapshots' /\ Order' /\ Compacting' /\ Complete'
<1>1. UNCHANGED <<hist, files, snapshots, comp>> /\ imm = {} /\ imm' = mem /\ mem' = {}
  BY DEF SwitchMemTable
<1>2. Everything' = Everything /\ Filed' = Filed
  BY <1>1 DEF Everything, Filed, Level
<1>3. Held' = Held
  BY <1>1 DEF Held, last
<1>4. Ages'
  BY <1>1, <1>2 DEF LevelsInv, Order, Ages, Older
<1>5. NoSnapshots'
  BY <1>1 DEF LevelsInv, NoSnapshots
<1> QED
  BY <1>1, <1>2, <1>3, <1>4, <1>5, QuietStep

\* A snapshot is the last write or one that was held; it may be given back.
LEMMA LevelsSnapshot ==
  ASSUME LevelsInv, GetSnapshot \/ \E s \in snapshots : ReleaseSnapshot(s)
  PROVE  NoSnapshots' /\ Order' /\ Compacting' /\ Complete'
<1>0. TypeOK /\ NoSnapshots
  BY DEF LevelsInv, TypeInv
<1>1. UNCHANGED <<hist, files, mem, imm, comp>>
  BY DEF GetSnapshot, ReleaseSnapshot
<1>2. Everything' = Everything /\ Filed' = Filed
  BY <1>1 DEF Everything, Filed, Level
<1>3. last' = last
  BY <1>1 DEF last
<1>4. Ages'
  BY <1>1, <1>2 DEF LevelsInv, Order, Ages, Older
<1>5. CASE GetSnapshot
  <2>1. snapshots' = snapshots \cup {last} /\ Cardinality(snapshots \cup {last}) <= MaxSnapshots
    BY <1>5 DEF GetSnapshot
  <2>2. Held' \subseteq Held
    BY <1>3, <2>1 DEF Held
  <2>3. NoSnapshots'
    <3>1. SUFFICES ASSUME MaxSnapshots = 0 PROVE FALSE
      BY DEF NoSnapshots
    <3>2. IsFiniteSet(snapshots)
      BY <1>0, <3>1, FS_EmptySet DEF NoSnapshots
    <3>3. IsFiniteSet(snapshots \cup {last}) /\ snapshots \cup {last} # {}
      BY <3>2, FS_AddElement
    <3>4. Cardinality(snapshots \cup {last}) \in Nat /\ Cardinality(snapshots \cup {last}) # 0
      BY <3>3, FS_CardinalityType, FS_EmptySet
    <3> QED
      BY <2>1, <3>1, <3>4
  <2> QED
    BY <1>1, <1>2, <1>4, <2>2, <2>3, QuietStep
<1>6. CASE \E s \in snapshots : ReleaseSnapshot(s)
  <2>1. snapshots' \subseteq snapshots
    BY <1>6 DEF ReleaseSnapshot
  <2>2. Held' \subseteq Held
    BY <1>3, <2>1 DEF Held
  <2>3. NoSnapshots'
    BY <1>0, <2>1 DEF NoSnapshots
  <2> QED
    BY <1>1, <1>2, <1>4, <2>2, <2>3, QuietStep
<1> QED
  BY <1>5, <1>6

\* A flush, also in the middle of a compaction: the table overlaps nothing down
\* to its level, so it fits in no gap of the compaction's inputs.
LEMMA LevelsFlush ==
  ASSUME LevelsInv, Flush
  PROVE  NoSnapshots' /\ Order' /\ Compacting' /\ Complete'
<1>0. TypeInv /\ TypeOK /\ HistOK /\ NoSnapshots /\ Order /\ Compacting /\ Complete
  BY TypeFacts DEF LevelsInv, TypeInv
<1>1. PICK m \in PickLevelForMemTableOutput(FirstKey(imm), LastKey(imm)) : Added(m, imm)
  BY <1>0, FlushAdds
<1>2. UNCHANGED <<hist, mem, snapshots, comp>> /\ imm # {} /\ imm' = {}
  BY DEF Flush
<1>3. imm \in File /\ mem \in SUBSET Entry
  BY <1>0, <1>2, TypeFacts DEF File
<1>4. m \in Level /\ \A i \in Level : i <= m /\ m > 0 => \A f \in files[i] : Apart(f, imm)
  BY <1>0, <1>3, PickedLevelFacts
<1>5. /\ files'[m] = files[m] \cup {imm} /\ \A j \in Level : j # m => files'[j] = files[j]
  BY <1>4, <1>1 DEF Added
<1>6. \A j \in Level : \A f \in files'[j] : f \in files[j] \/ (j = m /\ f = imm)
  BY <1>5
<1>6a. \A j \in Level : files[j] \subseteq files'[j]
  BY <1>5
<1>7. Filed' = Filed \cup imm /\ Everything' = Everything
  <2>1. \A e : e \in Filed <=> \E j \in Level : \E f \in files[j] : e \in f
    BY DEF Filed
  <2>2. \A e : e \in Filed' <=> \E j \in Level : \E f \in files'[j] : e \in f
    BY DEF Filed, Level
  <2>3. \A e : e \in Filed' <=> e \in Filed \/ e \in imm
    BY <1>4, <1>5, <1>6, <1>6a, <2>1, <2>2
  <2>4. Filed' = Filed \cup imm
    BY <2>3
  <2>5. Everything = mem \cup imm \cup Filed /\ Everything' = mem' \cup imm' \cup Filed'
    BY DEF Everything, Filed
  <2> QED
    BY <1>2, <2>4, <2>5
<1>8. Ages /\ FilesApart /\ NewerAbove
  BY <1>0 DEF Order
<1>9. /\ \A e : KeyOf(e)' = KeyOf(e)
      /\ \A f, g : Apart(f, g)' <=> Apart(f, g)
      /\ \A S : Covered(S)' <=> Covered(S)
  <2>1. \A e : KeyOf(e)' = KeyOf(e)
    BY <1>2 DEF KeyOf
  <2>2. \A f, g : Left(f, g)' <=> Left(f, g)
    BY <2>1 DEF Left
  <2>3. \A f, x : Reaches(f, x)' <=> Reaches(f, x)
    BY <2>1 DEF Reaches
  <2>4. \A S : Covered(S)' <=> Covered(S)
    BY <2>1, <2>3 DEF Covered
  <2> QED
    BY <2>1, <2>2, <2>4 DEF Apart
<1>10. Ages'
  <2>1. Older(Filed', mem)
    BY <1>7, <1>8 DEF Ages, Older
  <2>2. \A f, g \in files'[0] : f = g \/ Older(f, g) \/ Older(g, f)
    <3>1. \A f \in files[0] : Older(f, imm)
      <4>1. \A f \in files[0] : \A e \in f : e \in Filed
        BY LevelFacts DEF Filed
      <4> QED
        BY <1>8, <4>1 DEF Ages, Older
    <3> QED
      BY <1>6, <1>8, <3>1, LevelFacts DEF Ages
  <2> QED
    BY <1>2, <2>1, <2>2 DEF Ages, Older
<1>11. FilesApart'
  <2>1. SUFFICES ASSUME NEW j \in Level \ {0}, NEW f \in files'[j], NEW g \in files'[j], f # g
                 PROVE  Apart(f, g)
    BY <1>9 DEF FilesApart, Level
  <2>2. j \in Nat /\ j > 0 /\ j <= j
    BY LevelFacts
  <2>3. j = m => \A h \in files[j] : Apart(h, imm) /\ Apart(imm, h)
    BY <1>4, <2>2 DEF Apart
  <2>4. f \in files[j] /\ g \in files[j] => Apart(f, g)
    BY <1>8, <2>1 DEF FilesApart
  <2> QED
    BY <1>6, <2>1, <2>3, <2>4
<1>12. NewerAbove'
  <2>1. SUFFICES ASSUME NEW i \in Level, NEW j \in Level, i < j, NEW e \in UNION files'[i],
                        NEW d \in UNION files'[j], KeyOf(d) = KeyOf(e)
                 PROVE  e > d
    BY <1>9 DEF NewerAbove, Level
  <2>2. i \in Nat /\ j \in Nat
    BY <2>1, LevelFacts
  <2>2a. i # j
    BY <2>1, <2>2
  <2>3. e \in UNION files[i] \/ (i = m /\ e \in imm)
    BY <1>6
  <2>4. d \in UNION files[j] \/ (j = m /\ d \in imm)
    BY <1>6
  <2>5. CASE e \in UNION files[i] /\ d \in UNION files[j]
    BY <1>8, <2>1, <2>5 DEF NewerAbove
  <2>6. CASE i = m /\ e \in imm /\ d \in UNION files[j]
    <3>1. d \in Filed
      BY <2>6 DEF Filed
    <3>2. e \in Nat /\ d \in Nat
      BY <1>0, <1>3, <2>6, <3>1, TypeFacts, Entries DEF File
    <3> QED
      BY <1>8, <2>6, <3>1, <3>2 DEF Ages, Older
  <2>7. CASE j = m /\ d \in imm /\ e \in UNION files[i]
    <3>1. PICK f \in files[i] : e \in f
      BY <2>7
    <3>2. Apart(f, imm)
      BY <1>4, <2>1, <2>2, <2>7
    <3>3. KeyOf(e) \in Nat
      BY <1>0, <3>1, TypeFacts, Entries DEF File
    <3> QED
      BY <2>1, <2>7, <3>1, <3>2, <3>3 DEF Apart, Left
  <2> QED
    BY <2>2a, <2>3, <2>4, <2>5, <2>6, <2>7
<1>13. Held' = Held
  BY <1>2 DEF Held, last
<1>14. Complete'
  BY <1>0, <1>2, <1>7, <1>13, CompleteKept
<1>15. Compacting'
  <2>1. SUFFICES ASSUME comp.on PROVE Compacting'
    BY <1>2 DEF Compacting
  <2>2. /\ comp.level \in Level /\ comp.level + 1 \in Level \ {0} /\ comp.level \in Nat
        /\ comp.in0 \subseteq files[comp.level] /\ comp.in1 \subseteq files[comp.level + 1]
        /\ comp.in0 \cup comp.in1 \in SUBSET File
    BY <1>0, <2>1, InsFacts
  <2>3. /\ comp.base \subseteq Deep(comp.level)
        /\ comp.snap \in Nat /\ \A s \in Held : comp.snap <= s
        /\ Covered(comp.in0 \cup comp.in1)
        /\ \A g \in files[comp.level + 1] \ comp.in1 : Apart(g, Ins)
        /\ OlderInside(Ins, UNION comp.base)
        /\ SplitKeys => \A e \in Ins : e <= comp.snap
    BY <1>0, <2>1 DEF Compacting
  <2>4. Deep(comp.level) \subseteq Deep(comp.level)'
    <3>1. Deep(comp.level)' = UNION {files'[i] : i \in {j \in Level : j >= comp.level + 2}}
      BY <1>2 DEF Deep, Level
    <3> QED
      BY <1>6a, <3>1 DEF Deep
  <2>5. Ins' = Ins
    BY <1>2 DEF Ins
  <2>6. ASSUME comp.level + 1 = m PROVE Apart(imm, Ins)
    <3>1. m > 0 /\ comp.level <= m /\ m <= m
      BY <2>2, <2>6
    <3>2. \A g \in comp.in0 \cup comp.in1 : Apart(g, imm)
      BY <1>4, <2>2, <2>6, <3>1
    <3> QED
      BY <1>0, <1>3, <2>2, <2>3, <3>2, ApartFromCovered DEF Ins
  <2>7. \A g \in files'[comp.level + 1] \ comp.in1 : Apart(g, Ins)
    BY <1>6, <2>2, <2>3, <2>6
  <2>8. \A g \in (files[comp.level + 1] \ comp.in1)' : Apart(g, Ins)'
    <3>1. PICK I : I = Ins
      OBVIOUS
    <3>2. \A g : Apart(g, I)' <=> Apart(g, I)
      BY <1>9
    <3> QED
      BY <1>2, <2>5, <2>7, <3>1, <3>2
  <2>9. Covered(comp.in0 \cup comp.in1)'
    <3>1. PICK S : S = comp.in0 \cup comp.in1
      OBVIOUS
    <3>2. Covered(S)'
      BY <1>9, <2>3, <3>1
    <3>3. (comp.in0 \cup comp.in1)' = S
      BY <1>2, <3>1
    <3> QED
      BY <3>2, <3>3
  <2>10. OlderInside(Ins, UNION comp.base)'
    BY <1>2, <1>7, <1>9, <2>3, <2>5 DEF OlderInside
  <2>11. comp.base' \subseteq Deep(comp.level)'
    BY <1>2, <2>3, <2>4
  <2> QED
    BY <1>2, <1>13, <2>3, <2>5, <2>8, <2>9, <2>10, <2>11 DEF Compacting
<1>16. NoSnapshots'
  BY <1>0, <1>2 DEF NoSnapshots
<1> QED
  BY <1>10, <1>11, <1>12, <1>14, <1>15, <1>16 DEF Order


\* A compaction starts: what it relies on holds of the version it takes.
LEMMA LevelsStart ==
  ASSUME LevelsInv, Automatic, NEW l \in 0..(NumLevels - 2), CompactStart(l)
  PROVE  NoSnapshots' /\ Order' /\ Compacting' /\ Complete'
<1>0. TypeInv /\ TypeOK /\ HistOK /\ NoSnapshots /\ Order /\ Compacting /\ Complete
  BY TypeFacts DEF LevelsInv, TypeInv
<1>1. UNCHANGED <<hist, mem, imm, files, snapshots>>
  BY DEF CompactStart
<1>2. Manual(l) = {}
  BY DEF Automatic, Manual
<1>3. PICK in0 \in Picked(l) : \E in \in SetupOtherInputs(l, in0) :
        comp' = [on |-> TRUE, level |-> l, in0 |-> in[1], in1 |-> in[2],
                 base |-> UNION {files[i] : i \in {j \in Level : j >= l + 2}},
                 snap |-> IF snapshots = {} THEN last ELSE Min(snapshots)]
  BY <1>2 DEF CompactStart
<1>4. PICK in \in SetupOtherInputs(l, in0) :
        /\ comp'.level = l /\ comp'.in0 = in[1] /\ comp'.in1 = in[2]
        /\ comp'.base = UNION {files[i] : i \in {j \in Level : j >= l + 2}}
        /\ comp'.snap = IF snapshots = {} THEN last ELSE Min(snapshots)
  BY <1>3
<1>5. PICK X : X = in[1]
  OBVIOUS
<1>6. PICK Y : Y = in[2]
  OBVIOUS
<1>7. GoodInputs(l, X, Y)
  BY <1>0, <1>5, <1>6, SetupIsGood DEF Order
<1>8. OlderInside(UNION (X \cup Y), UNION Deep(l))
  BY <1>0, <1>7, OlderAreInside
<1>9. comp'.in0 = X /\ comp'.in1 = Y /\ comp'.base = Deep(l)
  BY <1>4, <1>5, <1>6 DEF Deep
<1>10. HistKept /\ hist' = hist /\ last' = last
  BY <1>1 DEF HistKept, last
<1>11. Everything' = Everything /\ Filed' = Filed /\ Held' = Held
  BY <1>1 DEF Everything, Filed, Level, Held, last
<1>12. Ages'
  BY <1>0, <1>1, <1>11 DEF Order, Ages, Older
<1>13. Order'
  BY <1>0, <1>1, <1>10, <1>12, OrderKept
<1>14. Complete'
  BY <1>0, <1>1, <1>11, CompleteKept
<1>15. NoSnapshots'
  BY <1>0, <1>1 DEF NoSnapshots
<1>16. last \in Nat /\ snapshots \in SUBSET Nat /\ \A s \in snapshots : s <= last
  BY <1>0, TypeFacts DEF TypeOK
<1>17. comp'.snap \in Nat /\ \A s \in Held : comp'.snap <= s
  <2>1. CASE snapshots = {}
    BY <1>4, <1>16, <2>1 DEF Held
  <2>2. CASE snapshots # {}
    <3>1. Min(snapshots) \in snapshots /\ \A s \in snapshots : Min(snapshots) <= s
      BY <1>16, <2>2, MinNat
    <3>2. comp'.snap = Min(snapshots)
      BY <1>4, <2>2
    <3> QED
      BY <1>16, <3>1, <3>2 DEF Held
  <2> QED
    BY <2>1, <2>2
<1>18. X \cup Y \in SUBSET File
  <2>1. l \in Level /\ l + 1 \in Level
    BY LevelFacts
  <2> QED
    BY <1>0, <1>7, <2>1, TypeFacts DEF GoodInputs
<1>19. UNION (X \cup Y) \in SUBSET Entry
  BY <1>18 DEF File
<1>20. SplitKeys => \A e \in UNION (X \cup Y) : e <= comp'.snap
  <2>1. SUFFICES ASSUME SplitKeys, NEW e \in UNION (X \cup Y) PROVE e <= comp'.snap
    OBVIOUS
  <2>2. snapshots = {}
    BY <1>0, <2>1 DEF Automatic, NoSnapshots
  <2>3. comp'.snap = last
    BY <1>4, <2>2
  <2> QED
    BY <1>16, <1>19, <2>1, <2>3 DEF Entry
<1>21. /\ \A e : KeyOf(e)' = KeyOf(e)
       /\ \A f, g : Apart(f, g)' <=> Apart(f, g)
       /\ \A S : Covered(S)' <=> Covered(S)
  <2>1. \A e : KeyOf(e)' = KeyOf(e)
    BY <1>1 DEF KeyOf
  <2>2. \A f, g : Left(f, g)' <=> Left(f, g)
    BY <2>1 DEF Left
  <2>3. \A f, x : Reaches(f, x)' <=> Reaches(f, x)
    BY <2>1 DEF Reaches
  <2>4. \A S : Covered(S)' <=> Covered(S)
    BY <2>1, <2>3 DEF Covered
  <2> QED
    BY <2>1, <2>2, <2>4 DEF Apart
<1>22. Ins' = UNION (X \cup Y)
  BY <1>9 DEF Ins
<1>23. comp.base' \subseteq Deep(comp.level)'
  <2>1. Deep(comp.level)' = Deep(l)
    BY <1>1, <1>4 DEF Deep, Level
  <2> QED
    BY <1>9, <2>1
<1>24. Covered(comp.in0 \cup comp.in1)'
  <2>1. PICK S : S = X \cup Y
    OBVIOUS
  <2>2. Covered(S)'
    BY <1>7, <1>21, <2>1 DEF GoodInputs
  <2>3. (comp.in0 \cup comp.in1)' = S
    BY <1>9, <2>1
  <2> QED
    BY <2>2, <2>3
<1>25. \A g \in (files[comp.level + 1] \ comp.in1)' : Apart(g, Ins)'
  <2>1. PICK I : I = UNION (X \cup Y)
    OBVIOUS
  <2>2. \A g : Apart(g, I)' <=> Apart(g, I)
    BY <1>21
  <2>3. \A g \in files[l + 1] \ Y : Apart(g, I)
    BY <1>7, <2>1 DEF GoodInputs
  <2>4. (files[comp.level + 1] \ comp.in1)' = files[l + 1] \ Y
    BY <1>1, <1>4, <1>9
  <2> QED
    BY <1>22, <2>1, <2>2, <2>3, <2>4
<1>26. OlderInside(Ins, UNION comp.base)'
  BY <1>8, <1>9, <1>11, <1>21, <1>22 DEF OlderInside
<1>27. Compacting'
  BY <1>11, <1>17, <1>20, <1>22, <1>23, <1>24, <1>25, <1>26 DEF Compacting
<1> QED
  BY <1>13, <1>14, <1>15, <1>27

\* A move: the file is alone among the inputs, and is its own output.
LEMMA LevelsMove ==
  ASSUME LevelsInv, NEW l \in 0..(NumLevels - 2), TrivialMove(l)
  PROVE  NoSnapshots' /\ Order' /\ Compacting' /\ Complete'
<1>0. TypeInv /\ TypeOK /\ HistOK /\ NoSnapshots /\ Order /\ Compacting /\ Complete
  BY TypeFacts DEF LevelsInv, TypeInv
<1>1. PICK in0 \in Picked(l) : \E in \in SetupOtherInputs(l, in0) :
        Cardinality(in[1]) = 1 /\ in[2] = {} /\ Replaced(l, in[1], {}, in[1])
  BY <1>0, MoveReplaces
<1>2. PICK in \in SetupOtherInputs(l, in0) :
        Cardinality(in[1]) = 1 /\ in[2] = {} /\ Replaced(l, in[1], {}, in[1])
  BY <1>1
<1>3. PICK X : X = in[1]
  OBVIOUS
<1>4. GoodInputs(l, in[1], in[2])
  BY <1>0, SetupIsGood DEF Order
<1>5. GoodInputs(l, X, {}) /\ Cardinality(X) = 1 /\ Replaced(l, X, {}, X)
  BY <1>2, <1>3, <1>4
<1>6. UNCHANGED <<hist, mem, imm, snapshots>> /\ ~comp.on /\ comp' = comp
  BY DEF TrivialMove, MayCompact
<1>7. X \in SUBSET File /\ X \subseteq files[l] /\ IsFiniteSet(X)
  <2>1. l \in Level
    BY LevelFacts
  <2>2. files[l] \in SUBSET File /\ IsFiniteSet(files[l])
    BY <1>0, <2>1, TypeFacts
  <2>3. X \subseteq files[l]
    BY <1>5 DEF GoodInputs
  <2> QED
    BY <2>2, <2>3, FS_Subset
<1>8. \A f, g \in X : f = g \/ Apart(f, g)
  <2>1. PICK x : X = {x}
    BY <1>5, <1>7, FS_Singleton
  <2> QED
    BY <2>1
<1>9. OlderInside(UNION (X \cup {}), UNION Deep(l))
  BY <1>0, <1>5, OlderAreInside
<1>10. \A g \in files[l + 1] \ {} : Apart(g, UNION (X \cup {}))
  BY <1>5 DEF GoodInputs
<1>11. UNION X \subseteq UNION (X \cup {})
  OBVIOUS
<1>12. hist' = hist /\ mem' = mem /\ imm' = imm
  BY <1>6
<1>13. Order'
  BY <1>0, <1>5, <1>7, <1>8, <1>9, <1>10, <1>11, <1>12, ReplacedOrder
<1>14. Everything' = Everything
  <2>1. /\ Filed' \subseteq Filed
        /\ \A e \in Filed : e \notin UNION (X \cup {}) \/ e \in UNION X => e \in Filed'
    BY <1>0, <1>5, <1>7, <1>11, ReplacedEntries
  <2>2. Filed' = Filed
    BY <2>1
  <2> QED
    BY <1>6, <2>2 DEF Everything, Filed
<1>15. Held' = Held
  BY <1>6 DEF Held, last
<1>16. Complete'
  BY <1>0, <1>6, <1>14, <1>15, CompleteKept
<1> QED
  BY <1>0, <1>6, <1>13, <1>16 DEF NoSnapshots, Compacting


\* An entry that a compaction leaves out is not the newest that a held snapshot
\* sees, or is a deletion that hides nothing that is left.
LEMMA LeftOut ==
  ASSUME HistOK, Ins \in SUBSET Entry, comp.snap \in Nat, NEW e \in Ins, e \notin Kept(Ins)
  PROVE  \/ \E d \in Ins : KeyOf(d) = KeyOf(e) /\ d > e /\ d <= comp.snap
         \/ hist[e].del /\ e <= comp.snap /\ IsBaseLevelForKey(KeyOf(e))
<1> DEFINE newer == {d \in Ins : KeyOf(d) = KeyOf(e) /\ d > e}
<1>1. newer \in SUBSET Nat
  BY Entries
<1>2. CASE Shadowed(e, Ins)
  <2>1. newer # {} /\ Min(newer) <= comp.snap
    BY <1>2 DEF Shadowed
  <2>2. Min(newer) \in newer
    <3> HIDE DEF newer
    <3> QED
      BY <1>1, <2>1, MinNat
  <2> QED
    BY <2>1, <2>2
<1>3. CASE Obsolete(e)
  BY <1>3 DEF Obsolete
<1> QED
  BY <1>2, <1>3 DEF Kept

\* And what a compaction keeps has nothing newer that is old enough.
LEMMA KeptFacts ==
  ASSUME HistOK, Ins \in SUBSET Entry, comp.snap \in Nat, NEW e \in Kept(Ins), NEW d \in Ins,
         KeyOf(d) = KeyOf(e), d > e
  PROVE  e \in Ins /\ d > comp.snap
<1> DEFINE newer == {x \in Ins : KeyOf(x) = KeyOf(e) /\ x > e}
<1>1. newer \in SUBSET Nat /\ d \in newer /\ d \in Nat
  BY Entries
<1>2. e \in Ins /\ ~Shadowed(e, Ins)
  BY DEF Kept
<1>3. ~(Min(newer) <= comp.snap)
  BY <1>1, <1>2 DEF Shadowed
<1>4. Min(newer) \in Nat /\ Min(newer) <= d
  <2> HIDE DEF newer
  <2>1. newer # {}
    BY <1>1
  <2> QED
    BY <1>1, <2>1, MinNat
<1> HIDE DEF newer
<1> QED
  BY <1>1, <1>2, <1>3, <1>4

\* A compaction is done, against the version as the flushes have left it.
LEMMA LevelsDone ==
  ASSUME LevelsInv, CompactDone
  PROVE  NoSnapshots' /\ Order' /\ Compacting' /\ Complete'
<1>0. TypeInv /\ TypeOK /\ HistOK /\ NoSnapshots /\ Order /\ Compacting /\ Complete
  BY TypeFacts DEF LevelsInv, TypeInv
<1>1. comp.on /\ comp' = NoComp /\ UNCHANGED <<hist, mem, imm, snapshots>>
  BY DEF CompactDone
<1>2. PICK out \in Outputs(Kept(UNION (comp.in0 \cup comp.in1))) :
        Replaced(comp.level, comp.in0, comp.in1, out)
  BY <1>0, DoneReplaces
<1>3. out \in Outputs(Kept(Ins))
  BY <1>2 DEF Ins
<1>4. /\ comp.level \in Level /\ comp.level + 1 \in Level \ {0} /\ comp.level \in Nat
      /\ comp.in0 \subseteq files[comp.level] /\ comp.in1 \subseteq files[comp.level + 1]
      /\ Ins \in SUBSET Entry
  BY <1>0, <1>1, InsFacts
<1>5. /\ comp.base \subseteq Deep(comp.level)
      /\ comp.snap \in Nat /\ \A s \in Held : comp.snap <= s
      /\ \A g \in files[comp.level + 1] \ comp.in1 : Apart(g, Ins)
      /\ OlderInside(Ins, UNION comp.base)
      /\ SplitKeys => \A e \in Ins : e <= comp.snap
  BY <1>0, <1>1 DEF Compacting
<1>6. Kept(Ins) \subseteq Ins /\ Kept(Ins) \in SUBSET Entry
  BY <1>4 DEF Kept
<1>7. out \in SUBSET File /\ UNION out = Kept(Ins)
  BY <1>3, <1>6, OutputsFacts
<1>8. \A f, g \in out : f = g \/ Apart(f, g)
  BY <1>0, <1>3, <1>4, <1>5, OutputsApart
<1>9. UNION out \subseteq UNION (comp.in0 \cup comp.in1)
  BY <1>6, <1>7 DEF Ins
<1>10. OlderInside(UNION (comp.in0 \cup comp.in1), UNION Deep(comp.level))
  BY <1>5 DEF OlderInside, Ins
<1>11. \A g \in files[comp.level + 1] \ comp.in1 : Apart(g, UNION (comp.in0 \cup comp.in1))
  BY <1>5 DEF Ins
<1>12. hist' = hist /\ mem' = mem /\ imm' = imm /\ snapshots' = snapshots
  BY <1>1
<1>13. Order'
  BY <1>0, <1>2, <1>7, <1>8, <1>9, <1>10, <1>11, <1>12, ReplacedOrder
<1>14. /\ Filed' \subseteq Filed
       /\ \A e \in Filed' : e \in Ins => e \in Kept(Ins)
       /\ \A e \in Filed : e \notin Ins \/ e \in Kept(Ins) => e \in Filed'
  <2>1. /\ Filed' \subseteq Filed
        /\ \A e \in Filed' : e \in UNION (comp.in0 \cup comp.in1) => e \in UNION out
        /\ \A e \in Filed : e \notin UNION (comp.in0 \cup comp.in1) \/ e \in UNION out => e \in Filed'
    BY <1>0, <1>2, <1>7, <1>9, ReplacedEntries
  <2> QED
    BY <1>7, <2>1 DEF Ins
<1>15. /\ Everything = mem \cup imm \cup Filed /\ Everything' = mem \cup imm \cup Filed'
       /\ Everything \in SUBSET Entry
  <2>1. Everything' = mem' \cup imm' \cup Filed'
    BY DEF Everything, Filed
  <2> QED
    BY <1>0, <1>12, <2>1, TypeFacts
\* Entries of the inputs are in no memtable.
<1>16. \A e \in Ins : e \in Filed /\ e \notin mem /\ e \notin imm
  <2>1. SUFFICES ASSUME NEW e \in Ins PROVE e \in Filed /\ e \notin mem /\ e \notin imm
    OBVIOUS
  <2>2. PICK f \in comp.in0 \cup comp.in1 : e \in f
    BY DEF Ins
  <2>3. PICK j \in Level : f \in files[j]
    BY <1>4
  <2>4. f \cap (mem \cup imm) = {}
    BY <1>0, <2>3, TypeParts
  <2> QED
    BY <2>2, <2>3, <2>4 DEF Filed
<1>17. Held' = Held /\ Entry' = Entry
  BY <1>12 DEF Held, last, Entry
\* The writes that are left out are not missed.
<1>18. ASSUME NEW n \in Entry, NEW s \in Held, IsNewest(n, Entry, KeyOf(n), s)
       PROVE  n \in Everything' \/ (hist[n].del /\ \A d \in Everything' : ~Sees(d, KeyOf(n), s))
  <2>1. n \in Nat /\ s \in Nat /\ n # None
    BY <1>0, Entries, TypeFacts DEF Entry, None
  <2>2. Sees(n, KeyOf(n), s) /\ \A d \in Entry : Sees(d, KeyOf(n), s) => d <= n
    BY <1>18, <2>1 DEF IsNewest
  <2>3. n \in Everything \/ (hist[n].del /\ \A d \in Everything : ~Sees(d, KeyOf(n), s))
    BY <1>0, <1>18 DEF Complete
  <2>4. CASE hist[n].del /\ \A d \in Everything : ~Sees(d, KeyOf(n), s)
    BY <1>14, <1>15, <2>4
  <2>5. CASE n \in Everything /\ n \notin Everything'
    <3>1. n \in Ins /\ n \notin Kept(Ins)
      BY <1>14, <1>15, <2>5
    <3>2. comp.snap \in Nat /\ comp.snap <= s
      BY <1>5, <1>18
    <3>3. ~\E d \in Ins : KeyOf(d) = KeyOf(n) /\ d > n /\ d <= comp.snap
      <4>1. SUFFICES ASSUME NEW d \in Ins, KeyOf(d) = KeyOf(n), d > n, d <= comp.snap PROVE FALSE
        OBVIOUS
      <4>2. d \in Entry /\ d \in Nat
        BY <1>0, <1>4, Entries
      <4>3. Sees(d, KeyOf(n), s)
        BY <2>1, <3>2, <4>1, <4>2 DEF Sees
      <4> QED
        BY <2>1, <2>2, <4>1, <4>2, <4>3
    <3>4. hist[n].del /\ n <= comp.snap /\ IsBaseLevelForKey(KeyOf(n))
      BY <1>0, <1>4, <3>1, <3>2, <3>3, LeftOut
    <3>5. ASSUME NEW d \in Everything', Sees(d, KeyOf(n), s) PROVE FALSE
      <4>1. d \in Everything /\ d \in Entry /\ d \in Nat /\ d # n
        BY <1>0, <1>14, <1>15, <2>5, <3>5, Entries
      <4>2. d < n /\ KeyOf(d) = KeyOf(n)
        BY <2>1, <2>2, <3>5, <4>1 DEF Sees
      <4>3. d \in Ins \/ d \in UNION comp.base
        BY <1>5, <3>1, <4>1, <4>2 DEF OlderInside
      <4>4. CASE d \in Ins
        <5>1. d \in Filed'
          BY <1>15, <1>16, <3>5, <4>4
        <5>2. d \in Kept(Ins)
          BY <1>14, <4>4, <5>1
        <5>3. n > d /\ KeyOf(n) = KeyOf(d)
          BY <2>1, <4>1, <4>2
        <5>4. n > comp.snap
          BY <1>0, <1>4, <3>1, <3>2, <5>2, <5>3, KeptFacts
        <5> QED
          BY <2>1, <3>2, <3>4, <5>4
      <4>5. CASE d \in UNION comp.base
        <5>1. PICK f \in comp.base : d \in f
          BY <4>5
        <5>2. f \in File
          <6>1. f \in Deep(comp.level)
            BY <1>5, <5>1
          <6>2. PICK j \in Level : f \in files[j]
            BY <6>1 DEF Deep
          <6> QED
            BY <1>0, <6>2, TypeFacts
        <5>3. FirstKey(f) <= KeyOf(d) /\ KeyOf(d) <= LastKey(f)
          BY <1>0, <5>1, <5>2, KeyRange
        <5> QED
          BY <3>4, <4>2, <5>1, <5>3 DEF IsBaseLevelForKey
      <4> QED
        BY <4>3, <4>4, <4>5
    <3> QED
      BY <3>4, <3>5
  <2> QED
    BY <2>3, <2>4, <2>5
<1>19. Complete'
  <2>1. \A e : KeyOf(e)' = KeyOf(e)
    BY <1>12 DEF KeyOf
  <2>2. \A e, k, s : Sees(e, k, s)' <=> Sees(e, k, s)
    BY <2>1 DEF Sees
  <2>3. ASSUME NEW n, NEW k, NEW s PROVE IsNewest(n, Entry, k, s)' <=> IsNewest(n, Entry, k, s)
    BY <1>17, <2>2 DEF IsNewest
  <2>4. SUFFICES ASSUME NEW n \in Entry', NEW s \in Held', IsNewest(n, Entry, KeyOf(n), s)'
                 PROVE  (n \in Everything \/ (hist[n].del /\ \A d \in Everything : ~Sees(d, KeyOf(n), s)))'
    BY DEF Complete
  <2>5. n \in Entry /\ s \in Held
    BY <1>17, <2>4
  <2>6. IsNewest(n, Entry, KeyOf(n), s)
    BY <1>17, <2>1, <2>2, <2>4 DEF IsNewest
  <2>7. n \in Everything' \/ (hist[n].del /\ \A d \in Everything' : ~Sees(d, KeyOf(n), s))
    BY <1>18, <2>5, <2>6
  <2> QED
    BY <1>12, <2>1, <2>2, <2>7 DEF Sees, KeyOf
<1>20. NoSnapshots' /\ Compacting'
  BY <1>0, <1>1, <1>12 DEF NoSnapshots, Compacting, NoComp
<1> QED
  BY <1>13, <1>19, <1>20


\* All of it holds at the start.
LEMMA LevelsInit == Init => LevelsInv
<1> SUFFICES ASSUME Init PROVE LevelsInv
  OBVIOUS
<1>1. TypeInv
  BY TypeInit
<1>2. hist = << >> /\ mem = {} /\ imm = {} /\ snapshots = {} /\ ~comp.on
      /\ \A l \in Level : files[l] = {}
  BY DEF Init, NoComp
<1>3. last = 0 /\ Entry = {}
  BY <1>2 DEF last, Entry
<1>4. Filed = {}
  BY <1>2 DEF Filed
<1>5. Order
  <2>1. Ages
    BY <1>2, <1>4, LevelFacts DEF Ages, Older
  <2>2. FilesApart
    BY <1>2 DEF FilesApart
  <2>3. NewerAbove
    BY <1>2 DEF NewerAbove
  <2> QED
    BY <2>1, <2>2, <2>3 DEF Order
<1>6. Complete
  BY <1>3 DEF Complete
<1> QED
  BY <1>1, <1>2, <1>5, <1>6 DEF LevelsInv, NoSnapshots, Compacting

\* Every step keeps all of it.
LEMMA LevelsStep ==
  ASSUME Automatic
  PROVE  LevelsInv /\ [Next]_vars => LevelsInv'
<1> SUFFICES ASSUME LevelsInv, [Next]_vars PROVE LevelsInv'
  OBVIOUS
<1>1. TypeInv'
  BY TypeStep DEF LevelsInv
<1>2. SUFFICES NoSnapshots' /\ Order' /\ Compacting' /\ Complete'
  BY <1>1 DEF LevelsInv
<1>3. CASE UNCHANGED vars
  <2>1. UNCHANGED <<hist, mem, imm, files, snapshots, comp>>
    BY <1>3 DEF vars
  <2>2. Everything' = Everything /\ Filed' = Filed /\ Held' = Held
    BY <2>1 DEF Everything, Filed, Level, Held, last
  <2>3. Ages'
    BY <2>1, <2>2 DEF LevelsInv, Order, Ages, Older
  <2>4. NoSnapshots'
    BY <2>1 DEF LevelsInv, NoSnapshots
  <2> QED
    BY <2>1, <2>2, <2>3, <2>4, QuietStep
<1>4. ASSUME NEW k \in Key, NEW del \in BOOLEAN, Write(k, del)
      PROVE  NoSnapshots' /\ Order' /\ Compacting' /\ Complete'
  BY <1>4, LevelsWrite
<1>5. ASSUME NEW l \in 0..(NumLevels - 2), CompactStart(l) \/ TrivialMove(l)
      PROVE  NoSnapshots' /\ Order' /\ Compacting' /\ Complete'
  BY <1>5, LevelsStart, LevelsMove
<1> QED
  BY <1>3, <1>4, <1>5, LevelsSwitch, LevelsFlush, LevelsSnapshot, LevelsDone DEF Next

\* While nobody asks for a range to be compacted, flushes, moves and compactions
\* keep the files of a level apart and the newer entry of a key above the older,
\* which the search level by level stands on.
THEOREM LevelsInOrder == Automatic => (Spec => []LevelsOrdered)
<1> SUFFICES ASSUME Automatic PROVE Spec => []LevelsOrdered
  OBVIOUS
<1>1. Init => LevelsInv
  BY LevelsInit
<1>2. LevelsInv /\ [Next]_vars => LevelsInv'
  BY LevelsStep
<1>3. LevelsInv => LevelsOrdered
  BY PropertiesFollow DEF LevelsInv, TypeInv, Order
<1> QED
  BY <1>1, <1>2, <1>3, PTL DEF Spec

\* And then Get and an iterator give every snapshot somebody holds the last
\* write of a key that it covers, whatever was flushed, moved and compacted and
\* whatever entries the compactions left out.
THEOREM ReadsExact == Automatic => (Spec => []ReadsRight)
<1> SUFFICES ASSUME Automatic PROVE Spec => []ReadsRight
  OBVIOUS
<1>1. Init => LevelsInv
  BY LevelsInit
<1>2. LevelsInv /\ [Next]_vars => LevelsInv'
  BY LevelsStep
<1>3. LevelsInv => ReadsRight
  BY PropertiesFollow DEF LevelsInv, TypeInv, Order
<1> QED
  BY <1>1, <1>2, <1>3, PTL DEF Spec

=============================================================================
