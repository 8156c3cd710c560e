------------------------ MODULE BenchmarkToolsProofs ------------------------
(***************************************************************************)
(* The benchmark site.  What is published of the artifacts is true of the  *)
(* files, and what a cleanup removes is what no lane shows.  The scripts   *)
(* sort everything they write, so this rests on what sorting does: every   *)
(* element gets a place of its own (SortedIs).  ManifestIs says what the   *)
(* readers of a manifest rely on.                                          *)
(*                                                                         *)
(* The benchmark of the transports.  The sample of a session is honest,    *)
(* for every audio and however sender and receive task meet, and what is   *)
(* compared is decided once and earned.  SampleHonest is about a session   *)
(* that is over; AudioInv and EndInv say what holds at each of its awaits. *)
(* DecisionInv says of what the last comparison was made.                  *)
(***************************************************************************)
EXTENDS BenchmarkSite, TransportDecision, WellFoundedInduction, FiniteSetTheorems, SequenceTheorems, TLAPS

-----------------------------------------------------------------------------
(* Sorting                                                                 *)

\* A set of naturals that is not empty has a least element.
LEMMA LeastNat == ASSUME NEW T, T \subseteq Nat, T # {}
                  PROVE  \E x \in T : \A y \in T : x <= y
<1> DEFINE R == {ss \in Nat \X Nat : ss[1] < ss[2]}
<1>1. IsWellFoundedOn(R, Nat)  BY NatLessThanWellFounded DEF OpToRel
<1> HIDE DEF R
<1>2. PICK x \in T : \A y \in T : ~(<<y, x>> \in R)  BY <1>1, WFMin
<1>3. ASSUME NEW y \in T PROVE x <= y
  <2>1. x \in Nat /\ y \in Nat  OBVIOUS
  <2>2. ~(y < x)  BY <1>2, <2>1 DEF R
  <2> QED  BY <2>1, <2>2
<1> QED  BY <1>3

\* Keys of the same length are in one order: the first number in which they differ
\* decides.
Keys(n) == {k \in Seq(Int) : Len(k) = n}

LEMMA KeysAre == ASSUME NEW n \in Nat, NEW k \in Keys(n)
                 PROVE  DOMAIN k = 1..n /\ \A i \in 1..n : k[i] \in Int
BY DEF Keys

LEMMA KeysDiffer ==
    ASSUME NEW n \in Nat, NEW a \in Keys(n), NEW b \in Keys(n), a # b
    PROVE  Before(a, b) \/ Before(b, a)
<1> DEFINE T == {i \in 1..n : a[i] # b[i]}
<1>1. DOMAIN a = 1..n /\ DOMAIN b = 1..n /\ \A i \in 1..n : a[i] \in Int /\ b[i] \in Int  BY KeysAre
<1>2. a = [i \in 1..n |-> a[i]] /\ b = [i \in 1..n |-> b[i]]
  <2>1. a \in Seq(Int) /\ b \in Seq(Int)  BY DEF Keys
  <2> QED  BY <1>1, <2>1
<1>3. T # {}  BY <1>2
<1>4. T \subseteq Nat  OBVIOUS
<1>5. PICK i \in T : \A j \in T : i <= j  BY <1>3, <1>4, LeastNat
<1>6. i \in 1..n /\ a[i] # b[i]  BY <1>5
<1>7. \A j \in 1..(i - 1) : a[j] = b[j]
  <2>1. \A j \in 1..(i - 1) : j \in 1..n /\ ~(i <= j)  BY <1>6
  <2> QED  BY <1>5, <2>1
<1>8. a[i] < b[i] \/ b[i] < a[i]  BY <1>1, <1>6
<1> QED  BY <1>1, <1>6, <1>7, <1>8 DEF Before

LEMMA KeysOrdered ==
    ASSUME NEW n \in Nat, NEW a \in Keys(n), NEW b \in Keys(n), NEW c \in Keys(n)
    PROVE  /\ ~Before(a, a)
           /\ Before(a, b) /\ Before(b, c) => Before(a, c)
<1>1. /\ DOMAIN a = 1..n /\ DOMAIN b = 1..n
      /\ \A i \in 1..n : a[i] \in Int /\ b[i] \in Int /\ c[i] \in Int
  BY KeysAre
<1>2. ~Before(a, a)  BY <1>1 DEF Before
<1>3. ASSUME Before(a, b), Before(b, c) PROVE Before(a, c)
  <2>1. PICK i \in 1..n : a[i] < b[i] /\ \A j \in 1..(i - 1) : a[j] = b[j]  BY <1>1, <1>3 DEF Before
  <2>2. PICK k \in 1..n : b[k] < c[k] /\ \A j \in 1..(k - 1) : b[j] = c[j]  BY <1>1, <1>3 DEF Before
  <2>3. CASE i <= k
    <3>1. a[i] < c[i]
      <4>1. i = k \/ i \in 1..(k - 1)  BY <2>3
      <4> QED  BY <1>1, <2>1, <2>2, <4>1
    <3>2. \A j \in 1..(i - 1) : j \in 1..(k - 1)  BY <2>3
    <3>3. \A j \in 1..(i - 1) : a[j] = c[j]  BY <2>1, <2>2, <3>2
    <3> QED  BY <1>1, <3>1, <3>3 DEF Before
  <2>4. CASE k < i
    <3>1. k \in 1..(i - 1)  BY <2>4
    <3>2. a[k] < c[k]  BY <2>1, <2>2, <3>1
    <3>3. \A j \in 1..(k - 1) : j \in 1..(i - 1)  BY <2>4
    <3>4. \A j \in 1..(k - 1) : a[j] = c[j]  BY <2>1, <2>2, <3>3
    <3> QED  BY <1>1, <3>2, <3>4 DEF Before
  <2> QED  BY <2>3, <2>4
<1> QED  BY <1>2, <1>3

\* Sorting gives each element a place of its own and fills all places.
Sortable(keys) ==
    /\ IsFiniteSet(DOMAIN keys)
    /\ \E n \in Nat : \A x \in DOMAIN keys : keys[x] \in Keys(n)
    /\ \A x, y \in DOMAIN keys : keys[x] = keys[y] => x = y

LEMMA PlacesFill ==
    ASSUME NEW T, IsFiniteSet(T), NEW below \in [T -> SUBSET T], \A p \in T : p \in below[p],
           \A p, q \in T : p # q => \/ below[p] \subseteq below[q] /\ q \notin below[p]
                                    \/ below[q] \subseteq below[p] /\ p \notin below[q]
    PROVE  [p \in T |-> Cardinality(below[p])] \in Bijection(T, 1..Cardinality(T))
<1> DEFINE f == [p \in T |-> Cardinality(below[p])]
           m == Cardinality(T)
<1>0. m \in Nat  BY FS_CardinalityType
<1>1. ASSUME NEW p \in T PROVE IsFiniteSet(below[p]) /\ Cardinality(below[p]) \in 1..m
  <2>1. below[p] \in SUBSET T  OBVIOUS
  <2>2. IsFiniteSet(below[p]) /\ Cardinality(below[p]) <= m  BY <2>1, FS_Subset
  <2>3. below[p] # {}  OBVIOUS
  <2>4. Cardinality(below[p]) \in Nat /\ Cardinality(below[p]) # 0
    BY <2>2, <2>3, FS_CardinalityType, FS_EmptySet
  <2> QED  BY <1>0, <2>2, <2>4
<1>2. ASSUME NEW p \in T, NEW q \in T, below[p] \subseteq below[q], q \notin below[p]
      PROVE  Cardinality(below[p]) # Cardinality(below[q])
  <2>1. below[p] \in SUBSET below[q] /\ below[p] # below[q] /\ IsFiniteSet(below[q])  BY <1>1, <1>2
  <2> QED  BY <2>1, FS_Subset
<1>3. \A p, q \in T : p # q => Cardinality(below[p]) # Cardinality(below[q])  BY <1>2
<1>4. f \in [T -> 1..m]  BY <1>1
<1>5. f \in Injection(T, 1..m)  BY <1>3, <1>4 DEF Injection, IsInjective
<1>6. IsFiniteSet(1..m) /\ Cardinality(1..m) = m  BY <1>0, FS_Interval
<1>7. f \in Surjection(T, 1..m)  BY <1>5, <1>6, FS_Injection
<1> QED  BY <1>5, <1>7 DEF Bijection

LEMMA SortedIs ==
    ASSUME NEW keys, Sortable(keys)
    PROVE  /\ DOMAIN Sorted(keys) = 1..Cardinality(DOMAIN keys)
           /\ Cardinality(DOMAIN keys) \in Nat
           /\ \A i \in DOMAIN Sorted(keys) : Sorted(keys)[i] \in DOMAIN keys
           /\ \A x \in DOMAIN keys : \E i \in DOMAIN Sorted(keys) : Sorted(keys)[i] = x
<1> DEFINE D == DOMAIN keys
           T == {<<keys[x], x>> : x \in D}
           g == [x \in D |-> <<keys[x], x>>]
           below == [p \in T |-> {q \in T : ~Before(p[1], q[1])}]
           f == [p \in T |-> Cardinality(below[p])]
           P == {<<f[p], p[2]>> : p \in T}
           s == [i \in 1..Cardinality(T) |-> (CHOOSE p \in P : p[1] = i)[2]]
<1>1. PICK n \in Nat : \A x \in D : keys[x] \in Keys(n)  BY DEF Sortable
<1>2. IsFiniteSet(D) /\ \A x, y \in D : keys[x] = keys[y] => x = y  BY DEF Sortable
<1>3. g \in Bijection(D, T)  BY DEF Bijection, Injection, Surjection, IsInjective
<1>4. IsFiniteSet(T) /\ Cardinality(T) = Cardinality(D) /\ Cardinality(D) \in Nat
  BY <1>2, <1>3, FS_Bijection, FS_CardinalityType DEF ExistsBijection
<1>5. (\A p \in T : p[1] \in Keys(n)) /\ \A p, q \in T : p[1] = q[1] => p = q  BY <1>1, <1>2
<1>6. Sorted(keys) = s
  <2>1. P = {<<Cardinality({q \in T : ~Before(p[1], q[1])}), p[2]>> : p \in T}  OBVIOUS
  <2> HIDE DEF P
  <2> QED  BY <2>1 DEF Sorted
<1>7. T = {<<keys[x], x>> : x \in D}  OBVIOUS
<1> HIDE DEF T
<1>8. f \in Bijection(T, 1..Cardinality(T))
  <2>1. below \in [T -> SUBSET T]  OBVIOUS
  <2>2. \A p \in T : p \in below[p]
    <3>1. \A p \in T : ~Before(p[1], p[1])  BY <1>5, KeysOrdered
    <3> QED  BY <3>1
  <2>3. ASSUME NEW p \in T, NEW q \in T, Before(p[1], q[1])
        PROVE  below[p] \subseteq below[q] /\ q \notin below[p]
    <3>1. ASSUME NEW r \in T, ~Before(p[1], r[1]), Before(q[1], r[1]) PROVE FALSE
      <4>1. p[1] \in Keys(n) /\ q[1] \in Keys(n) /\ r[1] \in Keys(n)  BY <1>5
      <4> QED  BY <2>3, <3>1, <4>1, KeysOrdered
    <3> QED  BY <2>3, <3>1
  <2>4. \A p, q \in T : p # q => Before(p[1], q[1]) \/ Before(q[1], p[1])  BY <1>5, KeysDiffer
  <2> HIDE DEF below
  <2>5. \A p, q \in T : p # q => \/ below[p] \subseteq below[q] /\ q \notin below[p]
                                 \/ below[q] \subseteq below[p] /\ p \notin below[q]
    BY <2>3, <2>4
  <2>6. [p \in T |-> Cardinality(below[p])] \in Bijection(T, 1..Cardinality(T))
    BY <1>4, <2>1, <2>2, <2>5, PlacesFill
  <2> QED  BY <2>6
<1> HIDE DEF below, f
<1>9. /\ \A p \in T : f[p] \in 1..Cardinality(T)
      /\ \A p, q \in T : f[p] = f[q] => p = q
      /\ \A i \in 1..Cardinality(T) : \E p \in T : f[p] = i
  BY <1>8 DEF Bijection, Injection, Surjection, IsInjective
<1>10. ASSUME NEW p \in T PROVE s[f[p]] = p[2] /\ f[p] \in 1..Cardinality(T)
  <2>1. <<f[p], p[2]>> \in P /\ <<f[p], p[2]>>[1] = f[p]  OBVIOUS
  <2>2. \A r \in P : r[1] = f[p] => r = <<f[p], p[2]>>  BY <1>9
  <2>3. (CHOOSE r \in P : r[1] = f[p]) = <<f[p], p[2]>>  BY <2>1, <2>2
  <2> HIDE DEF P
  <2> QED  BY <1>9, <2>3
<1>11. DOMAIN s = 1..Cardinality(T)  OBVIOUS
<1> HIDE DEF s
<1>12. \A p \in T : p[2] \in D  BY <1>7
<1>13. ASSUME NEW x \in D PROVE \E p \in T : p[2] = x
  <2>1. <<keys[x], x>> \in T /\ <<keys[x], x>>[2] = x  BY <1>7
  <2> QED  BY <2>1
<1> QED  BY <1>4, <1>6, <1>9, <1>10, <1>11, <1>12, <1>13

\* A finite set with a number for each element has one with the largest.
LEMMA LargestExists ==
    ASSUME NEW U, IsFiniteSet(U), U # {}, NEW f, \A x \in U : f[x] \in Int
    PROVE  \E x \in U : \A y \in U : f[y] <= f[x]
<1> DEFINE Bad(W) == W \subseteq U /\ W # {} /\ ~\E x \in W : \A y \in W : f[y] <= f[x]
           T == {n \in Nat : \E W \in SUBSET U : Bad(W) /\ Cardinality(W) = n}
<1>1. \A W \in SUBSET U : IsFiniteSet(W) /\ Cardinality(W) \in Nat  BY FS_Subset, FS_CardinalityType
<1> SUFFICES ASSUME T # {} PROVE FALSE
  <2>1. Bad(U) => Cardinality(U) \in T  BY <1>1
  <2> QED  BY <2>1
<1>0. T \subseteq Nat  OBVIOUS
<1>2. PICK n \in T : \A k \in T : n <= k  BY <1>0, LeastNat
<1>3. PICK W \in SUBSET U : Bad(W) /\ Cardinality(W) = n  BY <1>2
<1>4. PICK w \in W : TRUE  BY <1>3
<1> DEFINE V == W \ {w}
<1>5. V \in SUBSET U /\ Cardinality(V) = n - 1 /\ n - 1 \in Nat /\ n \in Nat
  <2>1. IsFiniteSet(W) /\ w \in W /\ Cardinality(W) = n /\ n \in Nat  BY <1>1, <1>2, <1>3, <1>4
  <2>2. Cardinality(V) = n - 1  BY <2>1, FS_RemoveElement
  <2>3. V \in SUBSET U  BY <1>3
  <2> QED  BY <1>1, <2>1, <2>2, <2>3
<1>6. ~Bad(V)
  <2>1. ASSUME n - 1 \in T PROVE FALSE
    <3>1. n <= n - 1 /\ n \in Nat  BY <1>2, <1>5, <2>1
    <3> QED  BY <3>1
  <2>2. Bad(V) => n - 1 \in T  BY <1>5
  <2> QED  BY <2>1, <2>2
<1>7. CASE V = {}
  <2>1. W = {w} /\ f[w] \in Int  BY <1>4, <1>7
  <2> QED  BY <1>3, <2>1
<1>8. CASE V # {}
  <2>1. PICK v \in V : \A y \in V : f[y] <= f[v]  BY <1>5, <1>6, <1>8
  <2>2. f[v] \in Int /\ f[w] \in Int /\ (\A y \in W : f[y] \in Int) /\ v \in W  BY <1>3, <1>4, <2>1
  <2>3. CASE f[w] <= f[v]
    <3>1. \A y \in W : f[y] <= f[v]  BY <2>1, <2>3
    <3> QED  BY <1>3, <2>2, <3>1
  <2>4. CASE ~(f[w] <= f[v])
    <3>1. \A y \in W : f[y] <= f[w]  BY <2>1, <2>2, <2>4
    <3> QED  BY <1>3, <1>4, <3>1
  <2> QED  BY <2>3, <2>4
<1> QED  BY <1>7, <1>8

-----------------------------------------------------------------------------
(* What is on disk                                                         *)

FilesOk(fs) ==
    /\ fs = [n \in DOMAIN fs |-> fs[n]]
    /\ IsFiniteSet(DOMAIN fs) /\ DOMAIN fs \subseteq DOMAIN PayloadsOf
    /\ \A n \in DOMAIN fs : fs[n] \in PayloadsOf[n]
FilesInv == FilesOk(files)

LEMMA FilesHold == SiteSpec => []FilesInv
<1>1. SiteInit => FilesInv
  <2> SUFFICES ASSUME SiteInit PROVE FilesInv  OBVIOUS
  <2>1. files = <<>>  BY DEF SiteInit
  <2>2. DOMAIN <<>> = {} /\ <<>> = [n \in {} |-> <<>>[n]]  OBVIOUS
  <2> QED  BY <2>1, <2>2, FS_EmptySet DEF FilesInv, FilesOk
<1>2. ASSUME FilesInv, [SiteNext]_siteVars PROVE FilesInv'
  <2>1. ASSUME Measure PROVE FilesInv'
    <3>1. PICK n \in DOMAIN PayloadsOf : \E p \in PayloadsOf[n] :
             files' = [f \in DOMAIN files \cup {n} |-> IF f = n THEN p ELSE files[f]]
      BY <2>1 DEF Measure
    <3>2. PICK p \in PayloadsOf[n] :
             files' = [f \in DOMAIN files \cup {n} |-> IF f = n THEN p ELSE files[f]]
      BY <3>1
    <3>3. DOMAIN files' = DOMAIN files \cup {n}  BY <3>2
    <3>4. IsFiniteSet(DOMAIN files \cup {n})  BY <1>2, FS_AddElement DEF FilesInv, FilesOk
    <3>5. \A f \in DOMAIN files' : files'[f] \in PayloadsOf[f]  BY <1>2, <3>2 DEF FilesInv, FilesOk
    <3>6. files' = [f \in DOMAIN files' |-> files'[f]]  BY <3>2
    <3> QED  BY <1>2, <3>3, <3>4, <3>5, <3>6 DEF FilesInv, FilesOk
  <2>2. ASSUME CleanUp PROVE FilesInv'
    <3> DEFINE U == {n \in DOMAIN files : PathOf[n] \notin report.said.paths}
    <3>1. files' = [n \in U |-> files[n]]  BY <2>2 DEF CleanUp
    <3>2. U \in SUBSET DOMAIN files  OBVIOUS
    <3> HIDE DEF U
    <3>3. IsFiniteSet(U)  BY <1>2, <3>2, FS_Subset DEF FilesInv, FilesOk
    <3>4. files' = [f \in DOMAIN files' |-> files'[f]] /\ DOMAIN files' = U  BY <3>1
    <3> QED  BY <1>2, <3>1, <3>2, <3>3, <3>4 DEF FilesInv, FilesOk
  <2>3. ASSUME UNCHANGED files PROVE FilesInv'  BY <1>2, <2>3 DEF FilesInv, FilesOk
  <2> QED  BY <1>2, <2>1, <2>2, <2>3 DEF SiteNext, siteVars, Build, Prerender, Report, ReportGiven
<1> QED  BY <1>1, <1>2, PTL DEF SiteSpec
-----------------------------------------------------------------------------
(* The manifest                                                            *)

LEMMA StampsAre ==
    ASSUME NEW fs, FilesOk(fs), NEW n \in Listed(fs)
    PROVE  /\ ArtifactTimestamp(n, fs[n]) \in Nat /\ fs[n].speed \in Nat
           /\ n \in DOMAIN fs /\ n \in Nat /\ n # NoArtifact
<1>1. n \in DOMAIN fs /\ IsAsrPayload(fs[n])  BY DEF Listed
<1>2. n \in DOMAIN PayloadsOf /\ fs[n] \in PayloadsOf[n]  BY <1>1 DEF FilesOk
<1>3. fs[n].date \in Nat /\ fs[n].speed \in Nat /\ NameDate[n] \in Nat
  BY <1>1, <1>2, SiteAssumption DEF SiteAssumption
<1>4. n \in Nat /\ n # NoArtifact  BY <1>2, SiteAssumption DEF SiteAssumption
<1> QED  BY <1>1, <1>3, <1>4 DEF ArtifactTimestamp

LEMMA ListedFinite == ASSUME NEW fs, FilesOk(fs) PROVE IsFiniteSet(Listed(fs))
<1>1. Listed(fs) \in SUBSET DOMAIN fs  BY DEF Listed
<1> QED  BY <1>1, FS_Subset DEF FilesOk

\* The newest of a key: Latest finds one if there is one.
Newest(fs, key) ==
    {n \in Listed(fs) : /\ BenchmarkKey(fs[n]) = key
                        /\ \A m \in Listed(fs) : BenchmarkKey(fs[m]) = key =>
                              ArtifactTimestamp(m, fs[m]) <= ArtifactTimestamp(n, fs[n])}

LEMMA LatestIs ==
    ASSUME NEW fs, FilesOk(fs), NEW key
    PROVE  \/ Latest(fs, key) = NoArtifact /\ \A n \in Listed(fs) : BenchmarkKey(fs[n]) # key
           \/ /\ Latest(fs, key) \in Newest(fs, key)
              /\ \A n \in Newest(fs, key) : Latest(fs, key) <= n
<1> DEFINE same == {n \in Listed(fs) : BenchmarkKey(fs[n]) = key}
           newest == {n \in same : \A m \in same :
                         ArtifactTimestamp(m, fs[m]) <= ArtifactTimestamp(n, fs[n])}
           f == [n \in same |-> ArtifactTimestamp(n, fs[n])]
<1>1. Latest(fs, key) = IF same = {} THEN NoArtifact ELSE Min(newest)  BY DEF Latest
<1>2. CASE same = {}  BY <1>1, <1>2
<1>3. CASE same # {}
  <2>1. IsFiniteSet(same)
    <3>1. same \in SUBSET Listed(fs)  OBVIOUS
    <3> QED  BY <3>1, ListedFinite, FS_Subset
  <2>2. \A n \in same : f[n] \in Int /\ n \in Nat  BY StampsAre
  <2>3. \E n \in same : \A m \in same : f[m] <= f[n]
    <3> HIDE DEF same, f
    <3> QED  BY <1>3, <2>1, <2>2, LargestExists
  <2>4. newest # {} /\ newest \subseteq Nat  BY <2>2, <2>3
  <2>5. newest = Newest(fs, key)  BY DEF Newest
  <2> HIDE DEF newest, same, f
  <2>6. \E n \in newest : \A m \in newest : n <= m  BY <2>4, LeastNat
  <2>7. Min(newest) \in newest /\ \A m \in newest : Min(newest) <= m  BY <2>6 DEF Min
  <2> QED  BY <1>1, <1>3, <2>5, <2>7
<1> QED  BY <1>2, <1>3

LEMMA ShownListed ==
    ASSUME NEW fs, FilesOk(fs), NEW t, Shown(fs, t) # NoArtifact
    PROVE  Shown(fs, t) \in Listed(fs)
<1>1. CASE t.pinned # NoArtifact  BY <1>1 DEF Shown
<1>2. CASE t.pinned = NoArtifact
  <2>1. Shown(fs, t) = Latest(fs, TrackKey(t))  BY <1>2 DEF Shown
  <2> QED  BY <2>1, LatestIs DEF Newest
<1> QED  BY <1>1, <1>2

\* What of an entry is about its artifact.
Of(fs, e, n) ==
    /\ e.name = n /\ e.stamp = ArtifactTimestamp(n, fs[n]) /\ e.size = fs[n].size
    /\ e.score \in Int

LEMMA ScoreNumber == ASSUME NEW speed \in Nat, NEW status PROVE OverallScore(speed, status) \in Int
<1>1. (CASE status = "legacy" -> 94 [] status = "blocked" -> 55 [] OTHER -> 100) \in Int  OBVIOUS
<1> QED  BY <1>1 DEF OverallScore

LEMMA AsrEntryIs ==
    ASSUME NEW fs, FilesOk(fs), NEW n \in Listed(fs)
    PROVE  Of(fs, BuildAsrEntry(n, fs[n]), n) /\ BuildAsrEntry(n, fs[n]).speed = fs[n].speed
BY StampsAre, ScoreNumber DEF BuildAsrEntry, Of

LEMMA TrackEntryIs ==
    ASSUME NEW fs, FilesOk(fs), NEW t
    PROVE  LET e == TrackEntry(fs, t)
           IN  /\ e.name = Shown(fs, t) /\ e.slug = t.slug /\ e.status = t.status /\ e.score \in Int
               /\ e.name # NoArtifact => e.name \in Listed(fs) /\ Of(fs, e, e.name)
<1> DEFINE n == Shown(fs, t)
<1>1. CASE n = NoArtifact
  <2>1. NoEntry.speed \in Nat  BY DEF NoEntry
  <2>2. OverallScore(NoEntry.speed, t.status) \in Int  BY <2>1, ScoreNumber
  <2>3. TrackEntry(fs, t) = [NoEntry EXCEPT !.slug = t.slug, !.status = t.status,
            !.runtime = RuntimeLabel(t.benched), !.target = t.target,
            !.score = OverallScore(NoEntry.speed, t.status)]
    BY <1>1 DEF TrackEntry
  <2> QED  BY <1>1, <2>2, <2>3 DEF NoEntry
<1>2. CASE n # NoArtifact
  <2> DEFINE b == BuildAsrEntry(n, fs[n])
  <2>1. n \in Listed(fs)  BY <1>2, ShownListed
  <2>2. Of(fs, b, n) /\ b.speed \in Nat  BY <2>1, AsrEntryIs, StampsAre
  <2>3. OverallScore(b.speed, t.status) \in Int  BY <2>2, ScoreNumber
  <2>4. TrackEntry(fs, t) = [b EXCEPT !.slug = t.slug, !.status = t.status,
            !.runtime = RuntimeLabel(t.benched), !.target = t.target,
            !.score = OverallScore(b.speed, t.status)]
    BY <1>2 DEF TrackEntry
  <2> QED  BY <2>1, <2>2, <2>3, <2>4 DEF BuildAsrEntry, Of
<1> QED  BY <1>1, <1>2

LEMMA HistoryEntryIs ==
    ASSUME NEW fs, FilesOk(fs), NEW tracks, NEW n \in Listed(fs)
    PROVE  Of(fs, HistoryEntry(fs, tracks, n), n)
<1> DEFINE b == BuildAsrEntry(n, fs[n])
           match == MatchingTrack(b, tracks)
           t == CHOOSE t \in match : TRUE
           status == IF t.name = n THEN t.status ELSE "legacy"
<1>1. Of(fs, b, n) /\ b.speed \in Nat  BY AsrEntryIs, StampsAre
<1>2. OverallScore(b.speed, status) \in Int  BY <1>1, ScoreNumber
<1>3. HistoryEntry(fs, tracks, n) =
        IF match = {} THEN b
        ELSE [b EXCEPT !.slug = t.slug, !.target = t.target, !.status = status,
                       !.score = OverallScore(b.speed, status)]
  BY DEF HistoryEntry
<1> HIDE DEF status, t, match
<1> QED  BY <1>1, <1>2, <1>3 DEF BuildAsrEntry, Of

LEMMA PairIsKey == ASSUME NEW a \in Int, NEW b \in Int
                   PROVE  <<a, b>> \in Keys(2) /\ <<a, b>>[1] = a /\ <<a, b>>[2] = b
BY DEF Keys

LEMMA TripleIsKey == ASSUME NEW a \in Int, NEW b \in Int, NEW c \in Int
                     PROVE  <<a, b, c>> \in Keys(3) /\ <<a, b, c>>[3] = c
BY DEF Keys

\* The history has an entry for each artifact, and only those.
LEMMA HistoryIs ==
    ASSUME NEW fs, FilesOk(fs), NEW tracks
    PROVE  /\ DOMAIN History(fs, tracks) \subseteq Nat
           /\ ToSet(History(fs, tracks)) = {HistoryEntry(fs, tracks, n) : n \in Listed(fs)}
           /\ IsFiniteSet(ToSet(History(fs, tracks)))
           /\ \A d, e \in ToSet(History(fs, tracks)) : d.name = e.name => d = e
<1> DEFINE U == {HistoryEntry(fs, tracks, n) : n \in Listed(fs)}
           keys == [e \in U |-> <<-e.stamp, -e.name>>]
           g == [n \in Listed(fs) |-> HistoryEntry(fs, tracks, n)]
<1>1. IsFiniteSet(U)
  <2>1. g \in Surjection(Listed(fs), U)  BY DEF Surjection
  <2> HIDE DEF g, U
  <2> QED  BY <2>1, ListedFinite, FS_Surjection
<1>2. ASSUME NEW e \in U
      PROVE  e.name \in Listed(fs) /\ e = HistoryEntry(fs, tracks, e.name) /\ e.name \in Int /\ e.stamp \in Int
  <2>1. PICK n \in Listed(fs) : e = HistoryEntry(fs, tracks, n)  OBVIOUS
  <2>2. e.name = n /\ e.stamp = ArtifactTimestamp(n, fs[n])  BY <2>1, HistoryEntryIs DEF Of
  <2> QED  BY <2>1, <2>2, StampsAre
<1> HIDE DEF U
<1>3. ASSUME NEW e \in U PROVE keys[e] \in Keys(2) /\ keys[e][2] = -e.name
  <2>1. -e.stamp \in Int /\ -e.name \in Int  BY <1>2
  <2> QED  BY <2>1, PairIsKey
<1>4. ASSUME NEW d \in U, NEW e \in U, keys[d] = keys[e] PROVE d = e
  <2>1. -d.name = -e.name /\ d.name \in Int /\ e.name \in Int  BY <1>2, <1>3, <1>4
  <2>2. d.name = e.name  BY <2>1
  <2> QED  BY <1>2, <2>2
<1>5. DOMAIN keys = U  OBVIOUS
<1>6. History(fs, tracks) = Sorted(keys)  BY DEF History, U
<1> HIDE DEF keys
<1>7. Sortable(keys)  BY <1>1, <1>3, <1>4, <1>5 DEF Sortable
<1>8. ToSet(History(fs, tracks)) = U  BY <1>5, <1>6, <1>7, SortedIs DEF ToSet
<1>9. DOMAIN History(fs, tracks) \subseteq Nat  BY <1>5, <1>6, <1>7, SortedIs
<1>10. \A d, e \in U : d.name = e.name => d = e  BY <1>2
<1> QED  BY <1>1, <1>8, <1>9, <1>10 DEF U

\* Ranking lanes keeps them.
LEMMA RankedIs ==
    ASSUME NEW tracks, NEW n \in Nat, DOMAIN tracks = 1..n, \A i \in 1..n : tracks[i].score \in Int
    PROVE  ToSet(Ranked(tracks)) = {tracks[i] : i \in DOMAIN tracks}
<1> DEFINE keys == [i \in DOMAIN tracks |-> <<StatusOrder(tracks[i].status), -tracks[i].score, i>>]
           s == Sorted(keys)
<1>1. DOMAIN keys = 1..n  OBVIOUS
<1>2. ASSUME NEW i \in 1..n PROVE keys[i] \in Keys(3) /\ keys[i][3] = i
  <2>1. StatusOrder(tracks[i].status) \in Int  BY DEF StatusOrder
  <2>2. -tracks[i].score \in Int  OBVIOUS
  <2> HIDE DEF keys
  <2>3. keys[i] = <<StatusOrder(tracks[i].status), -tracks[i].score, i>>  BY DEF keys
  <2> QED  BY <2>1, <2>2, <2>3, TripleIsKey
<1>3. Ranked(tracks) = [i \in DOMAIN tracks |-> tracks[s[i]]]  BY DEF Ranked
<1> HIDE DEF keys
<1>4. IsFiniteSet(1..n) /\ Cardinality(1..n) = n  BY FS_Interval
<1>5. Sortable(keys)  BY <1>1, <1>2, <1>4 DEF Sortable
<1>6. DOMAIN s = 1..n /\ (\A i \in 1..n : s[i] \in 1..n) /\ \A j \in 1..n : \E i \in 1..n : s[i] = j
  BY <1>1, <1>4, <1>5, SortedIs
<1> HIDE DEF s
<1> DEFINE r == Ranked(tracks)
<1>7. DOMAIN r = 1..n /\ \A i \in 1..n : r[i] = tracks[s[i]]  BY <1>3
<1> HIDE DEF r
<1>8. ASSUME NEW x \in ToSet(r) PROVE x \in {tracks[i] : i \in DOMAIN tracks}
  <2>1. PICK i \in 1..n : x = r[i]  BY <1>7, <1>8 DEF ToSet
  <2> QED  BY <2>1, <1>6, <1>7
<1>9. ASSUME NEW j \in DOMAIN tracks PROVE tracks[j] \in ToSet(r)
  <2>1. PICK i \in 1..n : s[i] = j  BY <1>6, <1>9
  <2>2. tracks[j] = r[i] /\ i \in DOMAIN r  BY <2>1, <1>7
  <2> QED  BY <2>2 DEF ToSet
<1>10. ToSet(r) = {tracks[i] : i \in DOMAIN tracks}  BY <1>8, <1>9
<1> QED  BY <1>10 DEF r

\* What the steps behind it rely on, of the manifest made of the files there are.
LEMMA ManifestIs ==
    ASSUME NEW fs, FilesOk(fs), NEW m, m = BuildManifest(fs)
    PROVE  /\ DOMAIN m.artifacts \subseteq Nat
           /\ {e.name : e \in ToSet(m.artifacts)} = Listed(fs)
           /\ \A e \in ToSet(m.artifacts) : Of(fs, e, e.name)
           /\ \A t \in ToSet(m.tracks) : \E i \in DOMAIN Catalog :
                /\ t = TrackEntry(fs, Catalog[i])
                /\ t.name = Shown(fs, Catalog[i]) /\ t.slug = Catalog[i].slug /\ t.status = Catalog[i].status
                /\ t.name # NoArtifact => t.name \in Listed(fs) /\ Of(fs, t, t.name)
           /\ \A i \in DOMAIN Catalog : TrackEntry(fs, Catalog[i]) \in ToSet(m.tracks)
           /\ IsFiniteSet(ToSet(m.artifacts))
           /\ \A d, e \in ToSet(m.artifacts) : d.name = e.name => d = e
<1> DEFINE tracks == [i \in DOMAIN Catalog |-> TrackEntry(fs, Catalog[i])]
           h == History(fs, tracks)
<1>1. m.tracks = Ranked(tracks) /\ m.artifacts = h  BY DEF BuildManifest
<1>2. /\ DOMAIN h \subseteq Nat
      /\ ToSet(h) = {HistoryEntry(fs, tracks, n) : n \in Listed(fs)}
      /\ IsFiniteSet(ToSet(h)) /\ \A d, e \in ToSet(h) : d.name = e.name => d = e
  BY HistoryIs
<1>3. \A n \in Listed(fs) : Of(fs, HistoryEntry(fs, tracks, n), n)  BY HistoryEntryIs
<1>4. Len(Catalog) \in Nat /\ DOMAIN Catalog = 1..Len(Catalog)  BY SiteAssumption DEF SiteAssumption
<1>5. \A i \in DOMAIN Catalog : tracks[i].score \in Int  BY TrackEntryIs
<1>6. ToSet(Ranked(tracks)) = {TrackEntry(fs, Catalog[i]) : i \in DOMAIN Catalog}
  <2>1. DOMAIN tracks = DOMAIN Catalog /\ \A i \in DOMAIN Catalog : tracks[i] = TrackEntry(fs, Catalog[i])
    OBVIOUS
  <2> HIDE DEF tracks
  <2>2. ToSet(Ranked(tracks)) = {tracks[i] : i \in DOMAIN tracks}  BY <1>4, <1>5, <2>1, RankedIs
  <2> QED  BY <2>1, <2>2
<1> HIDE DEF tracks, h
<1>7. ASSUME NEW e \in ToSet(h) PROVE Of(fs, e, e.name) /\ e.name \in Listed(fs)
  <2>1. PICK n \in Listed(fs) : e = HistoryEntry(fs, tracks, n)  BY <1>2
  <2>2. Of(fs, e, n)  BY <1>3, <2>1
  <2>3. e.name = n  BY <2>2 DEF Of
  <2> QED  BY <2>2, <2>3
<1>8. ASSUME NEW n \in Listed(fs) PROVE \E e \in ToSet(h) : e.name = n  BY <1>2, <1>3 DEF Of
<1>9. \A t \in ToSet(m.tracks) : \E i \in DOMAIN Catalog : t = TrackEntry(fs, Catalog[i])  BY <1>1, <1>6
<1>10. \A i \in DOMAIN Catalog : TrackEntry(fs, Catalog[i]) \in ToSet(m.tracks)  BY <1>1, <1>6
<1>11. {e.name : e \in ToSet(m.artifacts)} = Listed(fs)  BY <1>1, <1>7, <1>8
<1> QED  BY <1>1, <1>2, <1>7, <1>9, <1>10, <1>11, TrackEntryIs

-----------------------------------------------------------------------------
(* The checks                                                              *)

\* When make benchmark-site-check passes, what is published is true of the files
\* that are there, whatever was measured, built, rendered and removed before and
\* in which order (prerender_benchmark_homepage.py, main with --check).
THEOREM ChecksAreHonest == SiteSpec => []ChecksHonest
<1> DEFINE m == manifest
<1>1. ASSUME FilesInv, ManifestChecks, SiteChecks
      PROVE  /\ homepage.page.linked \subseteq DOMAIN pages
             /\ DOMAIN pages = Listed(files)
             /\ homepage.sitemap = [n \in DOMAIN pages |-> ArtifactTimestamp(n, files[n])]
             /\ homepage.llms.recommended = homepage.page.best
             /\ \A n \in DOMAIN pages :
                  /\ pages[n].file = {files[n]}
                  /\ pages[n].entry.stamp = ArtifactTimestamp(n, files[n])
                  /\ pages[n].entry.size = files[n].size
             /\ \A slug \in homepage.page.best : \E i \in DOMAIN Catalog :
                  Catalog[i].slug = slug /\ Catalog[i].status # "blocked" /\ Shown(files, Catalog[i]) # NoArtifact
  <2>1. m = BuildManifest(files) /\ FilesOk(files)  BY <1>1 DEF ManifestChecks, ManifestsMatch, FilesInv
  <2> HIDE DEF m
  <2>2. /\ DOMAIN m.artifacts \subseteq Nat
        /\ {e.name : e \in ToSet(m.artifacts)} = Listed(files)
        /\ \A e \in ToSet(m.artifacts) : Of(files, e, e.name)
        /\ \A t \in ToSet(m.tracks) : \E i \in DOMAIN Catalog :
             /\ t.name = Shown(files, Catalog[i]) /\ t.slug = Catalog[i].slug /\ t.status = Catalog[i].status
             /\ t.name # NoArtifact => t.name \in Listed(files) /\ Of(files, t, t.name)
    BY <2>1, ManifestIs
  <2> DEFINE rendered == RenderDetailPages(m, files)
  <2>3. /\ homepage = RenderSite(m)
        /\ \A n \in DOMAIN rendered : n \in DOMAIN pages /\ pages[n] = rendered[n]
        /\ DOMAIN pages \ DOMAIN rendered = {}
    BY <1>1 DEF SiteChecks, OrphanedDetailPages, m
  <2>4. DOMAIN rendered = Listed(files)  BY <2>2 DEF RenderDetailPages
  <2> HIDE DEF rendered
  <2>5. DOMAIN pages = Listed(files)  BY <2>3, <2>4
  <2>6. homepage.page = RenderHomepage(m) /\ homepage.sitemap = RenderSitemap(m) /\ homepage.llms = RenderLlms(m)
    BY <2>3 DEF RenderSite
  <2>7. ASSUME NEW t \in PublishedTracks(m)
        PROVE  /\ t.name \in Listed(files)
               /\ \E i \in DOMAIN Catalog :
                    Catalog[i].slug = t.slug /\ Catalog[i].status # "blocked" /\ Shown(files, Catalog[i]) # NoArtifact
    BY <2>2 DEF PublishedTracks
  <2>8. PrimaryEntries(m) \subseteq PublishedTracks(m) /\ SecondaryEntries(m) \subseteq PublishedTracks(m)
    BY DEF PrimaryEntries, SecondaryEntries
  <2>9. HistoricalSupportingEntries(m) \subseteq ToSet(m.artifacts)
    <3>1. ASSUME NEW U, U \subseteq DOMAIN m.artifacts, U # {} PROVE m.artifacts[Min(U)] \in ToSet(m.artifacts)
      <4>1. \E n \in U : \A k \in U : n <= k  BY <2>2, <3>1, LeastNat
      <4>2. Min(U) \in U  BY <4>1 DEF Min
      <4> QED  BY <3>1, <4>2 DEF ToSet
    <3> QED  BY <3>1 DEF HistoricalSupportingEntries
  <2>10. homepage.page.linked \subseteq DOMAIN pages
    <3>1. homepage.page.linked = {e.name : e \in PrimaryEntries(m) \cup SecondaryEntries(m)
                                              \cup HistoricalSupportingEntries(m)}
      BY <2>6 DEF RenderHomepage
    <3> QED  BY <2>2, <2>5, <2>7, <2>8, <2>9, <3>1
  <2>11. homepage.sitemap = [n \in DOMAIN pages |-> ArtifactTimestamp(n, files[n])]
    <3> DEFINE of(n) == {e \in ToSet(m.tracks) \cup ToSet(m.artifacts) : e.name = n}
    <3>1. RenderSitemap(m) = [n \in Listed(files) |-> Max({e.stamp : e \in of(n)})]
      BY <2>2 DEF RenderSitemap
    <3>2. ASSUME NEW n \in Listed(files) PROVE Max({e.stamp : e \in of(n)}) = ArtifactTimestamp(n, files[n])
      <4> DEFINE x == ArtifactTimestamp(n, files[n])
      <4>1. \A e \in of(n) : e.stamp = x
        <5>1. n # NoArtifact  BY <2>1, StampsAre
        <5> QED  BY <2>2, <5>1 DEF Of
      <4>2. \E e \in of(n) : TRUE  BY <2>2
      <4>3. {e.stamp : e \in of(n)} = {x}  BY <4>1, <4>2
      <4>4. x \in Int  BY <2>1, StampsAre
      <4> HIDE DEF x, of
      <4>5. Max({x}) = x  BY <4>4 DEF Max
      <4> QED  BY <4>3, <4>5 DEF x
    <3> QED  BY <2>5, <2>6, <3>1, <3>2
  <2>12. homepage.llms.recommended = homepage.page.best  BY <2>6 DEF RenderHomepage, RenderLlms
  <2>13. ASSUME NEW n \in DOMAIN pages
         PROVE  /\ pages[n].file = {files[n]}
                /\ pages[n].entry.stamp = ArtifactTimestamp(n, files[n])
                /\ pages[n].entry.size = files[n].size
    <3>1. n \in Listed(files) /\ n \in DOMAIN files /\ n # NoArtifact  BY <2>1, <2>5, StampsAre
    <3> DEFINE e == CHOOSE e \in ToSet(m.artifacts) : e.name = n
    <3>2. e \in ToSet(m.artifacts) /\ e.name = n
      <4>1. \E d \in ToSet(m.artifacts) : d.name = n  BY <2>2, <3>1
      <4> QED  BY <4>1
    <3>3. pages[n] = RenderDetailPage(DetailEntry(m, e), {files[f] : f \in DOMAIN files \cap {n}})
      BY <2>2, <2>3, <2>4, <3>1 DEF RenderDetailPages, rendered
    <3> HIDE DEF e
    <3>4. {files[f] : f \in DOMAIN files \cap {n}} = {files[n]}  BY <3>1
    <3>5. Of(files, DetailEntry(m, e), n)
      <4> DEFINE shown == {t \in ToSet(m.tracks) : t.name = n}
      <4>1. DetailEntry(m, e) = IF shown # {} THEN CHOOSE t \in shown : TRUE ELSE e  BY <3>2 DEF DetailEntry
      <4>2. \A t \in shown : Of(files, t, n)  BY <2>2, <3>1
      <4>3. Of(files, e, n)  BY <2>2, <3>2
      <4> HIDE DEF shown
      <4> QED  BY <4>1, <4>2, <4>3
    <3> QED  BY <3>3, <3>4, <3>5 DEF RenderDetailPage, Of
  <2>14. ASSUME NEW slug \in homepage.page.best
         PROVE  \E i \in DOMAIN Catalog :
                  Catalog[i].slug = slug /\ Catalog[i].status # "blocked" /\ Shown(files, Catalog[i]) # NoArtifact
    <3>1. PICK e \in Best(PrimaryEntries(m)) : slug = e.slug  BY <2>6 DEF RenderHomepage
    <3>2. e \in PublishedTracks(m)  BY <2>8 DEF Best
    <3> QED  BY <2>7, <3>1, <3>2
  <2> QED  BY <2>5, <2>10, <2>11, <2>12, <2>13, <2>14
<1>2. FilesInv => ChecksHonest  BY <1>1 DEF ChecksHonest
<1> QED  BY <1>2, FilesHold, PTL

-----------------------------------------------------------------------------
(* What a report names                                                     *)

\* When files are gone the others are as they were, and a lane that shows one of
\* them, or none, goes on doing so.
LEMMA PartIs ==
    ASSUME NEW fs, FilesOk(fs), NEW S \in SUBSET DOMAIN fs, NEW gs, gs = [n \in S |-> fs[n]]
    PROVE  FilesOk(gs) /\ Listed(gs) = Listed(fs) \cap S /\ \A n \in S : gs[n] = fs[n]
<1>1. IsFiniteSet(S)  BY FS_Subset DEF FilesOk
<1>2. DOMAIN gs = S /\ \A n \in S : gs[n] = fs[n]  OBVIOUS
<1>3. gs = [n \in DOMAIN gs |-> gs[n]]  BY <1>2
<1> QED  BY <1>1, <1>2, <1>3 DEF FilesOk, Listed

LEMMA ShownKept ==
    ASSUME NEW fs, FilesOk(fs), NEW S \in SUBSET DOMAIN fs, NEW gs, gs = [n \in S |-> fs[n]], NEW t
    PROVE  /\ Shown(fs, t) = NoArtifact => Shown(gs, t) = NoArtifact
           /\ Shown(fs, t) \in S => Shown(gs, t) = Shown(fs, t)
<1>1. FilesOk(gs) /\ Listed(gs) = Listed(fs) \cap S /\ \A n \in S : gs[n] = fs[n]  BY PartIs
<1>2. CASE t.pinned # NoArtifact
  <2>1. Shown(fs, t) \in S => Shown(fs, t) # NoArtifact
    BY SiteAssumption DEF SiteAssumption, FilesOk
  <2> QED  BY <1>1, <1>2, <2>1 DEF Shown
<1>3. CASE t.pinned = NoArtifact
  <2> DEFINE key == TrackKey(t)
             n == Latest(fs, key)
             k == Latest(gs, key)
  <2>1. Shown(fs, t) = n /\ Shown(gs, t) = k  BY <1>3 DEF Shown
  <2>2. \/ n = NoArtifact /\ \A j \in Listed(fs) : BenchmarkKey(fs[j]) # key
        \/ n \in Newest(fs, key) /\ \A j \in Newest(fs, key) : n <= j
    BY LatestIs
  <2>3. \/ k = NoArtifact /\ \A j \in Listed(gs) : BenchmarkKey(gs[j]) # key
        \/ k \in Newest(gs, key) /\ \A j \in Newest(gs, key) : k <= j
    BY <1>1, LatestIs
  <2>4. \A j \in Listed(fs) : j \in Nat /\ j # NoArtifact /\ ArtifactTimestamp(j, fs[j]) \in Nat
    BY StampsAre
  <2> HIDE DEF n, k
  <2>5. ASSUME n = NoArtifact PROVE k = NoArtifact
    <3>1. \A j \in Listed(fs) : BenchmarkKey(fs[j]) # key  BY <2>2, <2>4, <2>5 DEF Newest
    <3> QED  BY <1>1, <2>3, <3>1 DEF Newest
  <2>6. ASSUME n \in S PROVE k = n
    <3>1. n # NoArtifact  BY <2>6, SiteAssumption DEF SiteAssumption, FilesOk
    <3>2. n \in Newest(fs, key) /\ \A j \in Newest(fs, key) : n <= j  BY <2>2, <3>1
    <3>3. n \in Newest(gs, key)  BY <1>1, <2>6, <3>2 DEF Newest
    <3>4. k \in Newest(gs, key) /\ k <= n  BY <2>3, <3>3 DEF Newest
    <3>5. k \in Newest(fs, key)
      <4>1. k \in Listed(fs) /\ k \in S /\ BenchmarkKey(fs[k]) = key  BY <1>1, <3>4 DEF Newest
      <4>2. ArtifactTimestamp(n, fs[n]) <= ArtifactTimestamp(k, fs[k])  BY <1>1, <3>3, <3>4, <4>1 DEF Newest
      <4>3. \A m \in Listed(fs) : BenchmarkKey(fs[m]) = key =>
               ArtifactTimestamp(m, fs[m]) <= ArtifactTimestamp(n, fs[n])
        BY <3>2 DEF Newest
      <4>4. n \in Listed(fs)  BY <3>2 DEF Newest
      <4>5. \A m \in Listed(fs) : BenchmarkKey(fs[m]) = key =>
               ArtifactTimestamp(m, fs[m]) <= ArtifactTimestamp(k, fs[k])
        BY <2>4, <4>1, <4>2, <4>3, <4>4
      <4> QED  BY <4>1, <4>5 DEF Newest
    <3>6. k \in Nat /\ n \in Nat /\ n <= k  BY <2>4, <3>2, <3>5 DEF Newest
    <3> QED  BY <3>4, <3>6
  <2> QED  BY <2>1, <2>5, <2>6
<1> QED  BY <1>2, <1>3

LEMMA RankIs ==
    ASSUME NEW order, order \in Seq(ToSet(order)), NEW text
    PROVE  /\ RankIn(order, text) \in Int
           /\ text \in ToSet(order) => order[RankIn(order, text)] = text
<1>1. DOMAIN order = 1..Len(order)  OBVIOUS
<1>2. CASE text \in ToSet(order)
  <2>1. \E i \in DOMAIN order : order[i] = text  BY <1>2 DEF ToSet
  <2>2. RankIn(order, text) = CHOOSE i \in DOMAIN order : order[i] = text  BY <1>2 DEF RankIn
  <2> QED  BY <1>1, <2>1, <2>2
<1>3. CASE text \notin ToSet(order)  BY <1>3 DEF RankIn
<1> QED  BY <1>2, <1>3

LEMMA EntryIs ==
    ASSUME NEW r, NEW a, a.path # NoText, a.stamp \in Nat, NEW now \in Nat
    PROVE  LET e == Entry(r, a, now)
           IN  /\ e.artifact.path = a.path /\ e.page.path = DetailPagePath(a.path)
               /\ e.stamp = a.stamp /\ e.size = a.size /\ e.age \in Int
               /\ \E i \in DOMAIN AgeBucketOrder : AgeBucketOrder[i] = e.fact.age_bucket
<1>1. \A path : Parts(path).path = path
  <2>1. "path" \in PartNames  BY DEF PartNames
  <2> QED  BY <2>1 DEF Parts
<1>2. AgeDays(a.stamp, now) \in Int
  <2>1. TicksPerDay \in Nat \ {0}  BY ReportAssumption DEF ReportAssumption
  <2>2. ASSUME ~(a.stamp > now) PROVE (now - a.stamp) \div TicksPerDay \in Int
    <3>1. now - a.stamp \in Int  OBVIOUS
    <3> QED  BY <2>1, <3>1
  <2> QED  BY <2>2 DEF AgeDays
<1>3. \A days : \E i \in DOMAIN AgeBucketOrder : AgeBucketOrder[i] = AgeBucket(days)
  <2>1. DOMAIN AgeBucketOrder = 1..5  BY DEF AgeBucketOrder
  <2>2. /\ AgeBucketOrder[1] = "0-6d" /\ AgeBucketOrder[2] = "7-29d" /\ AgeBucketOrder[3] = "30-89d"
        /\ AgeBucketOrder[4] = "90d+" /\ AgeBucketOrder[5] = "unknown"
    BY DEF AgeBucketOrder
  <2>3. \A days : AgeBucket(days) \in {"0-6d", "7-29d", "30-89d", "90d+", "unknown"}  BY DEF AgeBucket
  <2> QED  BY <2>1, <2>2, <2>3
<1> QED  BY <1>1, <1>2, <1>3 DEF Entry

\* What the sort keys are made of: numbers, and the path at last.
Comparable(E) ==
    \A e \in E : /\ e.size \in Int /\ e.age \in Int /\ e.stamp \in Int
                 /\ \E i \in DOMAIN AgeBucketOrder : AgeBucketOrder[i] = e.fact.age_bucket

EndsWithPath(keys, E) ==
    \E n \in Nat :
        /\ \A e \in E : keys[e] \in Keys(n)
        /\ \A d, e \in E : keys[d] = keys[e] => Rank(d.artifact.path) = Rank(e.artifact.path)

\* The path itself, or against its order.
OfPath(h, E) == \/ \A e \in E : h[e] = Rank(e.artifact.path)
                \/ \A e \in E : h[e] = -Rank(e.artifact.path)

LEMMA OfPathTells ==
    ASSUME NEW E, NEW h, OfPath(h, E)
    PROVE  /\ \A e \in E : h[e] \in Int
           /\ \A d, e \in E : h[d] = h[e] => Rank(d.artifact.path) = Rank(e.artifact.path)
<1>1. \A e \in E : Rank(e.artifact.path) \in Int
  BY RankIs, ReportAssumption DEF Rank, ReportAssumption
<1> QED  BY <1>1 DEF OfPath

LEMMA PairsEnd ==
    ASSUME NEW E, NEW keys, NEW f, NEW h, OfPath(h, E), \A e \in E : f[e] \in Int,
           \A e \in E : keys[e] = <<f[e], h[e]>>
    PROVE  EndsWithPath(keys, E)
<1>1. ASSUME NEW e \in E PROVE keys[e] \in Keys(2) /\ keys[e][2] = h[e]
  <2>1. f[e] \in Int /\ h[e] \in Int  BY OfPathTells
  <2>2. <<f[e], h[e]>> \in Keys(2) /\ <<f[e], h[e]>>[2] = h[e]  BY <2>1, PairIsKey
  <2> QED  BY <2>2
<1>2. ASSUME NEW d \in E, NEW e \in E, keys[d] = keys[e] PROVE Rank(d.artifact.path) = Rank(e.artifact.path)
  <2>1. h[d] = h[e]  BY <1>1, <1>2
  <2> QED  BY <2>1, OfPathTells
<1> QED  BY <1>1, <1>2 DEF EndsWithPath

LEMMA TriplesEnd ==
    ASSUME NEW E, NEW keys, NEW f, NEW g, NEW h, OfPath(h, E), \A e \in E : f[e] \in Int /\ g[e] \in Int,
           \A e \in E : keys[e] = <<f[e], g[e], h[e]>>
    PROVE  EndsWithPath(keys, E)
<1>1. ASSUME NEW e \in E PROVE keys[e] \in Keys(3) /\ keys[e][3] = h[e]
  <2>1. f[e] \in Int /\ g[e] \in Int /\ h[e] \in Int  BY OfPathTells
  <2>2. <<f[e], g[e], h[e]>> \in Keys(3) /\ <<f[e], g[e], h[e]>>[3] = h[e]  BY <2>1, TripleIsKey
  <2> QED  BY <2>2
<1>2. ASSUME NEW d \in E, NEW e \in E, keys[d] = keys[e] PROVE Rank(d.artifact.path) = Rank(e.artifact.path)
  <2>1. h[d] = h[e]  BY <1>1, <1>2
  <2> QED  BY <2>1, OfPathTells
<1> QED  BY <1>1, <1>2 DEF EndsWithPath

LEMMA TextKeysEnd ==
    ASSUME NEW E, NEW group, NEW desc
    PROVE  EndsWithPath([e \in E |-> TextSortKey(group, desc, e)], E)
<1> DEFINE text == [e \in E |-> Rank(SortText(group, e))]
           second == [e \in E |-> Rank(SortText(Second(group), e))]
           down == [e \in E |-> RankIn(TextOrderDown, SortText(group, e))]
           lessText == [e \in E |-> -Rank(SortText(group, e))]
           lessSecond == [e \in E |-> -Rank(SortText(Second(group), e))]
           keys == [e \in E |-> TextSortKey(group, desc, e)]
           path == [e \in E |-> Rank(e.artifact.path)]
           lessPath == [e \in E |-> -Rank(e.artifact.path)]
           both == group \in {"fact"} \X {"backend", "model", "label", "track_state"}
<1>1. \A words : Rank(words) \in Int /\ RankIn(TextOrderDown, words) \in Int
  BY RankIs, ReportAssumption DEF Rank, ReportAssumption
<1>2. \A e \in E : /\ text[e] \in Int /\ second[e] \in Int /\ down[e] \in Int
                   /\ lessText[e] \in Int /\ lessSecond[e] \in Int
  BY <1>1
<1>3. OfPath(path, E) /\ OfPath(lessPath, E)  BY DEF OfPath
<1>4. CASE ~desc
  <2>1. \A e \in E : keys[e] = <<text[e], second[e], path[e]>>
    BY <1>4 DEF TextSortKey
  <2> HIDE DEF text, second, path, lessPath, keys
  <2>2. EndsWithPath(keys, E)  BY <1>2, <1>3, <2>1, TriplesEnd
  <2> QED  BY <2>2 DEF keys
<1>5. CASE desc /\ TurnedRound(group)
  <2>1. \A e \in E : keys[e] = <<lessText[e], lessSecond[e], lessPath[e]>>
    BY <1>5 DEF TextSortKey
  <2> HIDE DEF lessText, lessSecond, path, lessPath, keys
  <2>2. EndsWithPath(keys, E)  BY <1>2, <1>3, <2>1, TriplesEnd
  <2> QED  BY <2>2 DEF keys
<1>6. CASE desc /\ ~TurnedRound(group) /\ ByCharacter(group)
  <2>1. \A e \in E : keys[e] = <<down[e], path[e]>>
    BY <1>6 DEF TextSortKey
  <2> HIDE DEF down, path, lessPath, keys
  <2>2. EndsWithPath(keys, E)  BY <1>2, <1>3, <2>1, PairsEnd
  <2> QED  BY <2>2 DEF keys
<1>7. CASE desc /\ ~TurnedRound(group) /\ ~ByCharacter(group)
  <2> DEFINE other == [e \in E |-> IF both THEN lessSecond[e] ELSE second[e]]
  <2>1. \A e \in E : keys[e] = <<lessText[e], other[e], path[e]>>
    BY <1>7 DEF TextSortKey
  <2>2. \A e \in E : other[e] \in Int  BY <1>2
  <2> HIDE DEF lessText, other, path, lessPath, keys
  <2>3. EndsWithPath(keys, E)  BY <1>2, <1>3, <2>1, <2>2, TriplesEnd
  <2> QED  BY <2>3 DEF keys
<1> QED  BY <1>4, <1>5, <1>6, <1>7

LEMMA StaleKeysEnd ==
    ASSUME NEW E, Comparable(E), NEW sort, sort.by \in StaleSorts
    PROVE  EndsWithPath([e \in E |-> StaleSortKey(sort, e)], E)
<1> DEFINE keys == [e \in E |-> StaleSortKey(sort, e)]
           bucket == [e \in E |-> CHOOSE i \in DOMAIN AgeBucketOrder : AgeBucketOrder[i] = e.fact.age_bucket]
           path == [e \in E |-> Rank(e.artifact.path)]
           age == [e \in E |-> IF e.age = -1 THEN Farthest ELSE e.age]
<1>1. OfPath(path, E)  BY DEF OfPath
<1>2. \A e \in E : /\ bucket[e] \in Int /\ age[e] \in Int /\ -bucket[e] \in Int
                   /\ e.size \in Int /\ -e.size \in Int /\ e.age \in Int /\ -e.age \in Int
                   /\ e.stamp \in Int /\ -e.stamp \in Int
  <2>1. DOMAIN AgeBucketOrder = 1..5  BY DEF AgeBucketOrder
  <2>2. \A e \in E : bucket[e] \in Int  BY <2>1 DEF Comparable
  <2>3. \A e \in E : age[e] \in Int  BY DEF Comparable, Farthest
  <2> HIDE DEF bucket, age
  <2> QED  BY <2>2, <2>3 DEF Comparable
<1>3. CASE sort.by = "size"
  <2> DEFINE f == [e \in E |-> IF sort.desc THEN -e.size ELSE e.size]
  <2>1. \A e \in E : keys[e] = <<f[e], path[e]>>  BY <1>3 DEF StaleSortKey
  <2>2. \A e \in E : f[e] \in Int  BY <1>2
  <2> HIDE DEF f, path, keys
  <2>3. EndsWithPath(keys, E)  BY <1>1, <2>1, <2>2, PairsEnd
  <2> QED  BY <2>3 DEF keys
<1>4. CASE sort.by = "age"
  <2> DEFINE f == [e \in E |-> IF sort.desc THEN -e.age ELSE age[e]]
  <2>1. \A e \in E : keys[e] = <<f[e], path[e]>>  BY <1>4 DEF StaleSortKey
  <2>2. \A e \in E : f[e] \in Int  BY <1>2
  <2> HIDE DEF f, path, keys
  <2>3. EndsWithPath(keys, E)  BY <1>1, <2>1, <2>2, PairsEnd
  <2> QED  BY <2>3 DEF keys
<1>5. CASE sort.by = "measured"
  <2> DEFINE f == [e \in E |-> IF e.stamp = 0 THEN Farthest ELSE IF sort.desc THEN -e.stamp ELSE e.stamp]
  <2>1. \A e \in E : keys[e] = <<f[e], path[e]>>  BY <1>5 DEF StaleSortKey
  <2>2. \A e \in E : f[e] \in Int  BY <1>2 DEF Farthest
  <2> HIDE DEF f, path, keys
  <2>3. EndsWithPath(keys, E)  BY <1>1, <2>1, <2>2, PairsEnd
  <2> QED  BY <2>3 DEF keys
<1>6. CASE sort.by = "bucket"
  <2> DEFINE f == [e \in E |-> IF sort.desc THEN -bucket[e] ELSE bucket[e]]
             g == [e \in E |-> IF sort.desc THEN -e.age ELSE age[e]]
  <2>1. ASSUME NEW e \in E PROVE keys[e] = <<f[e], g[e], path[e]>>
    <3>1. keys[e] = IF sort.desc THEN <<-bucket[e], -e.age, path[e]>> ELSE <<bucket[e], age[e], path[e]>>
      BY <1>6 DEF StaleSortKey
    <3>2. /\ f[e] = IF sort.desc THEN -bucket[e] ELSE bucket[e]
          /\ g[e] = IF sort.desc THEN -e.age ELSE age[e]
      OBVIOUS
    <3> HIDE DEF keys, f, g, bucket, age, path
    <3> QED  BY <3>1, <3>2
  <2>2. \A e \in E : f[e] \in Int /\ g[e] \in Int  BY <1>2
  <2> HIDE DEF f, g, path, keys
  <2>3. EndsWithPath(keys, E)  BY <1>1, <2>1, <2>2, TriplesEnd
  <2> QED  BY <2>3 DEF keys
<1>7. CASE sort.by = "text"
  <2>1. keys = [e \in E |-> TextSortKey(sort.group, sort.desc, e)]  BY <1>7 DEF StaleSortKey
  <2> HIDE DEF keys
  <2>2. EndsWithPath(keys, E)  BY <2>1, TextKeysEnd
  <2> QED  BY <2>2 DEF keys
<1> QED  BY <1>3, <1>4, <1>5, <1>6, <1>7 DEF StaleSorts

\* What StaleArtifacts relies on, of a manifest that was read.
Readable(r) ==
    /\ IsFiniteSet(ToSet(r.artifacts))
    /\ \A a \in ToSet(r.artifacts) : /\ a.path # NoText /\ a.path \in ToSet(TextOrder)
                                     /\ a.stamp \in Nat /\ a.size \in Nat
    /\ \A a, b \in ToSet(r.artifacts) : a.path = b.path => a = b

Candidates(r) == {a \in ToSet(r.artifacts) : a.path # NoText /\ a.path \notin CurrentArtifactPaths(r)}

LEMMA StaleIs ==
    ASSUME NEW r, Readable(r), NEW opts, opts.now \in Nat, opts.sort.by \in StaleSorts
    PROVE  LET stale == StaleArtifacts(r, opts)
           IN  /\ stale \in Seq(ToSet(stale)) /\ Len(stale) \in Nat
               /\ \A e \in ToSet(stale) : \E a \in Candidates(r) :
                    e.artifact.path = a.path /\ e.page.path = DetailPagePath(a.path)
<1> DEFINE A == Candidates(r)
           E == {Entry(r, a, opts.now) : a \in A}
           stale == {e \in E : /\ \A f \in opts.filters : Admits(f, e)
                               /\ StatusAllowed(opts, e)
                               /\ InTime(opts, e) /\ InSize(opts, e)}
           keys == [e \in stale |-> StaleSortKey(opts.sort, e)]
           g == [a \in A |-> Entry(r, a, opts.now)]
           s == StaleArtifacts(r, opts)
<1>1. s = Sorted(keys)  BY DEF StaleArtifacts, Candidates
<1>2. ASSUME NEW e \in E
      PROVE  \E a \in A : /\ e = Entry(r, a, opts.now)
                          /\ e.artifact.path = a.path /\ e.page.path = DetailPagePath(a.path)
                          /\ e.stamp \in Int /\ e.size \in Int /\ e.age \in Int
                          /\ \E i \in DOMAIN AgeBucketOrder : AgeBucketOrder[i] = e.fact.age_bucket
  <2>1. PICK a \in A : e = Entry(r, a, opts.now)  OBVIOUS
  <2>2. a.path # NoText /\ a.stamp \in Nat /\ a.size \in Nat  BY DEF Readable, Candidates
  <2>3. /\ e.artifact.path = a.path /\ e.page.path = DetailPagePath(a.path)
        /\ e.stamp = a.stamp /\ e.size = a.size /\ e.age \in Int
        /\ \E i \in DOMAIN AgeBucketOrder : AgeBucketOrder[i] = e.fact.age_bucket
    BY <2>1, <2>2, EntryIs
  <2> QED  BY <2>1, <2>2, <2>3
<1>3. stale \in SUBSET E  OBVIOUS
<1>4. IsFiniteSet(stale)
  <2>1. A \in SUBSET ToSet(r.artifacts)  BY DEF Candidates
  <2>2. IsFiniteSet(A)  BY <2>1, FS_Subset DEF Readable
  <2>3. g \in Surjection(A, E)  BY DEF Surjection
  <2> HIDE DEF g, E, A
  <2>4. IsFiniteSet(E)  BY <2>2, <2>3, FS_Surjection
  <2> QED  BY <1>3, <2>4, FS_Subset
<1>5. DOMAIN keys = stale  OBVIOUS
<1> HIDE DEF E, stale
<1>6. Comparable(stale)  BY <1>2, <1>3 DEF Comparable
<1>7. EndsWithPath(keys, stale)  BY <1>6, StaleKeysEnd
<1> HIDE DEF keys
<1>8. ASSUME NEW d \in stale, NEW e \in stale, Rank(d.artifact.path) = Rank(e.artifact.path)
      PROVE  d = e
  <2>1. PICK a \in A : d = Entry(r, a, opts.now) /\ d.artifact.path = a.path  BY <1>2, <1>3
  <2>2. PICK b \in A : e = Entry(r, b, opts.now) /\ e.artifact.path = b.path  BY <1>2, <1>3
  <2>3. /\ a \in ToSet(r.artifacts) /\ b \in ToSet(r.artifacts)
        /\ a.path \in ToSet(TextOrder) /\ b.path \in ToSet(TextOrder)
    BY DEF Readable, Candidates
  <2>4. TextOrder[Rank(a.path)] = a.path /\ TextOrder[Rank(b.path)] = b.path
    BY <2>3, RankIs, ReportAssumption DEF Rank, ReportAssumption
  <2>5. a.path = b.path  BY <1>8, <2>1, <2>2, <2>4
  <2> QED  BY <2>1, <2>2, <2>3, <2>5 DEF Readable
<1>9. Sortable(keys)  BY <1>4, <1>5, <1>7, <1>8 DEF EndsWithPath, Sortable
<1>10. /\ DOMAIN s = 1..Cardinality(stale) /\ Cardinality(stale) \in Nat
       /\ \A i \in DOMAIN s : s[i] \in stale
  BY <1>1, <1>5, <1>9, SortedIs
<1>11. s \in Seq(ToSet(s)) /\ Len(s) \in Nat
  <2>1. s = [i \in 1..Cardinality(stale) |-> s[i]]
    <3>1. s = [i \in DOMAIN s |-> s[i]]  BY <1>1 DEF Sorted
    <3> QED  BY <1>10, <3>1
  <2>2. \A i \in 1..Cardinality(stale) : s[i] \in ToSet(s)  BY <1>10 DEF ToSet
  <2> HIDE DEF s
  <2>3. s \in Seq(ToSet(s))  BY <1>10, <2>1, <2>2, SeqDef
  <2> QED  BY <2>3
<1>12. \A e \in ToSet(s) : e \in E  BY <1>3, <1>10 DEF ToSet
<1> QED  BY <1>2, <1>11, <1>12

LEMMA LimitIs ==
    ASSUME NEW S, NEW stale \in Seq(S), Len(stale) \in Nat, NEW limit \in Nat \cup {None}
    PROVE  ToSet(LimitArtifacts(stale, limit)) \subseteq ToSet(stale)
<1>1. CASE limit = None  BY <1>1 DEF LimitArtifacts
<1>2. CASE limit # None
  <2> DEFINE k == Min({limit, Len(stale)})
             s == SubSeq(stale, 1, k)
  <2>1. limit \in Nat  BY <1>2
  <2>2. \E x \in {limit, Len(stale)} : \A y \in {limit, Len(stale)} : x <= y  BY <2>1
  <2>3. k \in {limit, Len(stale)} /\ k <= Len(stale)  BY <2>2 DEF Min
  <2>4. k \in Nat  BY <2>1, <2>3
  <2> HIDE DEF k
  <2>5. DOMAIN s = 1..k /\ \A i \in 1..k : s[i] = stale[i]
    <3>1. Len(stale) \in Nat /\ 1..k \subseteq 1..Len(stale)  BY <2>3, <2>4
    <3> QED  BY <2>3, <2>4, <3>1, SubSeqProperties
  <2>6. DOMAIN stale = 1..Len(stale)  OBVIOUS
  <2>7. LimitArtifacts(stale, limit) = s  BY <1>2 DEF LimitArtifacts, k
  <2> HIDE DEF s
  <2>8. \A i \in DOMAIN s : i \in DOMAIN stale /\ s[i] = stale[i]  BY <2>3, <2>4, <2>5, <2>6
  <2> QED  BY <2>7, <2>8 DEF ToSet
<1> QED  BY <1>1, <1>2

\* Whatever is asked, only candidates are named, by their path or their page's.
LEMMA NamedIs ==
    ASSUME NEW r, Readable(r), NEW asked \in Asked, Accepted(asked), NEW exists,
           NEW path \in Main(r, asked.opts, asked.output, exists).paths
    PROVE  /\ path # NoText
           /\ \E a \in Candidates(r) : path = a.path \/ path = DetailPagePath(a.path)
<1> DEFINE stale == StaleArtifacts(r, asked.opts)
           limited == LimitArtifacts(stale, asked.opts.limit)
<1>1. asked.opts.now \in Nat /\ asked.opts.limit \in Nat \cup {None} /\ asked.opts.sort.by \in StaleSorts
  BY ReportAssumption DEF ReportAssumption, Accepted, ValidOptions
<1>2. /\ stale \in Seq(ToSet(stale)) /\ Len(stale) \in Nat
      /\ \A e \in ToSet(stale) : \E a \in Candidates(r) :
            e.artifact.path = a.path /\ e.page.path = DetailPagePath(a.path)
  BY <1>1, StaleIs
<1> HIDE DEF stale
<1>3. ToSet(limited) \subseteq ToSet(stale)  BY <1>1, <1>2, LimitIs
<1>4. Main(r, asked.opts, asked.output, exists).paths =
        IF asked.output.format = "paths" THEN RenderPaths(limited, exists, asked.output) ELSE {}
  BY DEF Main, stale
<1> HIDE DEF limited
<1>5. path \in RenderPaths(limited, exists, asked.output)  BY <1>4
<1>6. /\ path # NoText
      /\ \E e \in ToSet(limited) : path = e.artifact.path \/ path = e.page.path
  BY <1>5 DEF RenderPaths
<1> QED  BY <1>2, <1>3, <1>6

LEMMA ReadIs ==
    ASSUME NEW fs, FilesOk(fs), NEW r, r = AsRead(BuildManifest(fs))
    PROVE  /\ Readable(r)
           /\ \A a \in ToSet(r.artifacts) : \E n \in Listed(fs) : a.path = PathOf[n]
           /\ \A i \in DOMAIN Catalog : Shown(fs, Catalog[i]) # NoArtifact =>
                 PathOf[Shown(fs, Catalog[i])] \in CurrentArtifactPaths(r)
<1> DEFINE m == BuildManifest(fs)
           read(e) == [path |-> PathOf[e.name], slug |-> Slug[e.slug], status |-> e.status,
                       backend |-> NoText, model |-> NoText, label |-> NoText, stamp |-> e.stamp, size |-> e.size]
           H == ToSet(m.artifacts)
           g == [e \in H |-> read(e)]
<1>1. /\ {e.name : e \in H} = Listed(fs)
      /\ \A e \in H : Of(fs, e, e.name)
      /\ \A i \in DOMAIN Catalog : TrackEntry(fs, Catalog[i]) \in ToSet(m.tracks)
      /\ IsFiniteSet(H)
      /\ \A d, e \in H : d.name = e.name => d = e
  BY ManifestIs
<1>2. /\ r.artifacts = [i \in DOMAIN m.artifacts |-> read(m.artifacts[i])]
      /\ r.tracks = [i \in DOMAIN m.tracks |->
           [slug |-> Slug[m.tracks[i].slug],
            path |-> IF m.tracks[i].name = NoArtifact THEN NoText ELSE PathOf[m.tracks[i].name]]]
  BY DEF AsRead
<1> HIDE DEF m
<1>3. ToSet(r.artifacts) = {read(e) : e \in H}
  <2>1. DOMAIN r.artifacts = DOMAIN m.artifacts /\ \A i \in DOMAIN m.artifacts : r.artifacts[i] = read(m.artifacts[i])
    BY <1>2
  <2> HIDE DEF read
  <2> QED  BY <2>1 DEF ToSet
<1>4. IsFiniteSet(ToSet(r.artifacts))
  <2>1. g \in Surjection(H, ToSet(r.artifacts))  BY <1>3 DEF Surjection
  <2> HIDE DEF g, H
  <2> QED  BY <1>1, <2>1, FS_Surjection
<1>5. ASSUME NEW e \in H
      PROVE  /\ e.name \in Listed(fs) /\ e.name \in DOMAIN PayloadsOf
             /\ e.stamp \in Nat /\ e.size \in Nat
  <2>1. e.name \in Listed(fs) /\ Of(fs, e, e.name)  BY <1>1
  <2>2. e.stamp \in Nat /\ e.name \in DOMAIN fs  BY <2>1, StampsAre DEF Of
  <2>3. e.name \in DOMAIN PayloadsOf /\ fs[e.name] \in PayloadsOf[e.name] /\ IsAsrPayload(fs[e.name])
    BY <2>1, <2>2 DEF FilesOk, Listed
  <2>4. fs[e.name].size \in Nat  BY <2>3, ReportAssumption DEF ReportAssumption
  <2> QED  BY <2>1, <2>2, <2>3, <2>4 DEF Of
<1>6. ASSUME NEW a \in ToSet(r.artifacts)
      PROVE  \E e \in H : /\ a = read(e) /\ a.path = PathOf[e.name]
                          /\ a.stamp = e.stamp /\ a.size = e.size
  BY <1>3
<1>7. \A n \in DOMAIN PayloadsOf : /\ PathOf[n] # NoText /\ PathOf[n] \in ToSet(TextOrder)
                                   /\ \A k \in DOMAIN PayloadsOf : PathOf[n] = PathOf[k] => n = k
  BY ReportAssumption DEF ReportAssumption
<1> HIDE DEF H, read
<1>8. Readable(r)
  <2>1. ASSUME NEW a \in ToSet(r.artifacts), NEW b \in ToSet(r.artifacts), a.path = b.path PROVE a = b
    <3>1. PICK d \in H : a = read(d) /\ a.path = PathOf[d.name]  BY <1>6
    <3>2. PICK e \in H : b = read(e) /\ b.path = PathOf[e.name]  BY <1>6
    <3>3. d.name = e.name  BY <1>5, <1>7, <2>1, <3>1, <3>2
    <3> QED  BY <1>1, <3>1, <3>2, <3>3
  <2>2. ASSUME NEW a \in ToSet(r.artifacts)
        PROVE  a.path # NoText /\ a.path \in ToSet(TextOrder) /\ a.stamp \in Nat /\ a.size \in Nat
    <3>1. PICK e \in H : a.path = PathOf[e.name] /\ a.stamp = e.stamp /\ a.size = e.size  BY <1>6
    <3> QED  BY <1>5, <1>7, <3>1
  <2> QED  BY <1>4, <2>1, <2>2 DEF Readable
<1>9. \A a \in ToSet(r.artifacts) : \E n \in Listed(fs) : a.path = PathOf[n]  BY <1>5, <1>6
<1>10. ASSUME NEW i \in DOMAIN Catalog, Shown(fs, Catalog[i]) # NoArtifact
       PROVE  PathOf[Shown(fs, Catalog[i])] \in CurrentArtifactPaths(r)
  <2> DEFINE t == TrackEntry(fs, Catalog[i])
  <2>1. t.name = Shown(fs, Catalog[i])  BY TrackEntryIs
  <2>2. t \in ToSet(m.tracks)  BY <1>1
  <2> HIDE DEF t
  <2>3. PICK j \in DOMAIN m.tracks : m.tracks[j] = t  BY <2>2 DEF ToSet
  <2>4. r.tracks[j].path = PathOf[t.name] /\ r.tracks[j] \in ToSet(r.tracks)
    BY <1>2, <1>10, <2>1, <2>3 DEF ToSet
  <2>5. PathOf[t.name] # NoText
    <3>1. Shown(fs, Catalog[i]) \in Listed(fs)  BY <1>10, ShownListed
    <3>2. Shown(fs, Catalog[i]) \in DOMAIN PayloadsOf  BY <3>1 DEF Listed, FilesOk
    <3> QED  BY <1>7, <2>1, <3>2
  <2> QED  BY <2>1, <2>4, <2>5 DEF CurrentArtifactPaths, TracksShown
<1> QED  BY <1>8, <1>9, <1>10

-----------------------------------------------------------------------------
(* What is removed                                                         *)

\* The files a report was made of, those that came later left out.
Restricted(S) == [n \in S |-> files[n]]

\* Whoever was told nothing wrong, was told to remove what no lane showed then.
OfThen(S, path) ==
    \E a \in Candidates(AsRead(BuildManifest(Restricted(S)))) : path = a.path \/ path = DetailPagePath(a.path)

ManifestInv ==
    manifest = NoManifest \/ {e.name : e \in ToSet(manifest.artifacts)} \subseteq DOMAIN PayloadsOf
PagesInv == DOMAIN pages \subseteq DOMAIN PayloadsOf
ReportInv ==
    \/ report = NoReport
    \/ /\ "overwritten" \in DOMAIN report
       /\ report.from = "here" /\ report.fresh /\ ~report.overwritten =>
             \E S \in SUBSET DOMAIN files :
                \A path \in report.said.paths : path # NoText /\ OfThen(S, path)
RemovalInv == ManifestInv /\ PagesInv /\ ReportInv

LEMMA ReportKept ==
    ASSUME FilesInv, ReportInv, [SiteNext]_siteVars
    PROVE  ReportInv'
<1>1. ASSUME Measure PROVE ReportInv'
  <2>1. PICK n \in DOMAIN PayloadsOf : \E p \in PayloadsOf[n] :
           /\ files' = [f \in DOMAIN files \cup {n} |-> IF f = n THEN p ELSE files[f]]
           /\ report' = IF report = NoReport \/ n \notin DOMAIN files THEN report
                        ELSE [report EXCEPT !.overwritten = TRUE]
    BY <1>1 DEF Measure
  <2>2. PICK p \in PayloadsOf[n] :
           /\ files' = [f \in DOMAIN files \cup {n} |-> IF f = n THEN p ELSE files[f]]
           /\ report' = IF report = NoReport \/ n \notin DOMAIN files THEN report
                        ELSE [report EXCEPT !.overwritten = TRUE]
    BY <2>1
  <2>3. CASE report = NoReport  BY <2>2, <2>3 DEF ReportInv
  <2>4. CASE report # NoReport /\ n \in DOMAIN files
    <3>1. report' = [report EXCEPT !.overwritten = TRUE] /\ "overwritten" \in DOMAIN report
      BY <2>2, <2>4 DEF ReportInv
    <3>2. "overwritten" \in DOMAIN report' /\ report'.overwritten = TRUE  BY <3>1
    <3> QED  BY <3>2 DEF ReportInv
  <2>5. CASE report # NoReport /\ n \notin DOMAIN files
    <3>1. report' = report  BY <2>2, <2>5
    <3>2. ASSUME NEW S \in SUBSET DOMAIN files
          PROVE  S \in SUBSET DOMAIN files' /\ \A path : OfThen(S, path)' <=> OfThen(S, path)
      <4>1. Restricted(S)' = Restricted(S)  BY <2>2, <2>5 DEF Restricted
      <4>2. S \in SUBSET DOMAIN files'  BY <2>2
      <4> QED  BY <4>1, <4>2 DEF OfThen
    <3> QED  BY <2>5, <3>1, <3>2 DEF ReportInv
  <2> QED  BY <2>3, <2>4, <2>5
<1>2. ASSUME Report PROVE ReportInv'
  <2>1. PICK from \in {"files", "manifest"}, asked \in Asked :
          LET m == IF from = "files" THEN BuildManifest(files) ELSE manifest
          IN  /\ m # NoManifest /\ Accepted(asked)
              /\ report' = [from |-> "here", read |-> AsRead(m), asked |-> asked, summary |-> m.summary,
                            fresh |-> m = BuildManifest(files), overwritten |-> FALSE,
                            said |-> Main(AsRead(m), asked.opts, asked.output, Existing)]
    BY <1>2 DEF Report
  <2> DEFINE m == IF from = "files" THEN BuildManifest(files) ELSE manifest
  <2>2. /\ report'.said = Main(AsRead(m), asked.opts, asked.output, Existing)
        /\ report'.fresh = (m = BuildManifest(files))
        /\ "overwritten" \in DOMAIN report' /\ Accepted(asked)
    BY <2>1
  <2>3. UNCHANGED files  BY <1>2 DEF Report
  <2> HIDE DEF m
  <2>4. ASSUME m = BuildManifest(files), NEW path \in report'.said.paths
        PROVE  path # NoText /\ OfThen(DOMAIN files, path)
    <3>1. Restricted(DOMAIN files) = files /\ FilesOk(files)  BY DEF Restricted, FilesInv, FilesOk
    <3>2. Readable(AsRead(m))  BY <2>4, <3>1, ReadIs
    <3>3. path \in Main(AsRead(m), asked.opts, asked.output, Existing).paths  BY <2>2
    <3> QED  BY <2>2, <2>4, <3>1, <3>2, <3>3, NamedIs DEF OfThen
  <2>5. \A path : OfThen(DOMAIN files, path)' <=> OfThen(DOMAIN files, path)
    BY <2>3 DEF OfThen, Restricted
  <2>6. report'.fresh => \A path \in report'.said.paths : path # NoText /\ OfThen(DOMAIN files, path)'
    BY <2>2, <2>4, <2>5
  <2> QED  BY <2>2, <2>3, <2>6 DEF ReportInv
<1>3. ASSUME ReportGiven PROVE ReportInv'
  <2>1. report'.from = "elsewhere" /\ "overwritten" \in DOMAIN report'  BY <1>3 DEF ReportGiven
  <2> QED  BY <2>1 DEF ReportInv
<1>4. ASSUME CleanUp PROVE ReportInv'  BY <1>4 DEF CleanUp, ReportInv
<1>5. ASSUME UNCHANGED <<files, report>> PROVE ReportInv'
  <2>1. \A S, path : OfThen(S, path)' <=> OfThen(S, path)  BY <1>5 DEF OfThen, Restricted
  <2> QED  BY <1>5, <2>1 DEF ReportInv
<1> QED  BY <1>1, <1>2, <1>3, <1>4, <1>5 DEF SiteNext, siteVars, Build, Prerender

LEMMA RemovalHolds == SiteSpec => [](FilesInv /\ RemovalInv)
<1>1. SiteInit => RemovalInv
  <2>1. DOMAIN <<>> = {}  OBVIOUS
  <2> QED  BY <2>1 DEF SiteInit, RemovalInv, ManifestInv, PagesInv, ReportInv
<1>2. ASSUME FilesInv, RemovalInv, [SiteNext]_siteVars PROVE RemovalInv'
  <2>1. ReportInv'  BY <1>2, ReportKept DEF RemovalInv
  <2>2. ManifestInv'
    <3>1. CASE Build
      <4>1. {e.name : e \in ToSet(manifest'.artifacts)} = Listed(files)
        BY <1>2, <3>1, ManifestIs DEF Build, FilesInv
      <4> QED  BY <1>2, <4>1 DEF ManifestInv, Listed, FilesInv, FilesOk
    <3>2. CASE UNCHANGED manifest  BY <1>2, <3>2 DEF RemovalInv, ManifestInv
    <3> QED  BY <1>2, <3>1, <3>2 DEF SiteNext, siteVars, Measure, Prerender, Report, ReportGiven, CleanUp
  <2>3. PagesInv'
    <3>1. CASE Prerender
      <4> DEFINE rendered == RenderDetailPages(manifest, files)
                 kept == DOMAIN pages \ OrphanedDetailPages(rendered, pages)
      <4>1. DOMAIN rendered \subseteq DOMAIN PayloadsOf
        BY <1>2, <3>1 DEF RemovalInv, ManifestInv, Prerender, RenderDetailPages
      <4>2. pages' = [n \in DOMAIN rendered \cup kept |-> IF n \in DOMAIN rendered THEN rendered[n] ELSE pages[n]]
        BY <3>1 DEF Prerender
      <4> HIDE DEF rendered
      <4>3. DOMAIN pages' = DOMAIN rendered \cup kept  BY <4>2
      <4> QED  BY <1>2, <4>1, <4>3 DEF RemovalInv, PagesInv
    <3>2. CASE CleanUp  BY <1>2, <3>2 DEF CleanUp, RemovalInv, PagesInv
    <3>3. CASE UNCHANGED pages  BY <1>2, <3>3 DEF RemovalInv, PagesInv
    <3> QED  BY <1>2, <3>1, <3>2, <3>3 DEF SiteNext, siteVars, Measure, Build, Report, ReportGiven
  <2> QED  BY <2>1, <2>2, <2>3 DEF RemovalInv
<1> QED  BY <1>1, <1>2, FilesHold, PTL DEF SiteSpec

\* What a lane shows, and its page, are not named by a report that was told nothing
\* wrong.
LEMMA NotNamed ==
    ASSUME FilesInv, NEW S \in SUBSET DOMAIN files, NEW i \in DOMAIN Catalog,
           Shown(files, Catalog[i]) # NoArtifact, NEW path, path # NoText, OfThen(S, path)
    PROVE  /\ path # PathOf[Shown(files, Catalog[i])]
           /\ path # DetailPagePath(PathOf[Shown(files, Catalog[i])])
<1> DEFINE n == Shown(files, Catalog[i])
           gs == Restricted(S)
           r == AsRead(BuildManifest(gs))
<1>1. FilesOk(files)  BY DEF FilesInv
<1>2. gs = [f \in S |-> files[f]]  BY DEF Restricted
<1>3. FilesOk(gs) /\ Listed(gs) = Listed(files) \cap S  BY <1>1, <1>2, PartIs
<1>4. /\ \A a \in ToSet(r.artifacts) : \E k \in Listed(gs) : a.path = PathOf[k]
      /\ Shown(gs, Catalog[i]) # NoArtifact => PathOf[Shown(gs, Catalog[i])] \in CurrentArtifactPaths(r)
  BY <1>3, ReadIs
<1>5. PICK a \in Candidates(r) : path = a.path \/ path = DetailPagePath(a.path)  BY DEF OfThen
<1>6. n \in S => Shown(gs, Catalog[i]) = n  BY <1>1, <1>2, ShownKept
<1>7. n \in DOMAIN PayloadsOf  BY <1>1, ShownListed DEF Listed, FilesOk
<1> HIDE DEF n, gs, r
<1>8. PICK k \in Listed(gs) : a.path = PathOf[k]  BY <1>4 DEF Candidates
<1>9. k \in S /\ k \in DOMAIN PayloadsOf  BY <1>3, <1>8 DEF Listed, FilesOk
<1>10. k # n
  <2>1. ASSUME k = n PROVE FALSE
    <3>1. PathOf[n] \in CurrentArtifactPaths(r)  BY <1>4, <1>6, <1>9, <2>1 DEF n
    <3> QED  BY <1>8, <2>1, <3>1 DEF Candidates
  <2> QED  BY <2>1
<1>11. /\ PathOf[n] # PathOf[k]
       /\ PathOf[n] # DetailPagePath(PathOf[k]) /\ PathOf[k] # DetailPagePath(PathOf[n])
       /\ DetailPagePath(PathOf[n]) = DetailPagePath(PathOf[k]) => DetailPagePath(PathOf[n]) = NoText
  BY <1>7, <1>9, <1>10, ReportAssumption DEF ReportAssumption
<1> QED  BY <1>5, <1>8, <1>11 DEF n

\* Removing what a report names takes no lane its artifact or its page, when the
\* report was true of the files it was made of and none of those has been
\* measured again, whatever else was measured, built and rendered since
\* (report_stale_benchmark_artifacts.py:3933).
THEOREM RemovalSpares == SiteSpec => CurrentSurvives
<1>1. ASSUME FilesInv, RemovalInv, CleanUp, report.fresh, ~report.overwritten, NEW i \in DOMAIN Catalog
      PROVE  /\ Shown(files', Catalog[i]) = Shown(files, Catalog[i])
             /\ Shown(files, Catalog[i]) \in DOMAIN pages => Shown(files, Catalog[i]) \in DOMAIN pages'
  <2> DEFINE n == Shown(files, Catalog[i])
             U == {f \in DOMAIN files : PathOf[f] \notin report.said.paths}
  <2>1. report.from = "here" /\ report # NoReport
    <3>1. report.from = "here"  BY <1>1 DEF CleanUp
    <3>2. NoReport.from = "nothing"  BY DEF NoReport
    <3> QED  BY <3>1, <3>2
  <2>2. PICK S \in SUBSET DOMAIN files : \A path \in report.said.paths : path # NoText /\ OfThen(S, path)
    BY <1>1, <2>1 DEF RemovalInv, ReportInv
  <2>3. files' = [f \in U |-> files[f]] /\ U \in SUBSET DOMAIN files  BY <1>1 DEF CleanUp
  <2>4. /\ n = NoArtifact => Shown(files', Catalog[i]) = NoArtifact
        /\ n \in U => Shown(files', Catalog[i]) = n
    <3> HIDE DEF U
    <3> QED  BY <1>1, <2>3, ShownKept DEF FilesInv
  <2>5. NoArtifact \notin DOMAIN pages
    BY <1>1, SiteAssumption DEF RemovalInv, PagesInv, SiteAssumption
  <2>6. CASE n = NoArtifact  BY <2>4, <2>5, <2>6
  <2>7. CASE n # NoArtifact
    <3>1. PathOf[n] \notin report.said.paths /\ DetailPagePath(PathOf[n]) \notin report.said.paths
      BY <1>1, <2>2, <2>7, NotNamed
    <3>2. n \in DOMAIN files  BY <1>1, <2>7, ShownListed DEF FilesInv, Listed
    <3>3. n \in U  BY <3>1, <3>2
    <3>4. n \in DOMAIN pages => n \in DOMAIN pages'  BY <1>1, <3>1 DEF CleanUp
    <3> QED  BY <2>4, <3>3, <3>4
  <2> QED  BY <2>6, <2>7
<1>2. FilesInv /\ RemovalInv =>
        [(CleanUp /\ report.fresh /\ ~report.overwritten) =>
           \A i \in DOMAIN Catalog :
              LET n == Shown(files, Catalog[i])
              IN  /\ Shown(files', Catalog[i]) = n
                  /\ n \in DOMAIN pages => n \in DOMAIN pages']_siteVars
  BY <1>1
<1> QED  BY <1>2, RemovalHolds, PTL DEF CurrentSurvives

-----------------------------------------------------------------------------
(* A session of the transport benchmark                                    *)

Phases == {"start", "chunks", "send", "finalize", "wait", "join", "close", "over"}
Codes == {"send_exception", "finalize_exception", "final_timeout", "close_exception", "receive_exception",
          "error_event"}
Record ==
    [phase : Phases, receiver : {"none", "receiving", "over"}, transport : Followed,
     chunks : Seq(Nat), total : Nat, sent : Nat, dropped : Nat, done : BOOLEAN,
     firstSent : BOOLEAN, requested : BOOLEAN, interim : Int, final : Int,
     partials : Nat, finals : Nat, warnings : Nat, depth : Int, delay : Int, errors : Seq(Codes)]

\* Every frame is sent, dropped or still to be sent, and the sender only goes on
\* from its chunks when none is left.
AudioInv(r) ==
    /\ r.total = r.sent + r.dropped + FramesIn(r.chunks)
    /\ r.phase = "send" => r.chunks # <<>>
    /\ r.phase \in {"finalize", "wait", "join", "close", "over"} => r.chunks = <<>>

\* receive_done has a cause, and the sender ends with it; the one final that is
\* read ends the receive task, so that it stays asked for or not.
EndInv(r) ==
    /\ r.done => r.finals = 1 \/ r.errors # <<>>
    /\ r.phase \in {"join", "close", "over"} => r.done
    /\ \/ r.finals = 0 /\ r.final = NoValue
       \/ r.finals = 1 /\ r.done /\ r.receiver = "over"
    /\ r.finals = 1 => (r.final # NoValue <=> r.requested)
    /\ r.phase = "start" => ~r.done /\ r.receiver = "none"

Honest(r) == r \in Record /\ AudioInv(r) /\ EndInv(r)
RunInv == run = NoRun \/ Honest(run)

-----------------------------------------------------------------------------
(* The frames of a list of chunks                                          *)

Lowest(s) == CHOOSE x \in s : \A y \in s : x =< y
Folds(g, q, n) ==
    g = [s \in SUBSET (1..n) |-> IF s = {} THEN 0 ELSE q[Lowest(s)] + g[s \ {Lowest(s)}]]

LEMMA FramesAreFold ==
    ASSUME NEW q \in Seq(Nat)
    PROVE  FramesIn(q) = (CHOOSE g : Folds(g, q, Len(q)))[1..Len(q)]
<1>1. DOMAIN q = 1..Len(q)  OBVIOUS
<1> QED  BY <1>1 DEF FramesIn, Total, FoldRight, MapThenFoldSet, Folds, Lowest, Min

LEMMA LowestIs == ASSUME NEW n \in Int, NEW s \in SUBSET Int, n \in s, \A y \in s : n =< y PROVE Lowest(s) = n
<1>1. \A x \in s : (\A y \in s : x =< y) => x = n  OBVIOUS
<1> QED  BY <1>1 DEF Lowest

LEMMA FoldExists == ASSUME NEW q PROVE \A n \in Nat : \E g : Folds(g, q, n)
<1> SUFFICES ASSUME NEW n \in Nat PROVE \E g : Folds(g, q, n)  OBVIOUS
<1> DEFINE Part(g, m) == g = [s \in SUBSET ((n - m + 1)..n) |->
                                 IF s = {} THEN 0 ELSE q[Lowest(s)] + g[s \ {Lowest(s)}]]
           T == {m \in 0..n : ~\E g : Part(g, m)}
<1>1. n \in 0..n /\ n - n + 1 = 1  OBVIOUS
<1>2. T = {} => \E g : Part(g, n)  BY <1>1
<1>3. (\E g : Part(g, n)) => \E g : Folds(g, q, n)  BY <1>1 DEF Folds
<1> SUFFICES ASSUME T # {} PROVE FALSE  BY <1>2, <1>3
<1>4. T \subseteq Nat  OBVIOUS
<1>5. PICK m \in T : \A k \in T : m <= k  BY <1>4, LeastNat
<1>6. CASE m = 0
  <2> DEFINE g == [s \in SUBSET ((n - 0 + 1)..n) |-> 0]
  <2>1. \A s \in SUBSET ((n - 0 + 1)..n) : s = {}  OBVIOUS
  <2>2. Part(g, 0)  BY <2>1
  <2> QED  BY <2>2, <1>5, <1>6
<1>7. CASE m # 0
  <2> DEFINE low == n - m + 1
  <2>0. m \in 1..n /\ m - 1 \notin T
    <3>1. m \in 0..n  OBVIOUS
    <3>2. m \in 1..n /\ ~(m <= m - 1)  BY <1>7, <3>1
    <3> QED  BY <1>5, <3>2
  <2>1. m \in 1..n /\ low \in 1..n /\ m - 1 \in 0..n /\ n - (m - 1) + 1 = low + 1
    BY <2>0
  <2>2. PICK g : Part(g, m - 1)  BY <2>0, <2>1
  <2>3. g = [s \in SUBSET ((low + 1)..n) |-> IF s = {} THEN 0 ELSE q[Lowest(s)] + g[s \ {Lowest(s)}]]
    BY <2>1, <2>2
  <2> HIDE DEF low, Part
  <2> DEFINE h == [s \in SUBSET (low..n) |-> IF low \in s THEN q[low] + g[s \ {low}] ELSE g[s]]
  <2>4. ASSUME NEW s \in SUBSET (low..n)
        PROVE  h[s] = IF s = {} THEN 0 ELSE q[Lowest(s)] + h[s \ {Lowest(s)}]
    <3>1. CASE low \in s
      <4>0. s \in SUBSET Int /\ low \in Int /\ \A y \in s : low =< y  BY <2>1
      <4>1. Lowest(s) = low  BY <3>1, <4>0, LowestIs
      <4>2. s \ {low} \in SUBSET (low..n) /\ low \notin s \ {low}  OBVIOUS
      <4>3. h[s] = q[low] + g[s \ {low}]  BY <3>1
      <4>4. h[s \ {low}] = g[s \ {low}]  BY <4>2
      <4> QED  BY <3>1, <4>1, <4>3, <4>4
    <3>2. CASE low \notin s
      <4>1. s \in SUBSET ((low + 1)..n)  BY <3>2, <2>1
      <4>2. h[s] = g[s]  BY <3>2
      <4>3. g[s] = IF s = {} THEN 0 ELSE q[Lowest(s)] + g[s \ {Lowest(s)}]  BY <4>1, <2>3
      <4>4. s \ {Lowest(s)} \in SUBSET (low..n) /\ low \notin s \ {Lowest(s)}  BY <3>2
      <4>5. h[s \ {Lowest(s)}] = g[s \ {Lowest(s)}]  BY <4>4
      <4> QED  BY <4>2, <4>3, <4>5
    <3> QED  BY <3>1, <3>2
  <2>5. h = [s \in SUBSET (low..n) |-> IF s = {} THEN 0 ELSE q[Lowest(s)] + h[s \ {Lowest(s)}]]
    BY <2>4
  <2>6. Part(h, m)  BY <2>5 DEF Part, low
  <2> QED  BY <2>6, <1>5
<1> QED  BY <1>6, <1>7

\* Rests(p, q): p[k] is what is left of the frames after the first k chunks.
Rests(p, q) ==
    /\ p \in [0..Len(q) -> Nat] /\ p[Len(q)] = 0
    /\ \A k \in 1..Len(q) : p[k - 1] = q[k] + p[k]

LEMMA FramesRests == ASSUME NEW q \in Seq(Nat)
                     PROVE  \E p : Rests(p, q) /\ FramesIn(q) = p[0]
<1> DEFINE n == Len(q)
<1>0. n \in Nat  OBVIOUS
<1>10. \A i \in 1..n : q[i] \in Nat  OBVIOUS
<1>1. \E g : Folds(g, q, n)  BY <1>0, FoldExists
<1> DEFINE g == CHOOSE g : Folds(g, q, n)
<1>2. Folds(g, q, n)  BY <1>1
<1>3. FramesIn(q) = g[1..n]  BY FramesAreFold
<1> HIDE DEF g
<1> DEFINE p == [k \in 0..n |-> g[(k + 1)..n]]
<1>4. ASSUME NEW k \in 1..n PROVE g[k..n] = q[k] + g[(k + 1)..n]
  <2>1. k..n \in SUBSET (1..n) /\ k \in k..n /\ k..n # {}  BY <1>0
  <2>2. k..n \in SUBSET Int /\ k \in Int /\ \A y \in k..n : k =< y  BY <1>0
  <2>3. Lowest(k..n) = k  BY <2>1, <2>2, LowestIs
  <2>4. (k..n) \ {k} = (k + 1)..n  BY <1>0
  <2> QED  BY <1>2, <2>1, <2>3, <2>4 DEF Folds
<1>5. g[(n + 1)..n] = 0
  <2>1. (n + 1)..n = {} /\ {} \in SUBSET (1..n)  BY <1>0
  <2> QED  BY <2>1, <1>2 DEF Folds
<1>6. \A k \in 0..n : g[(k + 1)..n] \in Nat
  <2> DEFINE T == {m \in 0..n : g[(n - m + 1)..n] \notin Nat}
  <2>0. ASSUME NEW k \in 0..n, T = {} PROVE g[(k + 1)..n] \in Nat
    <3>1. n - k \in 0..n /\ n - (n - k) + 1 = k + 1  BY <1>0
    <3> QED  BY <3>1, <2>0
  <2> SUFFICES ASSUME T # {} PROVE FALSE  BY <2>0
  <2>1. T \subseteq Nat  BY <1>0
  <2>2. PICK m \in T : \A k \in T : m <= k  BY <2>1, LeastNat
  <2>3. m # 0
    <3>1. n - 0 + 1 = n + 1  BY <1>0
    <3> QED  BY <3>1, <1>5, <2>2
  <2>4. m \in 1..n /\ m - 1 \notin T
    <3>1. m \in 0..n  OBVIOUS
    <3>2. m \in 1..n /\ ~(m <= m - 1)  BY <1>0, <2>3, <3>1
    <3> QED  BY <2>2, <3>2
  <2>5. m - 1 \in 0..n /\ n - m + 1 \in 1..n /\ n - (m - 1) + 1 = (n - m + 1) + 1
    BY <1>0, <2>4
  <2>6. g[((n - m + 1) + 1)..n] \in Nat  BY <2>5, <2>4
  <2>7. q[n - m + 1] \in Nat
    <3> HIDE DEF n, p, T
    <3> QED  BY <2>5, <1>10
  <2>8. g[(n - m + 1)..n] = q[n - m + 1] + g[((n - m + 1) + 1)..n]  BY <2>5, <1>4
  <2> QED  BY <2>2, <2>6, <2>7, <2>8
<1>7. p \in [0..n -> Nat] /\ p[n] = 0  BY <1>0, <1>5, <1>6
<1>8. ASSUME NEW k \in 1..n PROVE p[k - 1] = q[k] + p[k]
  <2>1. k \in 0..n /\ k - 1 \in 0..n /\ (k - 1) + 1 = k  BY <1>0
  <2> QED  BY <2>1, <1>4
<1>9. p[0] = FramesIn(q)
  <2>1. 0 \in 0..n /\ 0 + 1 = 1  BY <1>0
  <2> QED  BY <2>1, <1>3
<1> QED  BY <1>7, <1>8, <1>9 DEF Rests

LEMMA FramesNil == FramesIn(<<>>) = 0
<1>1. <<>> \in Seq(Nat)  OBVIOUS
<1>2. PICK p : Rests(p, <<>>) /\ FramesIn(<<>>) = p[0]  BY <1>1, FramesRests
<1> QED  BY <1>2 DEF Rests

LEMMA FramesNat == ASSUME NEW q \in Seq(Nat) PROVE FramesIn(q) \in Nat
<1>1. PICK p : Rests(p, q) /\ FramesIn(q) = p[0]  BY FramesRests
<1>2. 0 \in 0..Len(q)  OBVIOUS
<1> QED  BY <1>1, <1>2 DEF Rests

LEMMA FramesCons ==
    ASSUME NEW q \in Seq(Nat), q # <<>>
    PROVE  FramesIn(q) = Head(q) + FramesIn(Tail(q))
<1> DEFINE r == Tail(q)
           n == Len(q)
<1>1. /\ r \in Seq(Nat) /\ Len(r) = n - 1 /\ n \in Nat \ {0} /\ Head(q) = q[1]
      /\ \A k \in 1..(n - 1) : r[k] = q[k + 1]
  OBVIOUS
<1>2. PICK p : Rests(p, q) /\ FramesIn(q) = p[0]  BY FramesRests
<1>3. PICK o : Rests(o, r) /\ FramesIn(r) = o[0]  BY <1>1, FramesRests
<1>4. /\ p \in [0..n -> Nat] /\ p[n] = 0 /\ \A k \in 1..n : p[k - 1] = q[k] + p[k]
  BY <1>2 DEF Rests
<1>5. /\ o \in [0..(n - 1) -> Nat] /\ o[n - 1] = 0 /\ \A k \in 1..(n - 1) : o[k - 1] = r[k] + o[k]
  BY <1>1, <1>3 DEF Rests
<1> HIDE DEF n, r
<1> DEFINE T == {m \in 0..(n - 1) : o[n - 1 - m] # p[n - m]}
<1>6. T = {}
  <2> SUFFICES ASSUME T # {} PROVE FALSE  OBVIOUS
  <2>1. T \subseteq Nat  BY <1>1
  <2>2. PICK m \in T : \A k \in T : m <= k  BY <2>1, LeastNat
  <2>3. m # 0  BY <1>1, <1>4, <1>5, <2>2
  <2> DEFINE k == n - m
  <2>4. m \in 1..(n - 1) /\ m - 1 \notin T
    <3>1. m \in 0..(n - 1)  OBVIOUS
    <3>2. m \in 1..(n - 1) /\ ~(m <= m - 1)  BY <1>1, <2>3, <3>1
    <3> QED  BY <2>2, <3>2
  <2>5. /\ m - 1 \in 0..(n - 1) /\ k \in 1..(n - 1) /\ n - 1 - (m - 1) = k
        /\ n - (m - 1) = k + 1 /\ n - 1 - m = k - 1 /\ k + 1 \in 1..n /\ (k + 1) - 1 = k
    BY <1>1, <2>4
  <2> HIDE DEF k
  <2>6. o[k] = p[k + 1]  BY <2>5, <2>4
  <2>7. o[k - 1] = r[k] + o[k] /\ p[k] = q[k + 1] + p[k + 1]  BY <1>4, <1>5, <2>5
  <2>8. r[k] = q[k + 1]  BY <1>1, <2>5
  <2> QED  BY <2>2, <2>5, <2>6, <2>7, <2>8 DEF k
<1>7. o[0] = p[1]
  <2>1. n - 1 \in 0..(n - 1) /\ n - 1 - (n - 1) = 0 /\ n - (n - 1) = 1  BY <1>1
  <2> QED  BY <2>1, <1>6
<1>8. p[0] = q[1] + p[1]
  <2>1. 1 \in 1..n /\ 1 - 1 = 0  BY <1>1
  <2> QED  BY <2>1, <1>4
<1> QED  BY <1>1, <1>2, <1>3, <1>7, <1>8 DEF r

-----------------------------------------------------------------------------
(* The steps of a session                                                  *)

LEMMA StartHonest == ASSUME Honest(run), StartReturns PROVE Honest(run')
BY DEF StartReturns, Honest, Record, Phases, AudioInv, EndInv

LEMMA DropsHonest ==
    ASSUME NEW r \in Record, AudioInv(r)
    PROVE  LET d == Drops(r) IN
           /\ d \in Record /\ AudioInv([d EXCEPT !.phase = "join"]) /\ d.chunks = <<>>
           /\ d.phase = r.phase /\ d.receiver = r.receiver /\ d.done = r.done /\ d.requested = r.requested
           /\ d.final = r.final /\ d.finals = r.finals /\ d.errors = r.errors
<1> DEFINE n == FramesIn(r.chunks)
<1>0. r.chunks \in Seq(Nat) /\ r.dropped \in Nat /\ r.sent \in Nat  BY DEF Record
<1>1. n \in Nat  BY <1>0, FramesNat
<1>2. r.total = r.sent + r.dropped + n  BY DEF AudioInv
<1> HIDE DEF n
<1>3. Drops(r) = [[r EXCEPT !.dropped = r.dropped + n] EXCEPT !.chunks = <<>>]  BY DEF Drops, n, Record
<1>4. r.dropped + n \in Nat /\ <<>> \in Seq(Nat)  BY <1>0, <1>1
<1>5. Drops(r) \in Record  BY <1>3, <1>4 DEF Record
<1>6. /\ Drops(r).total = r.total /\ Drops(r).sent = r.sent /\ Drops(r).dropped = r.dropped + n
      /\ Drops(r).chunks = <<>>
  BY <1>3 DEF Record
<1>7. AudioInv([Drops(r) EXCEPT !.phase = "join"])
  <2> DEFINE e == [Drops(r) EXCEPT !.phase = "join"]
  <2> SUFFICES AudioInv(e)  OBVIOUS
  <2>1. /\ e.total = r.total /\ e.sent = r.sent /\ e.dropped = r.dropped + n /\ e.chunks = <<>>
        /\ e.phase = "join"
    BY <1>5, <1>6 DEF Record
  <2> HIDE DEF e
  <2> QED  BY <1>0, <1>1, <1>2, <2>1, FramesNil DEF AudioInv
<1> QED  BY <1>3, <1>5, <1>6, <1>7 DEF Record

LEMMA SenderGoesOnHonest == ASSUME Honest(run), SenderGoesOn PROVE Honest(run')
<1>0. run \in Record /\ AudioInv(run) /\ EndInv(run) /\ run.phase = "chunks"  BY DEF Honest, SenderGoesOn
<1>1. CASE run.done
  <2>1. run' = Leaves(Drops(run))  BY <1>1 DEF SenderGoesOn
  <2> DEFINE d == Drops(run)
  <2>2. /\ d \in Record /\ AudioInv([d EXCEPT !.phase = "join"]) /\ d.chunks = <<>>
        /\ d.receiver = run.receiver /\ d.done = run.done /\ d.requested = run.requested
        /\ d.final = run.final /\ d.finals = run.finals /\ d.errors = run.errors
    BY <1>0, DropsHonest
  <2> HIDE DEF d
  <2>3. run' = [d EXCEPT !.phase = "join"]  BY <2>1, <2>2, <1>1 DEF d, Leaves, Done, Record
  <2>4. run' \in Record  BY <2>2, <2>3 DEF Record, Phases
  <2>5. EndInv(run')  BY <1>0, <1>1, <2>2, <2>3 DEF EndInv, Record
  <2> QED  BY <2>2, <2>3, <2>4, <2>5 DEF Honest
<1>2. CASE ~run.done /\ run.chunks # <<>>
  <2>1. run' = [run EXCEPT !.phase = "send", !.firstSent = TRUE]  BY <1>2 DEF SenderGoesOn
  <2> QED  BY <1>0, <1>2, <2>1 DEF Honest, Record, Phases, AudioInv, EndInv
<1>3. CASE ~run.done /\ run.chunks = <<>>
  <2>1. run' = [run EXCEPT !.phase = "finalize", !.requested = TRUE]  BY <1>3 DEF SenderGoesOn
  <2>2. run' \in Record  BY <1>0, <2>1 DEF Record, Phases
  <2>3. AudioInv(run')  BY <1>0, <1>3, <2>1 DEF Record, AudioInv
  <2>4. EndInv(run')
    <3>1. /\ run'.phase = "finalize" /\ run'.requested /\ run'.done = run.done /\ run'.finals = run.finals
          /\ run'.final = run.final /\ run'.errors = run.errors /\ run'.receiver = run.receiver
      BY <1>0, <2>1 DEF Record
    <3>2. run.finals = 0 /\ run.final = NoValue  BY <1>0, <1>3 DEF EndInv
    <3> QED  BY <1>0, <1>3, <3>1, <3>2 DEF EndInv
  <2> QED  BY <2>2, <2>3, <2>4 DEF Honest
<1> QED  BY <1>1, <1>2, <1>3

\* What the receive task and the sender's other steps leave as it is.
SameAudio(r, s) == s.chunks = r.chunks /\ s.total = r.total /\ s.sent = r.sent /\ s.dropped = r.dropped

LEMMA AudioSame ==
    ASSUME NEW r, NEW s, AudioInv(r), SameAudio(r, s),
           s.phase = "send" => r.phase = "send",
           s.phase \in {"finalize", "wait", "join", "close", "over"} =>
               r.phase \in {"finalize", "wait", "join", "close", "over"}
    PROVE  AudioInv(s)
BY DEF AudioInv, SameAudio

LEMMA SendReturnsHonest == ASSUME Honest(run), SendReturns PROVE Honest(run')
<1> DEFINE q == run.chunks
<1>0. run \in Record /\ AudioInv(run) /\ EndInv(run) /\ run.phase = "send"  BY DEF Honest, SendReturns
<1>1. /\ q \in Seq(Nat) /\ q # <<>> /\ run.sent \in Nat /\ run.dropped \in Nat /\ run.total \in Nat
      /\ run.total = run.sent + run.dropped + FramesIn(q)
  BY <1>0 DEF Record, AudioInv
<1>2. FramesIn(q) = Head(q) + FramesIn(Tail(q))  BY <1>1, FramesCons
<1>3. Head(q) \in Nat /\ Tail(q) \in Seq(Nat)  BY <1>1
<1>4. FramesIn(Tail(q)) \in Nat  BY <1>3, FramesNat
<1>5. run' = [run EXCEPT !.phase = "chunks", !.sent = run.sent + Head(q), !.chunks = Tail(q)]
  BY DEF SendReturns
<1>6. run.sent + Head(q) \in Nat  BY <1>1, <1>3
<1> HIDE DEF q
<1>7. run' \in Record  BY <1>0, <1>3, <1>5, <1>6 DEF Record, Phases
<1>8. /\ run'.total = run.total /\ run'.sent = run.sent + Head(q) /\ run'.dropped = run.dropped
      /\ run'.chunks = Tail(q) /\ run'.phase = "chunks"
  BY <1>0, <1>5 DEF Record
<1>9. AudioInv(run')  BY <1>1, <1>2, <1>3, <1>4, <1>8 DEF AudioInv
<1>10. EndInv(run')  BY <1>0, <1>5 DEF Record, EndInv
<1> QED  BY <1>7, <1>9, <1>10 DEF Honest

LEMMA ErrorIs ==
    ASSUME NEW r \in Record, NEW c \in Codes
    PROVE  /\ Error(r, c) \in Record /\ Error(r, c).errors # <<>> /\ SameAudio(r, Error(r, c))
           /\ Error(r, c).phase = r.phase /\ Error(r, c).receiver = r.receiver /\ Error(r, c).done = r.done
           /\ Error(r, c).requested = r.requested /\ Error(r, c).final = r.final /\ Error(r, c).finals = r.finals
<1>1. r.errors \in Seq(Codes)  BY DEF Record
<1> DEFINE e == Append(r.errors, c)
<1>2. e \in Seq(Codes) /\ e # <<>>  BY <1>1
<1>3. Error(r, c) = [r EXCEPT !.errors = e]  BY DEF Error
<1> HIDE DEF e
<1> QED  BY <1>2, <1>3 DEF Record, SameAudio

LEMMA LeavesIs ==
    ASSUME NEW r \in Record
    PROVE  /\ Leaves(r) \in Record /\ SameAudio(r, Leaves(r)) /\ Leaves(r).phase = "join" /\ Leaves(r).done
           /\ Leaves(r).receiver = r.receiver /\ Leaves(r).errors = r.errors
           /\ Leaves(r).requested = r.requested /\ Leaves(r).final = r.final /\ Leaves(r).finals = r.finals
BY DEF Leaves, Done, Record, Phases, SameAudio

LEMMA SendRaisesHonest == ASSUME Honest(run), SendRaises PROVE Honest(run')
<1> DEFINE e == Error(run, "send_exception")
           d == Drops(e)
<1>0. run \in Record /\ AudioInv(run) /\ EndInv(run) /\ run.phase = "send"  BY DEF Honest, SendRaises
<1>1. "send_exception" \in Codes  BY DEF Codes
<1>2. /\ e \in Record /\ e.errors # <<>> /\ SameAudio(run, e) /\ e.phase = "send" /\ e.receiver = run.receiver
      /\ e.done = run.done /\ e.requested = run.requested /\ e.final = run.final /\ e.finals = run.finals
  BY <1>0, <1>1, ErrorIs
<1>3. AudioInv(e)  BY <1>0, <1>2, AudioSame
<1> HIDE DEF e
<1>4. /\ d \in Record /\ AudioInv([d EXCEPT !.phase = "join"]) /\ d.chunks = <<>>
      /\ d.receiver = e.receiver /\ d.done = e.done /\ d.requested = e.requested
      /\ d.final = e.final /\ d.finals = e.finals /\ d.errors = e.errors
  BY <1>2, <1>3, DropsHonest
<1> HIDE DEF d
<1>5. run' = Leaves(d)  BY DEF SendRaises, d, e
<1>6. /\ run' \in Record /\ SameAudio(d, run') /\ run'.phase = "join" /\ run'.done
      /\ run'.receiver = d.receiver /\ run'.errors = d.errors
      /\ run'.requested = d.requested /\ run'.final = d.final /\ run'.finals = d.finals
  BY <1>4, <1>5, LeavesIs
<1>7. AudioInv(run')
  <2>1. SameAudio([d EXCEPT !.phase = "join"], d)  BY <1>4 DEF SameAudio, Record
  <2>2. [d EXCEPT !.phase = "join"].phase = "join"  BY <1>4 DEF Record
  <2> QED  BY <1>4, <1>6, <2>1, <2>2 DEF SameAudio, AudioInv
<1>8. EndInv(run')  BY <1>0, <1>2, <1>4, <1>6 DEF EndInv
<1> QED  BY <1>6, <1>7, <1>8 DEF Honest

LEMMA ErrorHonest ==
    ASSUME NEW r, Honest(r), NEW c \in Codes
    PROVE  Honest(Error(r, c)) /\ Error(r, c).errors # <<>> /\ Error(r, c).phase = r.phase
<1> DEFINE e == Error(r, c)
<1>0. r \in Record /\ AudioInv(r) /\ EndInv(r)  BY DEF Honest
<1>1. /\ e \in Record /\ e.errors # <<>> /\ SameAudio(r, e) /\ e.phase = r.phase /\ e.receiver = r.receiver
      /\ e.done = r.done /\ e.requested = r.requested /\ e.final = r.final /\ e.finals = r.finals
  BY <1>0, ErrorIs
<1> HIDE DEF e
<1>2. AudioInv(e)  BY <1>0, <1>1, AudioSame
<1>3. EndInv(e)  BY <1>0, <1>1 DEF EndInv
<1> QED  BY <1>1, <1>2, <1>3 DEF Honest, e

\* The sender goes behind its chunks, with a final or an error.
LEMMA LeavesHonest ==
    ASSUME NEW r, Honest(r), r.phase \in {"finalize", "wait"}, r.done \/ r.errors # <<>>
    PROVE  Honest(Leaves(r))
<1> DEFINE l == Leaves(r)
<1>0. r \in Record /\ AudioInv(r) /\ EndInv(r)  BY DEF Honest
<1>1. /\ l \in Record /\ SameAudio(r, l) /\ l.phase = "join" /\ l.done
      /\ l.receiver = r.receiver /\ l.errors = r.errors
      /\ l.requested = r.requested /\ l.final = r.final /\ l.finals = r.finals
  BY <1>0, LeavesIs
<1> HIDE DEF l
<1>2. AudioInv(l)  BY <1>0, <1>1, AudioSame
<1>3. EndInv(l)  BY <1>0, <1>1 DEF EndInv
<1> QED  BY <1>1, <1>2, <1>3 DEF Honest, l

LEMMA FinalizeHonest == ASSUME Honest(run), FinalizeReturns \/ FinalizeRaises PROVE Honest(run')
<1>0. run \in Record /\ AudioInv(run) /\ EndInv(run) /\ run.phase = "finalize"
  BY DEF Honest, FinalizeReturns, FinalizeRaises
<1>1. CASE FinalizeReturns
  BY <1>0, <1>1 DEF FinalizeReturns, Honest, Record, Phases, AudioInv, EndInv
<1>2. CASE FinalizeRaises
  <2>1. "finalize_exception" \in Codes  BY DEF Codes
  <2>2. Honest(Error(run, "finalize_exception")) /\ Error(run, "finalize_exception").errors # <<>>
        /\ Error(run, "finalize_exception").phase = "finalize"
    BY <1>0, <2>1, ErrorHonest
  <2>3. run' = Leaves(Error(run, "finalize_exception"))  BY <1>2 DEF FinalizeRaises
  <2> QED  BY <2>2, <2>3, LeavesHonest
<1> QED  BY <1>1, <1>2

LEMMA WaitHonest == ASSUME Honest(run), FinalSeen \/ FinalTimesOut PROVE Honest(run')
<1>0. run.phase = "wait"  BY DEF FinalSeen, FinalTimesOut
<1>1. CASE FinalSeen
  <2>1. run' = Leaves(run) /\ run.done  BY <1>1 DEF FinalSeen
  <2> QED  BY <1>0, <2>1, LeavesHonest
<1>2. CASE FinalTimesOut
  <2>1. "final_timeout" \in Codes  BY DEF Codes
  <2>2. Honest(Error(run, "final_timeout")) /\ Error(run, "final_timeout").errors # <<>>
        /\ Error(run, "final_timeout").phase = "wait"
    BY <1>0, <2>1, ErrorHonest
  <2>3. run' = Leaves(Error(run, "final_timeout"))  BY <1>2 DEF FinalTimesOut
  <2> QED  BY <2>2, <2>3, LeavesHonest
<1> QED  BY <1>1, <1>2

LEMMA CloseHonest == ASSUME Honest(run), Joined \/ CloseReturns \/ CloseRaises PROVE Honest(run')
<1>1. CASE Joined
  BY <1>1 DEF Joined, Honest, Record, Phases, AudioInv, EndInv
<1>2. CASE CloseReturns
  BY <1>2 DEF CloseReturns, Honest, Record, Phases, AudioInv, EndInv
<1>3. CASE CloseRaises
  <2> DEFINE e == Error(run, "close_exception")
  <2>1. "close_exception" \in Codes  BY DEF Codes
  <2>2. Honest(e) /\ e.phase = "close"  BY <1>3, <2>1, ErrorHonest DEF CloseRaises
  <2> HIDE DEF e
  <2>3. run' = [e EXCEPT !.phase = "over"]  BY <1>3 DEF CloseRaises, e
  <2> QED  BY <2>2, <2>3 DEF Honest, Record, Phases, AudioInv, EndInv
<1> QED  BY <1>1, <1>2, <1>3

-----------------------------------------------------------------------------
(* The receive task                                                        *)

\* It ends, or goes on, with what it has noted of an event.
LEMMA ReceiverEndsHonest ==
    ASSUME NEW r \in Record, AudioInv(r), r.phase # "start",
           r.finals = 1 \/ r.errors # <<>>, (r.finals = 0 /\ r.final = NoValue) \/ r.finals = 1,
           r.finals = 1 => (r.final # NoValue <=> r.requested)
    PROVE  Honest(ReceiverEnds(r))
<1> DEFINE e == ReceiverEnds(r)
<1>1. /\ e \in Record /\ SameAudio(r, e) /\ e.phase = r.phase /\ e.done /\ e.receiver = "over"
      /\ e.finals = r.finals /\ e.final = r.final /\ e.requested = r.requested /\ e.errors = r.errors
  BY DEF ReceiverEnds, Done, Record, SameAudio
<1> HIDE DEF e
<1>2. AudioInv(e)  BY <1>1, AudioSame
<1>3. EndInv(e)  BY <1>1 DEF EndInv
<1> QED  BY <1>1, <1>2, <1>3 DEF Honest, e

LEMMA LoopsHonest == ASSUME NEW r, Honest(r), r.phase # "start" PROVE Honest(Loops(r))
<1>1. CASE r.done
  <2> DEFINE e == [r EXCEPT !.receiver = "over"]
  <2>1. Loops(r) = e  BY <1>1 DEF Loops
  <2>2. Honest(e)  BY DEF Honest, Record, AudioInv, EndInv
  <2> QED  BY <2>1, <2>2
<1>2. CASE ~r.done
  BY <1>2 DEF Loops
<1> QED  BY <1>1, <1>2

LEMMA ReceivingIs ==
    ASSUME Honest(run), Receiving
    PROVE  /\ run \in Record /\ AudioInv(run) /\ EndInv(run) /\ run.phase # "start"
           /\ run.finals = 0 /\ run.final = NoValue
BY DEF Receiving, Honest, EndInv

LEMMA ReceiveFailsHonest == ASSUME Honest(run), ReceiveRaises \/ ReceivesError PROVE Honest(run')
<1>0. Receiving  BY DEF ReceiveRaises, ReceivesError
<1>1. PICK c \in {"receive_exception", "error_event"} : run' = ReceiverEnds(Error(run, c))
  BY DEF ReceiveRaises, ReceivesError
<1>2. c \in Codes  BY DEF Codes
<1>3. run \in Record /\ run.phase # "start" /\ run.finals = 0 /\ run.final = NoValue  BY <1>0, ReceivingIs
<1> DEFINE e == Error(run, c)
<1>4. e \in Record /\ e.errors # <<>> /\ e.phase = run.phase /\ e.final = run.final /\ e.finals = run.finals
  BY <1>2, <1>3, ErrorIs
<1>5. AudioInv(e)  BY <1>2, ErrorHonest DEF Honest
<1> HIDE DEF e
<1>6. Honest(ReceiverEnds(e))  BY <1>3, <1>4, <1>5, ReceiverEndsHonest
<1> QED  BY <1>1, <1>6 DEF e

LEMMA ReceivesNothingHonest == ASSUME Honest(run), ReceivesNothing PROVE Honest(run')
BY ReceivingIs DEF ReceivesNothing, Honest, Record, AudioInv, EndInv

LEMMA ReceivesWarningHonest == ASSUME Honest(run), ReceivesWarning PROVE Honest(run')
<1> DEFINE e == [run EXCEPT !.warnings = @ + 1]
<1>1. run' = Loops(e) /\ Receiving  BY DEF ReceivesWarning
<1>2. Honest(e) /\ e.phase = run.phase
  <2>1. run.warnings + 1 \in Nat  BY DEF Honest, Record
  <2>2. e \in Record  BY <2>1 DEF Honest, Record
  <2>3. /\ e.finals = run.finals /\ e.final = run.final /\ e.requested = run.requested /\ e.errors = run.errors
        /\ e.done = run.done /\ e.receiver = run.receiver /\ e.phase = run.phase /\ SameAudio(run, e)
    BY DEF Honest, Record, SameAudio
  <2>4. AudioInv(e)  BY <2>3, AudioSame DEF Honest
  <2>5. EndInv(e)  BY <2>3 DEF Honest, EndInv
  <2> QED  BY <2>2, <2>3, <2>4, <2>5 DEF Honest
<1> HIDE DEF e
<1> QED  BY <1>1, <1>2, ReceivingIs, LoopsHonest

LEMMA MaxIs == ASSUME NEW a \in Int, NEW b \in Int PROVE Max({a, b}) \in {a, b}
<1> DEFINE Upper(x) == \A y \in {a, b} : x >= y
<1>1. Max({a, b}) = CHOOSE x \in {a, b} : Upper(x)  BY DEF Max
<1>2. Upper(a) \/ Upper(b)
  <2>1. a >= b \/ b >= a  OBVIOUS
  <2> QED  BY <2>1
<1>3. \E x \in {a, b} : Upper(x)  BY <1>2
<1> HIDE DEF Upper
<1> QED  BY <1>1, <1>3

\* The depth and the delay are numbers, and nothing else changes.
LEMMA KeptIs ==
    ASSUME NEW r \in Record, NEW depth \in Latencies \cup {NoValue}, NEW delay \in Latencies \cup {NoValue}
    PROVE  LET k == Kept(r, depth, delay) IN
           /\ k \in Record /\ SameAudio(r, k) /\ k.phase = r.phase /\ k.receiver = r.receiver /\ k.done = r.done
           /\ k.requested = r.requested /\ k.final = r.final /\ k.finals = r.finals /\ k.errors = r.errors
<1> DEFINE d == IF depth = NoValue THEN r.depth ELSE Max({r.depth, depth})
           e == IF delay = NoValue THEN r.delay ELSE Max({r.delay, delay})
<1>1. r.depth \in Int /\ r.delay \in Int /\ depth \in Int /\ delay \in Int  BY RunAssumption DEF Record, NoValue
<1>2. d \in Int /\ e \in Int
  <2>1. Max({r.depth, depth}) \in {r.depth, depth} /\ Max({r.delay, delay}) \in {r.delay, delay}
    BY <1>1, MaxIs
  <2> QED  BY <1>1, <2>1
<1>3. Kept(r, depth, delay) = [[r EXCEPT !.depth = d] EXCEPT !.delay = e]  BY DEF Kept, Record
<1> HIDE DEF d, e
<1> QED  BY <1>2, <1>3 DEF Record, SameAudio

LEMMA ReceivesPartialHonest == ASSUME Honest(run), ReceivesPartial PROVE Honest(run')
<1>0. Receiving  BY DEF ReceivesPartial
<1>1. /\ run \in Record /\ AudioInv(run) /\ EndInv(run) /\ run.phase # "start"
      /\ run.finals = 0 /\ run.final = NoValue
  BY <1>0, ReceivingIs
<1>2. PICK latency \in Latencies : \E delay \in {latency, NoValue} :
         run' = Loops([Kept(run, NoValue, delay) EXCEPT
             !.partials = @ + 1,
             !.interim = IF @ = NoValue /\ run.firstSent THEN latency ELSE @])
  BY DEF ReceivesPartial
<1>3. PICK delay \in {latency, NoValue} :
         run' = Loops([Kept(run, NoValue, delay) EXCEPT
             !.partials = @ + 1,
             !.interim = IF @ = NoValue /\ run.firstSent THEN latency ELSE @])
  BY <1>2
<1> DEFINE k == Kept(run, NoValue, delay)
           i == IF k.interim = NoValue /\ run.firstSent THEN latency ELSE k.interim
           e == [[k EXCEPT !.partials = k.partials + 1] EXCEPT !.interim = i]
<1>4. /\ k \in Record /\ SameAudio(run, k) /\ k.phase = run.phase /\ k.receiver = run.receiver
      /\ k.done = run.done /\ k.requested = run.requested /\ k.final = run.final /\ k.finals = run.finals
      /\ k.errors = run.errors
  <2>1. delay \in Latencies \cup {NoValue} /\ NoValue \in Latencies \cup {NoValue}  OBVIOUS
  <2> QED  BY <1>1, <2>1, KeptIs
<1>5. run' = Loops(e)  BY <1>3, <1>4 DEF Record
<1> HIDE DEF k
<1>6. i \in Int /\ k.partials + 1 \in Nat  BY <1>4, RunAssumption DEF Record
<1> HIDE DEF i
<1>7. /\ e \in Record /\ SameAudio(k, e) /\ e.phase = k.phase /\ e.receiver = k.receiver /\ e.done = k.done
      /\ e.requested = k.requested /\ e.final = k.final /\ e.finals = k.finals /\ e.errors = k.errors
  BY <1>4, <1>6 DEF Record, SameAudio
<1> HIDE DEF e
<1>8. AudioInv(e)
  <2>1. AudioInv(k)  BY <1>1, <1>4, AudioSame
  <2> QED  BY <1>4, <1>7, <2>1, AudioSame
<1>9. EndInv(e)  BY <1>1, <1>4, <1>7 DEF EndInv
<1>10. Honest(e) /\ e.phase # "start"  BY <1>1, <1>4, <1>7, <1>8, <1>9 DEF Honest
<1> QED  BY <1>5, <1>10, LoopsHonest

LEMMA ReceivesFinalHonest == ASSUME Honest(run), ReceivesFinal PROVE Honest(run')
<1>0. Receiving  BY DEF ReceivesFinal
<1>1. /\ run \in Record /\ AudioInv(run) /\ EndInv(run) /\ run.phase # "start"
      /\ run.finals = 0 /\ run.final = NoValue
  BY <1>0, ReceivingIs
<1>2. PICK latency \in Latencies :
         run' = ReceiverEnds([Kept(run, latency, latency) EXCEPT
             !.finals = @ + 1, !.final = IF run.requested THEN latency ELSE @])
  BY DEF ReceivesFinal
<1> DEFINE k == Kept(run, latency, latency)
           f == IF run.requested THEN latency ELSE k.final
           e == [[k EXCEPT !.finals = k.finals + 1] EXCEPT !.final = f]
<1>3. /\ k \in Record /\ SameAudio(run, k) /\ k.phase = run.phase /\ k.receiver = run.receiver
      /\ k.done = run.done /\ k.requested = run.requested /\ k.final = run.final /\ k.finals = run.finals
      /\ k.errors = run.errors
  <2>1. latency \in Latencies \cup {NoValue}  OBVIOUS
  <2> QED  BY <1>1, <2>1, KeptIs
<1>4. run' = ReceiverEnds(e)  BY <1>2, <1>3 DEF Record
<1> HIDE DEF k
<1>5. f \in Int /\ k.finals + 1 = 1 /\ k.finals + 1 \in Nat /\ (f # NoValue <=> run.requested)
  BY <1>1, <1>3, RunAssumption DEF Record, NoValue
<1> HIDE DEF f
<1>6. /\ e \in Record /\ SameAudio(k, e) /\ e.phase = k.phase /\ e.finals = k.finals + 1 /\ e.final = f
      /\ e.requested = k.requested
  <2> DEFINE n == k.finals + 1
  <2>1. n \in Nat  BY <1>5
  <2> HIDE DEF n
  <2>2. [[k EXCEPT !.finals = n] EXCEPT !.final = f] \in Record  BY <1>3, <1>5, <2>1 DEF Record
  <2> QED  BY <1>3, <1>5, <2>2 DEF Record, SameAudio, n
<1> HIDE DEF e
<1>7. AudioInv(e)
  <2>1. AudioInv(k)  BY <1>1, <1>3, AudioSame
  <2> QED  BY <1>3, <1>6, <2>1, AudioSame
<1>8. Honest(ReceiverEnds(e))  BY <1>1, <1>3, <1>5, <1>6, <1>7, ReceiverEndsHonest
<1> QED  BY <1>4, <1>8

-----------------------------------------------------------------------------
(* The theorem                                                             *)

LEMMA StepKeeps == ASSUME RunInv, RunStep PROVE RunInv'
<1>1. run.phase # "none"
  BY DEF RunStep, Sender, Receiver, StartReturns, StartFails, SenderGoesOn, SendReturns, SendRaises,
         FinalizeReturns, FinalizeRaises, FinalSeen, FinalTimesOut, Joined, CloseReturns, CloseRaises,
         ReceivesNothing, ReceiveRaises, ReceivesError, ReceivesWarning, ReceivesPartial, ReceivesFinal,
         Receiving
<1>2. run # NoRun  BY <1>1 DEF NoRun
<1>3. Honest(run)  BY <1>2 DEF RunInv
<1>4. CASE Sender
  <2>1. CASE StartFails  BY <2>1 DEF StartFails, RunInv
  <2> QED
    BY <1>3, <1>4, <2>1, StartHonest, SenderGoesOnHonest, SendReturnsHonest, SendRaisesHonest,
       FinalizeHonest, WaitHonest, CloseHonest
    DEF Sender, RunInv
<1>5. CASE Receiver
  BY <1>3, <1>5, ReceivesNothingHonest, ReceiveFailsHonest, ReceivesWarningHonest, ReceivesPartialHonest,
     ReceivesFinalHonest
  DEF Receiver, RunInv
<1> QED  BY <1>4, <1>5 DEF RunStep

LEMMA FollowKeeps == ASSUME FollowRun PROVE RunInv'
<1>1. PICK t \in Followed, chunks \in ChunkLists : run' = Session(t, chunks)  BY DEF FollowRun
<1>2. chunks \in Seq(Nat) /\ <<>> \in Seq(Codes)  BY RunAssumption
<1>3. FramesIn(chunks) \in Nat  BY <1>2, FramesNat
<1>4. Session(t, chunks) \in Record  BY <1>2, <1>3 DEF Session, Record, Phases, NoValue
<1>5. AudioInv(Session(t, chunks))  BY <1>3 DEF Session, AudioInv
<1>6. EndInv(Session(t, chunks))  BY DEF Session, EndInv
<1> QED  BY <1>1, <1>4, <1>5, <1>6 DEF RunInv, Honest

LEMMA DecisionKeeps == RunInv /\ [DecisionNext]_decisionVars => RunInv'
<1> SUFFICES ASSUME RunInv, [DecisionNext]_decisionVars PROVE RunInv'  OBVIOUS
<1>1. CASE FollowRun  BY <1>1, FollowKeeps
<1>2. CASE RunGoesOn  BY <1>2, StepKeeps DEF RunGoesOn
<1>3. CASE RunsEnd  BY <1>3 DEF RunsEnd, RunInv
<1>4. CASE Benchmark \/ FromElsewhere \/ Compare \/ UNCHANGED decisionVars
  <2>1. run' = run  BY <1>4 DEF Benchmark, FromElsewhere, Compare, decisionVars
  <2> QED  BY <2>1 DEF RunInv, Honest, AudioInv, EndInv
<1> QED  BY <1>1, <1>2, <1>3, <1>4 DEF DecisionNext

\* With a run that is over nothing of it is left to be sent.
LEMMA RunIsHonest == RunInv => SampleHonest
<1> SUFFICES ASSUME RunInv, run.phase = "over" PROVE SampleHonest  BY DEF SampleHonest
<1>1. run # NoRun  BY DEF NoRun
<1>2. run \in Record /\ AudioInv(run) /\ EndInv(run)  BY <1>1 DEF RunInv, Honest
<1>3. /\ run.sent \in Nat /\ run.dropped \in Nat /\ run.total \in Nat /\ run.errors \in Seq(Codes)
      /\ run.finals \in Nat /\ run.total = run.sent + run.dropped
  BY <1>2, FramesNil DEF Record, AudioInv
<1>4. Max({0, run.total - run.sent - run.dropped}) = 0
  <2>1. run.total - run.sent - run.dropped = 0  BY <1>3
  <2>2. Max({0, 0}) \in {0, 0}  BY MaxIs
  <2> QED  BY <2>1, <2>2
<1> DEFINE s == Sample(run)
<1>5. /\ s.errors = Len(run.errors) /\ s.sent = run.sent /\ s.dropped = run.dropped + 0 /\ s.finals = run.finals
      /\ s.final = run.final /\ s.successful = IF run.finals > 0 /\ run.errors = <<>> THEN 1 ELSE 0
  BY <1>4 DEF Sample
<1> HIDE DEF s
<1>6. s.finals = 0 => s.errors > 0
  <2>1. run.errors # <<>> => Len(run.errors) > 0  BY <1>3
  <2> QED  BY <1>2, <1>5, <2>1 DEF EndInv
<1>7. s.sent + s.dropped = run.total  BY <1>3, <1>5
<1>8. s.successful = 1 => s.finals = 1 /\ (s.final # NoValue <=> run.requested)
  BY <1>2, <1>3, <1>5 DEF EndInv
<1>9. s.final # NoValue => s.finals = 1  BY <1>2, <1>5 DEF EndInv
<1> QED  BY <1>6, <1>7, <1>8, <1>9 DEF SampleHonest, s

\* Whatever the server and the connection do, in whatever order sender and
\* receive task go on, and however the audio is cut: the sample made of a session
\* is honest about its failures, its audio and its final (bench_local_stt_stream.py).
THEOREM SessionsHonest == DecisionSpec => []SampleHonest
<1>1. DecisionInit => RunInv  BY DEF DecisionInit, RunInit, RunInv
<1> QED  BY <1>1, DecisionKeeps, RunIsHonest, PTL DEF DecisionSpec

-----------------------------------------------------------------------------
(* Least and greatest values, and counts that add up                       *)

LEMMA FiniteExtremes ==
    ASSUME NEW S, S \subseteq Int, S # {}, IsFiniteSet(S)
    PROVE  (\E x \in S : \A y \in S : x <= y) /\ (\E x \in S : \A y \in S : y <= x)
<1>1. PICK q \in Seq(S) : \A x \in S : \E n \in 1..Len(q) : q[n] = x  BY DEF IsFiniteSet
<1>0. Len(q) \in Nat /\ q \in [1..Len(q) -> S]  OBVIOUS
<1>2. \A n \in 1..Len(q) : q[n] \in S /\ q[n] \in Int  BY <1>0
<1>3. Len(q) \in Nat /\ Len(q) # 0
  <2>1. PICK x \in S : TRUE  OBVIOUS
  <2>2. PICK n \in 1..Len(q) : q[n] = x  BY <1>1
  <2> QED  BY <1>0, <2>2
<1> DEFINE Ends(n) == /\ \E i \in 1..n : \A j \in 1..n : q[i] <= q[j]
                      /\ \E i \in 1..n : \A j \in 1..n : q[j] <= q[i]
           T == {n \in 1..Len(q) : ~Ends(n)}
<1>4. ASSUME T # {} PROVE FALSE
  <2>1. PICK n \in T : \A m \in T : n <= m
    <3>1. T \subseteq Nat  BY <1>3
    <3> QED  BY <1>4, <3>1, LeastNat
  <2>2. n \in 1..Len(q) /\ ~Ends(n)  OBVIOUS
  <2>3. n # 1
    <3>1. 1 \in 1..1 /\ 1..1 = {1} /\ q[1] \in Int  BY <1>2, <1>3
    <3>2. Ends(1)  BY <3>1
    <3> QED  BY <2>2, <3>2
  <2>4. n - 1 \in 1..Len(q) /\ ~(n <= n - 1)  BY <1>3, <2>2, <2>3
  <2>5. Ends(n - 1)  BY <2>1, <2>4
  <2> HIDE DEF T, Ends
  <2>6. \A j \in 1..n : j = n \/ j \in 1..(n - 1)  BY <1>3, <2>2
  <2>7. PICK i \in 1..(n - 1) : \A j \in 1..(n - 1) : q[i] <= q[j]  BY <2>5 DEF Ends
  <2>8. PICK k \in 1..(n - 1) : \A j \in 1..(n - 1) : q[j] <= q[k]  BY <2>5 DEF Ends
  <2>9. /\ i \in 1..n /\ k \in 1..n /\ n \in 1..n
        /\ q[i] \in Int /\ q[k] \in Int /\ q[n] \in Int
        /\ \A j \in 1..(n - 1) : q[j] \in Int
    <3>1. i \in 1..n /\ k \in 1..n /\ n \in 1..n /\ 1..n \subseteq 1..Len(q)
      BY <1>3, <2>2
    <3>2. \A j \in 1..(n - 1) : j \in 1..Len(q)  BY <1>3, <2>2
    <3> QED  BY <1>2, <3>1, <3>2
  <2>10. \E a \in 1..n : \A j \in 1..n : q[a] <= q[j]
    <3>1. CASE q[i] <= q[n]
      <4>1. \A j \in 1..n : q[i] <= q[j]  BY <2>6, <2>7, <3>1
      <4> QED  BY <2>9, <4>1
    <3>2. CASE ~(q[i] <= q[n])
      <4>1. ASSUME NEW j \in 1..n PROVE q[n] <= q[j]
        <5>1. CASE j = n  BY <2>9, <5>1
        <5>2. CASE j \in 1..(n - 1)
          <6>1. q[i] <= q[j] /\ q[j] \in Int  BY <2>7, <2>9, <5>2
          <6> QED  BY <2>9, <3>2, <6>1
        <5> QED  BY <2>6, <5>1, <5>2
      <4> QED  BY <2>9, <4>1
    <3> QED  BY <3>1, <3>2
  <2>11. \E a \in 1..n : \A j \in 1..n : q[j] <= q[a]
    <3>1. CASE q[n] <= q[k]
      <4>1. \A j \in 1..n : q[j] <= q[k]  BY <2>6, <2>8, <3>1
      <4> QED  BY <2>9, <4>1
    <3>2. CASE ~(q[n] <= q[k])
      <4>1. ASSUME NEW j \in 1..n PROVE q[j] <= q[n]
        <5>1. CASE j = n  BY <2>9, <5>1
        <5>2. CASE j \in 1..(n - 1)
          <6>1. q[j] <= q[k] /\ q[j] \in Int  BY <2>8, <2>9, <5>2
          <6> QED  BY <2>9, <3>2, <6>1
        <5> QED  BY <2>6, <5>1, <5>2
      <4> QED  BY <2>9, <4>1
    <3> QED  BY <3>1, <3>2
  <2> QED  BY <2>2, <2>10, <2>11 DEF Ends
<1>5. Ends(Len(q))
  <2>1. Len(q) \in 1..Len(q)  BY <1>3
  <2> QED  BY <1>4, <2>1
<1>6. \E x \in S : \A y \in S : x <= y
  <2>1. PICK i \in 1..Len(q) : \A j \in 1..Len(q) : q[i] <= q[j]  BY <1>5
  <2>2. \A y \in S : q[i] <= y  BY <1>1, <2>1
  <2> QED  BY <1>2, <2>2
<1>7. \E x \in S : \A y \in S : y <= x
  <2>1. PICK i \in 1..Len(q) : \A j \in 1..Len(q) : q[j] <= q[i]  BY <1>5
  <2>2. \A y \in S : y <= q[i]  BY <1>1, <2>1
  <2> QED  BY <1>2, <2>2
<1> QED  BY <1>6, <1>7

\* What Min and Max choose of a finite set of integers.
LEMMA MinIn == ASSUME NEW S, S \subseteq Int, S # {}, IsFiniteSet(S)
               PROVE  Min(S) \in S /\ \A y \in S : Min(S) <= y
<1>1. \E x \in S : \A y \in S : x =< y  BY FiniteExtremes
<1> QED  BY <1>1 DEF Min

LEMMA MaxIn == ASSUME NEW S, S \subseteq Int, S # {}, IsFiniteSet(S)
               PROVE  Max(S) \in S /\ \A y \in S : y <= Max(S)
<1>1. \E x \in S : \A y \in S : y <= x  BY FiniteExtremes
<1>2. \E x \in S : \A y \in S : x >= y  BY <1>1
<1>3. Max(S) \in S /\ \A y \in S : Max(S) >= y  BY <1>2 DEF Max
<1> QED  BY <1>3

LEMMA LeastIn == ASSUME NEW I, I \subseteq Nat, I # {} PROVE Min(I) \in I
<1>1. \E x \in I : \A y \in I : x =< y  BY LeastNat
<1> QED  BY <1>1 DEF Min

\* Counts that add up to nothing are all nothing.
LEMMA TotalNat == ASSUME NEW q \in Seq(Nat) PROVE Total(q) \in Nat
BY FramesNat DEF FramesIn

LEMMA TotalNothing == ASSUME NEW q \in Seq(Nat), Total(q) = 0 PROVE \A i \in DOMAIN q : q[i] = 0
<1> DEFINE Bad(n) == \E p \in Seq(Nat) : Len(p) = n /\ Total(p) = 0 /\ \E i \in 1..n : p[i] # 0
           T == {n \in Nat : Bad(n)}
<1>1. ASSUME T # {} PROVE FALSE
  <2>1. PICK n \in T : \A m \in T : n <= m
    <3>1. T \subseteq Nat  OBVIOUS
    <3> QED  BY <1>1, <3>1, LeastNat
  <2>2. n \in Nat /\ Bad(n)  OBVIOUS
  <2>3. PICK p \in Seq(Nat) : Len(p) = n /\ Total(p) = 0 /\ \E i \in 1..n : p[i] # 0  BY <2>2
  <2>4. p # <<>>  BY <2>3
  <2>5. /\ Tail(p) \in Seq(Nat) /\ Len(Tail(p)) = n - 1 /\ Head(p) \in Nat /\ Head(p) = p[1]
        /\ \A k \in 1..(n - 1) : Tail(p)[k] = p[k + 1]
    BY <2>3, <2>4
  <2>6. Total(p) = Head(p) + Total(Tail(p))  BY <2>4, FramesCons DEF FramesIn
  <2>7. Total(Tail(p)) \in Nat  BY <2>5, TotalNat
  <2>8. p[1] = 0 /\ Total(Tail(p)) = 0  BY <2>3, <2>5, <2>6, <2>7
  <2>9. PICK i \in 1..n : p[i] # 0  BY <2>3
  <2>10. i - 1 \in 1..(n - 1) /\ (i - 1) + 1 = i /\ n - 1 \in Nat /\ ~(n <= n - 1)  BY <2>2, <2>8, <2>9
  <2>11. Tail(p)[i - 1] # 0  BY <2>5, <2>9, <2>10
  <2>12. Bad(n - 1)  BY <2>5, <2>8, <2>10, <2>11
  <2>13. n - 1 \in T  BY <2>10, <2>12
  <2> QED  BY <2>1, <2>10, <2>13
<1>2. Len(q) \notin T  BY <1>1
<1>3. Len(q) \in Nat /\ DOMAIN q = 1..Len(q)  OBVIOUS
<1>4. ~Bad(Len(q))  BY <1>2, <1>3
<1> QED  BY <1>3, <1>4

\* The place of a percentile is one of those there are.
LEMMA RankWithin == ASSUME NEW n \in Nat \ {0}, NEW p \in {50, 95, 99} PROVE RankOf(n, p) \in Int /\ RankOf(n, p) <= n
<1> DEFINE k == n - 1
<1>1. k \in Nat /\ n = k + 1  OBVIOUS
<1> HIDE DEF k
<1>2. ASSUME NEW a \in Nat, a <= 99 * k PROVE RoundedQuotient(a, 100) \in Int /\ RoundedQuotient(a, 100) <= k
  <2> DEFINE q == a \div 100
             r == a % 100
  <2>1. q \in Nat /\ r \in 0..99 /\ a = 100 * q + r  OBVIOUS
  <2>2. RoundedQuotient(a, 100) \in {q, q + 1} /\ (RoundedQuotient(a, 100) = q + 1 => 2 * r >= 100)
    <3>1. RoundedQuotient(a, 100) = IF 2 * r > 100 \/ (2 * r = 100 /\ q % 2 = 1) THEN q + 1 ELSE q
      BY DEF RoundedQuotient
    <3> DEFINE up == 2 * r > 100 \/ (2 * r = 100 /\ q % 2 = 1)
    <3>2. RoundedQuotient(a, 100) = IF up THEN q + 1 ELSE q  BY <3>1
    <3>3. up => 2 * r >= 100  BY <2>1
    <3> HIDE DEF q, r, up
    <3>4. q # q + 1  BY <2>1
    <3>5. CASE up  BY <3>2, <3>3, <3>5
    <3>6. CASE ~up  BY <3>2, <3>4, <3>6
    <3> QED  BY <3>5, <3>6
  <2> HIDE DEF q, r
  <2>3. q <= k  BY <1>1, <1>2, <2>1
  <2>4. 2 * r >= 100 => q + 1 <= k  BY <1>1, <1>2, <2>1
  <2> QED  BY <1>1, <2>1, <2>2, <2>3, <2>4
<1>3. k * p \in Nat /\ k * p <= 99 * k
  <2>1. CASE p = 50  BY <1>1, <2>1
  <2>2. CASE p = 95  BY <1>1, <2>2
  <2>3. CASE p = 99  BY <1>1, <2>3
  <2> QED  BY <2>1, <2>2, <2>3
<1>4. RoundedQuotient(k * p, 100) \in Int /\ RoundedQuotient(k * p, 100) <= k  BY <1>2, <1>3
<1>5. RankOf(n, p) = 1 + RoundedQuotient(k * p, 100)  BY DEF RankOf, k
<1> QED  BY <1>1, <1>4, <1>5

LEMMA ListedIsFinite == ASSUME NEW S, NEW q \in Seq(S), \A x \in S : \E n \in 1..Len(q) : q[n] = x
                        PROVE  IsFiniteSet(S)
BY DEF IsFiniteSet

\* A percentile of integers is one of them.
LEMMA PercentileIsValue ==
    ASSUME NEW D, NEW v, IsFiniteSet(D), v \in [D -> Int], NEW p \in {50, 95, 99}
    PROVE  SummarizePercentile(v, p) \in Int
<1> DEFINE C(x) == {i \in D : v[i] <= x}
           rank == RankOf(Cardinality(D), p)
           S == {x \in Range(v) : Cardinality(C(x)) >= rank}
<1>1. DOMAIN v = D  OBVIOUS
<1>2. SummarizePercentile(v, p) = IF D = {} THEN NoValue ELSE Min(S)
  BY <1>1 DEF SummarizePercentile
<1>3. CASE D = {}  BY <1>2, <1>3 DEF NoValue
<1>4. CASE D # {}
  <2>1. Range(v) = {v[i] : i \in D} /\ Range(v) \subseteq Int /\ Range(v) # {}  BY <1>1, <1>4 DEF Range
  <2>2. IsFiniteSet(Range(v))
    <3>1. PICK q \in Seq(D) : \A i \in D : \E n \in 1..Len(q) : q[n] = i  BY DEF IsFiniteSet
    <3>2. Len(q) \in Nat /\ q \in [1..Len(q) -> D]  OBVIOUS
    <3> DEFINE w == [n \in 1..Len(q) |-> v[q[n]]]
    <3>3. w \in Seq(Range(v)) /\ Len(w) = Len(q)  BY <2>1, <3>2
    <3>4. ASSUME NEW x \in Range(v) PROVE \E n \in 1..Len(w) : w[n] = x
      <4>1. PICK i \in D : v[i] = x  BY <2>1
      <4>2. PICK n \in 1..Len(q) : q[n] = i  BY <3>1
      <4> QED  BY <3>3, <4>1, <4>2
    <3> HIDE DEF w
    <3> QED  BY <3>3, <3>4, ListedIsFinite
  <2>3. PICK x \in Range(v) : \A y \in Range(v) : y <= x  BY <2>1, <2>2, FiniteExtremes
  <2>4. C(x) = D  BY <2>1, <2>3
  <2>5. Cardinality(D) \in Nat \ {0}
    <3>1. Cardinality(D) \in Nat  BY FS_CardinalityType
    <3>2. Cardinality(D) # 0  BY <1>4, FS_EmptySet
    <3> QED  BY <3>1, <3>2
  <2>6. rank \in Int /\ rank <= Cardinality(D)  BY <2>5, RankWithin
  <2>7. Cardinality(C(x)) >= rank  BY <2>4, <2>5, <2>6
  <2>8. S \subseteq Range(v) /\ S # {}  BY <2>7
  <2>9. IsFiniteSet(S)  BY <2>2, <2>8, FS_Subset
  <2>10. S \subseteq Int  BY <2>1, <2>8
  <2> HIDE DEF S
  <2>11. Min(S) \in S  BY <2>8, <2>9, <2>10, MinIn
  <2> QED  BY <1>2, <1>4, <2>10, <2>11
<1> QED  BY <1>3, <1>4

LEMMA FirstDefinedIs ==
    ASSUME NEW q \in Seq(Int) PROVE FirstDefined(q) \in Int
<1> DEFINE I == {i \in DOMAIN q : q[i] # NoValue}
<1>1. FirstDefined(q) = IF I = {} THEN NoValue ELSE q[Min(I)]  BY DEF FirstDefined
<1>2. I \subseteq Nat /\ I \subseteq DOMAIN q /\ \A i \in DOMAIN q : q[i] \in Int  OBVIOUS
<1> HIDE DEF I
<1>3. I # {} => Min(I) \in I  BY <1>2, LeastIn
<1>4. CASE I = {}  BY <1>1, <1>4 DEF NoValue
<1>5. CASE I # {}  BY <1>1, <1>2, <1>3, <1>5
<1> QED  BY <1>4, <1>5

\* Of artifacts that are well formed the values of the metrics, the run counts and
\* the total of errors are numbers.
LEMMA PercentileRead ==
    ASSUME NEW a, WellFormed(a), NEW m \in Metrics, NEW p \in DOMAIN Percentiles
    PROVE  Percentile(a.summary, m, p) \in Int
<1> DEFINE I == {i \in DOMAIN Spellings : <<m, Spellings[i]>> \in DOMAIN a.summary}
<1>1. Percentile(a.summary, m, p) = IF I = {} THEN NoValue ELSE a.summary[<<m, Spellings[Min(I)]>>][p]
  BY DEF Percentile
<1>2. I \subseteq Nat
  <2>1. DOMAIN Spellings = 1..4  BY DEF Spellings
  <2> QED  BY <2>1
<1>3. \A i \in I : a.summary[<<m, Spellings[i]>>][p] \in Int  BY DEF WellFormed
<1> HIDE DEF I
<1>4. I # {} => Min(I) \in I  BY <1>2, LeastIn
<1>5. CASE I = {}  BY <1>1, <1>5 DEF NoValue
<1>6. CASE I # {}  BY <1>1, <1>3, <1>4, <1>6
<1> QED  BY <1>5, <1>6

LEMMA RunCountRead == ASSUME NEW a, WellFormed(a) PROVE RunCount(a) \in Int
<1>1. FirstDefined(a.runs) \in Int  BY FirstDefinedIs DEF WellFormed
<1>2. Len(a.samples) \in Int  BY DEF WellFormed
<1> QED  BY <1>1, <1>2 DEF RunCount, NoValue

LEMMA SampleCounts ==
    ASSUME NEW s, s \in Seq(ToSet(s)), \A i \in DOMAIN s : s[i].errors \in Nat /\ Len(s[i].codes) \in Nat
    PROVE  /\ [i \in DOMAIN s |-> s[i].errors] \in Seq(Nat)
           /\ SummarizeDiagnostics(s) \in Nat
<1>1. Len(s) \in Nat /\ DOMAIN s = 1..Len(s)  OBVIOUS
<1>2. [i \in DOMAIN s |-> s[i].errors] \in Seq(Nat)  BY <1>1
<1>3. [i \in DOMAIN s |-> Len(s[i].codes)] \in Seq(Nat)  BY <1>1
<1> QED  BY <1>2, <1>3, TotalNat DEF SummarizeDiagnostics

\* The total of errors is no less than what the samples say.
LEMMA TotalRead ==
    ASSUME NEW a, WellFormed(a)
    PROVE  /\ DiagnosticTotal(a) \in Nat
           /\ DiagnosticTotal(a) = 0 => \A i \in DOMAIN a.samples : a.samples[i].errors = 0
<1> DEFINE e == [i \in DOMAIN a.samples |-> a.samples[i].errors]
           T == {SummarizeDiagnostics(a.samples), Total(e)} \cup ToSet(a.errorTotals) \cup {0}
<1>1. e \in Seq(Nat) /\ SummarizeDiagnostics(a.samples) \in Nat  BY SampleCounts DEF WellFormed
<1>2. Total(e) \in Nat  BY <1>1, TotalNat
<1>3. a.errorTotals \in Seq(Nat)  BY DEF WellFormed
<1>4. ToSet(a.errorTotals) \subseteq Nat /\ IsFiniteSet(ToSet(a.errorTotals))
  <2>1. DOMAIN a.errorTotals = 1..Len(a.errorTotals) /\ Len(a.errorTotals) \in Nat  BY <1>3
  <2>2. ToSet(a.errorTotals) = {a.errorTotals[i] : i \in DOMAIN a.errorTotals}  BY DEF ToSet
  <2>3. a.errorTotals \in Seq(ToSet(a.errorTotals))  BY <1>3, <2>1, <2>2
  <2>4. \A x \in ToSet(a.errorTotals) : \E n \in 1..Len(a.errorTotals) : a.errorTotals[n] = x
    BY <2>1, <2>2
  <2>5. IsFiniteSet(ToSet(a.errorTotals))  BY <2>3, <2>4, ListedIsFinite
  <2>6. \A i \in DOMAIN a.errorTotals : a.errorTotals[i] \in Nat  BY <1>3
  <2> QED  BY <2>2, <2>5, <2>6
<1>5. IsFiniteSet(T)
  <2>1. IsFiniteSet({0}) /\ IsFiniteSet({Total(e)}) /\ IsFiniteSet({SummarizeDiagnostics(a.samples)})
    BY FS_Singleton
  <2>2. IsFiniteSet(ToSet(a.errorTotals) \cup {0})  BY <1>4, <2>1, FS_Union
  <2>3. IsFiniteSet({Total(e)} \cup (ToSet(a.errorTotals) \cup {0}))  BY <2>1, <2>2, FS_Union
  <2>4. IsFiniteSet({SummarizeDiagnostics(a.samples)} \cup ({Total(e)} \cup (ToSet(a.errorTotals) \cup {0})))
    BY <2>1, <2>3, FS_Union
  <2>5. T = {SummarizeDiagnostics(a.samples)} \cup ({Total(e)} \cup (ToSet(a.errorTotals) \cup {0}))
    OBVIOUS
  <2> QED  BY <2>4, <2>5
<1>6. T \subseteq Nat /\ T # {} /\ Total(e) \in T  
  <2> DEFINE d == SummarizeDiagnostics(a.samples)
             o == ToSet(a.errorTotals)
             t == Total(e)
  <2>1. d \in Nat /\ t \in Nat /\ o \subseteq Nat /\ 0 \in Nat  BY <1>1, <1>2, <1>4
  <2> HIDE DEF d, o, t
  <2>2. T = {d, t} \cup o \cup {0}  BY DEF d, o, t
  <2> HIDE DEF T
  <2>3. T \subseteq Nat /\ T # {} /\ t \in T  BY <2>1, <2>2
  <2> QED  BY <2>3 DEF t
<1>7. DiagnosticTotal(a) = Max(T)  BY DEF DiagnosticTotal
<1> HIDE DEF T
<1>8. Max(T) \in T /\ \A y \in T : y <= Max(T)
  <2>1. T \subseteq Int  BY <1>6
  <2> QED  BY <2>1, <1>5, <1>6, MaxIn
<1>9. DiagnosticTotal(a) = 0 => Total(e) = 0  BY <1>2, <1>6, <1>7, <1>8
<1>10. Total(e) = 0 => \A i \in DOMAIN e : e[i] = 0  BY <1>1, TotalNothing
<1> QED  BY <1>6, <1>7, <1>8, <1>9, <1>10

-----------------------------------------------------------------------------
(* What there is to compare                                                *)

\* A comparison is made of all the artifacts there are, and is the last step.
DecisionInv ==
    /\ \A a \in artifacts : WellFormed(a)
    /\ comparison # NoComparison => run = NoRun
    /\ \/ comparison \in {NoComparison, [result |-> "refused"]}
       \/ \E opts \in Options : ~Refused(artifacts, opts) /\ comparison = CompareArtifacts(artifacts, opts)

LEMMA SeqOfItself == ASSUME NEW S, NEW q \in Seq(S) PROVE q \in Seq(ToSet(q)) /\ \A i \in DOMAIN q : q[i] \in S
<1>1. DOMAIN q = 1..Len(q) /\ Len(q) \in Nat /\ \A i \in DOMAIN q : q[i] \in S  OBVIOUS
<1>2. ToSet(q) = {q[i] : i \in DOMAIN q}  BY DEF ToSet
<1>3. \A i \in DOMAIN q : q[i] \in ToSet(q)  BY <1>2
<1> QED  BY <1>1, <1>3

\* What the benchmark writes is well formed.
LEMMA SamplesSummarized ==
    ASSUME NEW S, NEW samples \in Seq(S), \A i \in DOMAIN samples : MeasuredSample(samples[i]),
           NEW m \in Metrics, NEW p \in DOMAIN Percentiles
    PROVE  SummarizeSamples(samples)[m][p] \in Int
<1> DEFINE D == {i \in DOMAIN samples : samples[i][m] # NoValue}
           v == [i \in D |-> samples[i][m]]
<1>1. v \in [D -> Int]  BY DEF MeasuredSample
<1>2. IsFiniteSet(D)
  <2>1. DOMAIN samples = 1..Len(samples) /\ Len(samples) \in Int /\ 1 \in Int  OBVIOUS
  <2>2. IsFiniteSet(DOMAIN samples)  BY <2>1, FS_Interval
  <2> QED  BY <2>2, FS_Subset
<1>3. Percentiles[p] \in {50, 95, 99}  BY DEF Percentiles
<1>4. SummarizeSamples(samples)[m][p] = SummarizePercentile(v, Percentiles[p])  BY DEF SummarizeSamples
<1> HIDE DEF D, v
<1> QED  BY <1>1, <1>2, <1>3, <1>4, PercentileIsValue

LEMMA ArtifactWellFormed ==
    ASSUME NEW t, NEW S, NEW samples \in Seq(S), \A i \in DOMAIN samples : MeasuredSample(samples[i])
    PROVE  WellFormed(Artifact(t, samples))
<1> DEFINE a == Artifact(t, samples)
<1>1. /\ a.samples = samples /\ a.errorTotals = <<SummarizeDiagnostics(samples)>> /\ a.runs = <<Len(samples)>>
      /\ a.summary = [spelled \in Metrics \X {"own"} |-> SummarizeSamples(samples)[spelled[1]]]
  BY DEF Artifact
<1> HIDE DEF a
<1>2. samples \in Seq(ToSet(samples))  BY SeqOfItself
<1>3. \A i \in DOMAIN samples : samples[i].errors \in Nat /\ Len(samples[i].codes) \in Nat  BY DEF MeasuredSample
<1>4. a.errorTotals \in Seq(Nat)
  <2>1. SummarizeDiagnostics(samples) \in Nat  BY <1>2, <1>3, SampleCounts
  <2> QED  BY <1>1, <2>1
<1>5. a.runs \in Seq(Int)
  <2>1. Len(samples) \in Int  OBVIOUS
  <2> QED  BY <1>1, <2>1
<1>6. ASSUME NEW name \in DOMAIN a.summary, NEW p \in DOMAIN Percentiles PROVE a.summary[name][p] \in Int
  <2>1. name[1] \in Metrics /\ a.summary[name] = SummarizeSamples(samples)[name[1]]  BY <1>1
  <2> QED  BY <2>1, SamplesSummarized
<1>7. WellFormed(a)  BY <1>1, <1>2, <1>3, <1>4, <1>5, <1>6 DEF WellFormed
<1> QED  BY <1>7 DEF a

LEMMA UsualRuns == ASSUME NEW n \in Nat \ {0}, NEW u, MeasuredSample(u)
                   PROVE  /\ [k \in 1..n |-> u] \in Seq({u})
                          /\ \A i \in DOMAIN [k \in 1..n |-> u] : MeasuredSample([k \in 1..n |-> u][i])
OBVIOUS

LEMMA FollowedRuns ==
    ASSUME NEW n \in Nat \ {0}, NEW s, NEW u, MeasuredSample(s), MeasuredSample(u)
    PROVE  /\ <<s>> \o [k \in 1..(n - 1) |-> u] \in Seq({s, u})
           /\ \A i \in DOMAIN (<<s>> \o [k \in 1..(n - 1) |-> u]) : MeasuredSample((<<s>> \o [k \in 1..(n - 1) |-> u])[i])
<1> DEFINE w == [k \in 1..(n - 1) |-> u]
           q == <<s>> \o w
<1>1. w \in Seq({s, u}) /\ <<s>> \in Seq({s, u})  OBVIOUS
<1> HIDE DEF w
<1>2. q \in Seq({s, u})  BY <1>1
<1> HIDE DEF q
<1>3. \A i \in DOMAIN q : q[i] \in {s, u}  BY <1>2, SeqOfItself
<1>4. \A i \in DOMAIN q : MeasuredSample(q[i])  BY <1>3
<1> QED  BY <1>2, <1>4 DEF q, w

LEMMA SampleMeasured == ASSUME Honest(run) PROVE MeasuredSample(Sample(run))
<1>1. /\ run.interim \in Int /\ run.final \in Int /\ run.depth \in Int /\ run.delay \in Int
      /\ Len(run.errors) \in Nat
  BY DEF Honest, Record
<1>2. /\ Sample(run).interim = run.interim /\ Sample(run).final = run.final /\ Sample(run).depth = run.depth
      /\ Sample(run).delay = run.delay /\ Sample(run).errors = Len(run.errors) /\ Sample(run).codes = run.errors
  BY DEF Sample
<1> QED  BY <1>1, <1>2 DEF MeasuredSample, Metrics

LEMMA RunIsUnderWay == RunStep => run # NoRun
<1> SUFFICES ASSUME RunStep PROVE run.phase # "none"  BY DEF NoRun
<1> QED
  BY DEF RunStep, Sender, Receiver, StartReturns, StartFails, SenderGoesOn, SendReturns, SendRaises,
         FinalizeReturns, FinalizeRaises, FinalSeen, FinalTimesOut, Joined, CloseReturns, CloseRaises,
         ReceivesNothing, ReceiveRaises, ReceivesError, ReceivesWarning, ReceivesPartial, ReceivesFinal,
         Receiving

LEMMA ComparisonKeeps == RunInv /\ DecisionInv /\ [DecisionNext]_decisionVars => DecisionInv'
<1> SUFFICES ASSUME RunInv, DecisionInv, [DecisionNext]_decisionVars PROVE DecisionInv'  OBVIOUS
<1>0. ASSUME comparison' = comparison, comparison = NoComparison, \A a \in artifacts' : WellFormed(a)
      PROVE  DecisionInv'
  BY <1>0 DEF DecisionInv
<1>1. CASE FollowRun  BY <1>0, <1>1 DEF FollowRun, DecisionInv
<1>2. CASE RunGoesOn
  <2>1. run # NoRun  BY <1>2, RunIsUnderWay DEF RunGoesOn
  <2>2. comparison = NoComparison  BY <2>1 DEF DecisionInv
  <2> QED  BY <1>0, <1>2, <2>2 DEF RunGoesOn, DecisionInv
<1>3. CASE RunsEnd
  <2>1. PICK n \in RunCounts[run.transport], usual \in UsualSamples[run.transport] :
           artifacts' = {Artifact(run.transport, <<Sample(run)>> \o [i \in 1..(n - 1) |-> usual])}
    BY <1>3 DEF RunsEnd
  <2>2. run # NoRun  BY <1>3 DEF RunsEnd, NoRun
  <2>3. comparison = NoComparison /\ Honest(run)  BY <2>2 DEF DecisionInv, RunInv
  <2>4. run.transport \in Transports  BY <2>3, DecisionAssumption DEF Honest, Record
  <2>5. n \in Nat \ {0} /\ MeasuredSample(usual)  BY <2>4, DecisionAssumption
  <2>6. MeasuredSample(Sample(run))  BY <2>3, SampleMeasured
  <2>7. WellFormed(Artifact(run.transport, <<Sample(run)>> \o [i \in 1..(n - 1) |-> usual]))
    BY <2>5, <2>6, FollowedRuns, ArtifactWellFormed
  <2> QED  BY <1>0, <1>3, <2>1, <2>3, <2>7 DEF RunsEnd
<1>4. CASE Benchmark
  <2>1. PICK t \in Transports : \E n \in RunCounts[t], usual \in UsualSamples[t] :
           artifacts' = artifacts \cup {Artifact(t, [i \in 1..n |-> usual])}
    BY <1>4 DEF Benchmark
  <2>2. PICK n \in RunCounts[t], usual \in UsualSamples[t] :
           artifacts' = artifacts \cup {Artifact(t, [i \in 1..n |-> usual])}
    BY <2>1
  <2>3. n \in Nat \ {0} /\ MeasuredSample(usual)  BY DecisionAssumption
  <2>4. WellFormed(Artifact(t, [i \in 1..n |-> usual]))  BY <2>3, UsualRuns, ArtifactWellFormed
  <2> QED  BY <1>0, <1>4, <2>2, <2>4 DEF Benchmark, DecisionInv
<1>5. CASE FromElsewhere
  <2>1. PICK a \in HandWritten : artifacts' = artifacts \cup {a}  BY <1>5 DEF FromElsewhere
  <2>2. WellFormed(a)  BY DecisionAssumption
  <2> QED  BY <1>0, <1>5, <2>1, <2>2 DEF FromElsewhere, DecisionInv
<1>6. CASE Compare  BY <1>6 DEF Compare, DecisionInv
<1>7. CASE UNCHANGED decisionVars  BY <1>7 DEF decisionVars, DecisionInv
<1> QED  BY <1>1, <1>2, <1>3, <1>4, <1>5, <1>6, <1>7 DEF DecisionNext

-----------------------------------------------------------------------------
(* The lists of the decision                                               *)

LEMMA VerdictsAre ==
    /\ DOMAIN Verdicts = 1..5
    /\ ToSet(Verdicts) = {"protocol_errors", "missing_raw_uds_latency_delta", "insufficient_raw_uds_latency_win",
                          "raw_uds_finalization_regression", "raw_uds_queue_regression"}
<1>1. DOMAIN Verdicts = 1..5  BY DEF Verdicts
<1>2. 1..5 = {1, 2, 3, 4, 5}  OBVIOUS
<1>3. ToSet(Verdicts) = {Verdicts[1], Verdicts[2], Verdicts[3], Verdicts[4], Verdicts[5]}  BY <1>1, <1>2 DEF ToSet
<1>4. /\ Verdicts[1] = "protocol_errors" /\ Verdicts[2] = "missing_raw_uds_latency_delta"
      /\ Verdicts[3] = "insufficient_raw_uds_latency_win" /\ Verdicts[4] = "raw_uds_finalization_regression"
      /\ Verdicts[5] = "raw_uds_queue_regression"
  BY DEF Verdicts
<1> QED  BY <1>1, <1>3, <1>4

LEMMA TextsAre ==
    /\ DOMAIN Texts = 1..6
    /\ ToSet(Texts) = {"protocol_errors", "no first interim", "final regresses", "queue regresses",
                       "not enough of a win", "consider raw UDS"}
<1>1. DOMAIN Texts = 1..6  BY DEF Texts
<1>2. 1..6 = {1, 2, 3, 4, 5, 6}  OBVIOUS
<1>3. ToSet(Texts) = {Texts[1], Texts[2], Texts[3], Texts[4], Texts[5], Texts[6]}  BY <1>1, <1>2 DEF ToSet
<1>4. /\ Texts[1] = "protocol_errors" /\ Texts[2] = "no first interim" /\ Texts[3] = "final regresses"
      /\ Texts[4] = "queue regresses" /\ Texts[5] = "not enough of a win" /\ Texts[6] = "consider raw UDS"
  BY DEF Texts
<1> QED  BY <1>1, <1>3, <1>4

LEMMA GapKindsAre ==
    /\ DOMAIN GapKinds = 1..16
    /\ ToSet(GapKinds) = {"missing_transport", "unexpected_transport", "missing_metric", "run_count", "cpu_utilization",
              "target", "frame_contract", "frame_type", "lifecycle", "error_handling", "error_codes",
              "runtime", "plugin_config", "start_payload", "comparison_required_transports", "benchmark_input"}
<1>1. DOMAIN GapKinds = 1..16  BY DEF GapKinds
<1>2. 1..16 = {1, 2, 3, 4, 5, 6, 7, 8, 9, 10, 11, 12, 13, 14, 15, 16}  OBVIOUS
<1>3. ToSet(GapKinds) = {GapKinds[1], GapKinds[2], GapKinds[3], GapKinds[4], GapKinds[5], GapKinds[6], GapKinds[7],
         GapKinds[8], GapKinds[9], GapKinds[10], GapKinds[11], GapKinds[12], GapKinds[13], GapKinds[14],
         GapKinds[15], GapKinds[16]}
  BY <1>1, <1>2 DEF ToSet
<1>4. /\ GapKinds[1] = "missing_transport" /\ GapKinds[2] = "unexpected_transport" /\ GapKinds[3] = "missing_metric"
      /\ GapKinds[4] = "run_count" /\ GapKinds[5] = "cpu_utilization" /\ GapKinds[6] = "target"
      /\ GapKinds[7] = "frame_contract" /\ GapKinds[8] = "frame_type" /\ GapKinds[9] = "lifecycle"
      /\ GapKinds[10] = "error_handling" /\ GapKinds[11] = "error_codes" /\ GapKinds[12] = "runtime"
      /\ GapKinds[13] = "plugin_config" /\ GapKinds[14] = "start_payload"
      /\ GapKinds[15] = "comparison_required_transports" /\ GapKinds[16] = "benchmark_input"
  BY DEF GapKinds
<1> QED  BY <1>1, <1>3, <1>4

LEMMA ListsAreSequences ==
    /\ GapKinds \in Seq(ToSet(GapKinds)) /\ Texts \in Seq(ToSet(Texts))
    /\ Verdicts \in Seq(ToSet(Verdicts))
<1>1. GapKinds \in Seq(
             {"missing_transport", "unexpected_transport", "missing_metric", "run_count", "cpu_utilization",
              "target", "frame_contract", "frame_type", "lifecycle", "error_handling", "error_codes",
              "runtime", "plugin_config", "start_payload", "comparison_required_transports", "benchmark_input"})
  BY DEF GapKinds
<1>2. Texts \in Seq({"protocol_errors", "no first interim", "final regresses", "queue regresses",
                     "not enough of a win", "consider raw UDS"})
  BY DEF Texts
<1>3. Verdicts \in Seq({"protocol_errors", "missing_raw_uds_latency_delta", "insufficient_raw_uds_latency_win",
                        "raw_uds_finalization_regression", "raw_uds_queue_regression"})
  BY DEF Verdicts
<1> QED  BY <1>1, <1>2, <1>3, GapKindsAre, TextsAre, VerdictsAre

LEMMA JoinHas == ASSUME NEW S, NEW q \in Seq(S), NEW r \in Seq(S), NEW e \in ToSet(q) \cup ToSet(r)
                 PROVE  \E i \in DOMAIN (q \o r) : (q \o r)[i] = e
<1>1. DOMAIN (q \o r) = 1..(Len(q) + Len(r))  OBVIOUS
<1>2. CASE e \in ToSet(q)
  <2>1. PICK i \in DOMAIN q : q[i] = e  BY <1>2 DEF ToSet
  <2>2. i \in 1..Len(q) /\ (q \o r)[i] = e /\ i \in 1..(Len(q) + Len(r))  BY <2>1
  <2> QED  BY <1>1, <2>2
<1>3. CASE e \in ToSet(r)
  <2>1. PICK i \in DOMAIN r : r[i] = e  BY <1>3 DEF ToSet
  <2>2. (q \o r)[Len(q) + i] = e /\ Len(q) + i \in 1..(Len(q) + Len(r))  BY <2>1
  <2> QED  BY <1>1, <2>2
<1> QED  BY <1>2, <1>3

LEMMA FirstIsSaid == ASSUME NEW S, NEW q \in Seq(S), NEW r \in Seq(S), NEW said, NEW e \in said, e \in ToSet(q) \cup ToSet(r)
                     PROVE  FirstOf(said, q \o r) \in said
<1> DEFINE I == {i \in DOMAIN (q \o r) : (q \o r)[i] \in said}
<1>1. I # {}
  <2>1. \E i \in DOMAIN (q \o r) : (q \o r)[i] = e  BY JoinHas
  <2> QED  BY <2>1
<1>2. I \subseteq Nat
  <2>1. q \o r \in Seq(S)  OBVIOUS
  <2> QED  BY <2>1
<1>3. FirstOf(said, q \o r) = (q \o r)[Min(I)]  BY DEF FirstOf
<1>4. \A i \in I : (q \o r)[i] \in said  OBVIOUS
<1> HIDE DEF I
<1>5. Min(I) \in I  BY <1>1, <1>2, LeastIn
<1> QED  BY <1>3, <1>4, <1>5

-----------------------------------------------------------------------------
(* What a comparison says                                                  *)

\* What is compared: the payload of the artifact of each transport.
Chosen(given, t) == CHOOSE a \in given : NormalizedTransport(a) = t
By(given) == [t \in {NormalizedTransport(a) : a \in given} |-> Payload(Chosen(given, t))]

LEMMA GapsAre ==
    ASSUME NEW by, NEW opts
    PROVE  /\ Gaps(by, opts).missing_transport = RequiredTransports \ DOMAIN by
           /\ Gaps(by, opts).unexpected_transport = DOMAIN by \ RequiredTransports
           /\ Gaps(by, opts).run_count = RunCountGaps(by, opts.minRuns)
BY DEF Gaps

LEMMA ComparisonIs ==
    ASSUME NEW given, NEW opts, NEW c, c = CompareArtifacts(given, opts)
    PROVE  LET by == By(given)
               gaps == Gaps(by, opts)
               blockers == GateBlockers(by, gaps, opts)
           IN  /\ c.given = given /\ c.opts = opts /\ c.by = by /\ c.gaps = gaps
               /\ c.gate.passed <=> blockers = {}
               /\ c.experimental <=> Experimental(by, gaps, opts)
               /\ c.errorFree <=> AllErrorFree(by)
               /\ c.blocking = BlockingGaps(by, gaps)
               /\ c.recommendation = Recommendation(by, gaps, opts)
               /\ c.next = NextAction(blockers)
               /\ c.summary = ComparisonSummary(by)
<1> DEFINE by == By(given)
           gaps == Gaps(by, opts)
           blockers == GateBlockers(by, gaps, opts)
<1>1. c = [result |-> "compared", by |-> by, gaps |-> gaps, deltas |-> PairwiseDeltas(by),
         summary |-> ComparisonSummary(by), fastest |-> [m \in Metrics |-> Fastest(by, m)],
         gate |-> [passed |-> blockers = {}, blockers |-> blockers],
         experimental |-> Experimental(by, gaps, opts), errorFree |-> AllErrorFree(by),
         blocking |-> BlockingGaps(by, gaps), recommendation |-> Recommendation(by, gaps, opts),
         next |-> NextAction(blockers), given |-> given, opts |-> opts]
  BY DEF CompareArtifacts, By, Chosen
<1> HIDE DEF by, gaps, blockers
<1>2. /\ c.given = given /\ c.opts = opts /\ c.by = by /\ c.gaps = gaps
      /\ c.blocking = BlockingGaps(by, gaps)
      /\ c.recommendation = Recommendation(by, gaps, opts)
      /\ c.next = NextAction(blockers)
      /\ c.summary = ComparisonSummary(by)
  BY <1>1
<1>3. c.gate.passed = (blockers = {})  BY <1>1
<1>4. c.experimental = Experimental(by, gaps, opts) /\ c.errorFree = AllErrorFree(by)  BY <1>1
<1> QED  BY <1>2, <1>3, <1>4 DEF by, gaps, blockers

\* The gate passes when each of the conditions is met.
LEMMA Passes ==
    ASSUME NEW by, NEW gaps, NEW opts
    PROVE  GateBlockers(by, gaps, opts) = {} <=>
             /\ \A kind \in ToSet(GapKinds) : gaps[kind] = {}
             /\ AllErrorFree(by)
             /\ RawVsUds(by).interim # NoDelta /\ ~(RawVsUds(by).interim < opts.minWin)
             /\ ~Regresses(RawVsUds(by), "final") /\ QueueRegressions(RawVsUds(by)) = {}
<1> DEFINE d == RawVsUds(by)
           free == AllErrorFree(by)
           slow == d.interim < opts.minWin
           unknown == d.interim = NoDelta
           final == Regresses(d, "final")
           queues == QueueRegressions(d)
           said == {v \in ToSet(Verdicts) :
            \/ v = "protocol_errors" /\ ~free
            \/ v = "missing_raw_uds_latency_delta" /\ unknown
            \/ v = "insufficient_raw_uds_latency_win" /\ ~unknown /\ slow
            \/ v = "raw_uds_finalization_regression" /\ final
            \/ v = "raw_uds_queue_regression" /\ queues # {}}
<1>1. GateBlockers(by, gaps, opts) = OpenGaps(gaps) \cup said  BY DEF GateBlockers
<1> HIDE DEF d, free, slow, unknown, final, queues
<1>2. said = {} <=> free /\ ~unknown /\ ~slow /\ ~final /\ queues = {}  BY VerdictsAre
<1> HIDE DEF said
<1>3. OpenGaps(gaps) = {} <=> \A kind \in ToSet(GapKinds) : gaps[kind] = {}  BY DEF OpenGaps
<1>4. GateBlockers(by, gaps, opts) = {} <=> OpenGaps(gaps) = {} /\ said = {}  BY <1>1
<1> QED  BY <1>2, <1>3, <1>4 DEF d, free, slow, unknown, final, queues

LEMMA FlagFollowsGate ==
    ASSUME NEW by, NEW gaps, NEW opts
    PROVE  GateBlockers(by, gaps, opts) = {} <=> ~Experimental(by, gaps, opts)
BY Passes DEF Experimental

LEMMA NextFollowsGate ==
    ASSUME NEW by, NEW gaps, NEW opts
    PROVE  GateBlockers(by, gaps, opts) = {} <=> NextAction(GateBlockers(by, gaps, opts)) = "proceed"
<1> DEFINE b == GateBlockers(by, gaps, opts)
<1>1. b \subseteq ToSet(GapKinds) \cup ToSet(Verdicts)  BY DEF GateBlockers, OpenGaps
<1> HIDE DEF b
<1>2. ASSUME b # {} PROVE NextAction(b) \in b
  <2>1. PICK e \in b : e \in ToSet(GapKinds) \cup ToSet(Verdicts)  BY <1>1, <1>2
  <2>2. /\ GapKinds \in Seq(ToSet(GapKinds) \cup ToSet(Verdicts))
        /\ Verdicts \in Seq(ToSet(GapKinds) \cup ToSet(Verdicts))
    BY ListsAreSequences
  <2>3. FirstOf(b, GapKinds \o Verdicts) \in b  BY <2>1, <2>2, FirstIsSaid
  <2> QED  BY <1>2, <2>3 DEF NextAction
<1>3. "proceed" \notin ToSet(GapKinds) \cup ToSet(Verdicts)  BY GapKindsAre, VerdictsAre
<1>4. b = {} => NextAction(b) = "proceed"  BY DEF NextAction
<1> QED  BY <1>1, <1>2, <1>3, <1>4 DEF b

LEMMA TextFollowsGate ==
    ASSUME NEW by, NEW gaps, NEW opts
    PROVE  GateBlockers(by, gaps, opts) = {} <=> Recommendation(by, gaps, opts) = "consider raw UDS"
<1> DEFINE d == RawVsUds(by)
           exp == Experimental(by, gaps, opts)
           free == AllErrorFree(by)
           unknown == d.interim = NoDelta
           final == Regresses(d, "final")
           queues == QueueRegressions(d)
           said == OpenGaps(gaps) \cup {text \in ToSet(Texts) :
            \/ text = "protocol_errors" /\ ~free
            \/ text = "no first interim" /\ unknown
            \/ text = "final regresses" /\ final
            \/ text = "queue regresses" /\ queues # {}
            \/ text = "not enough of a win" /\ exp
            \/ text = "consider raw UDS" /\ ~exp}
<1>1. Recommendation(by, gaps, opts) = FirstOf(said, GapKinds \o Texts)  BY DEF Recommendation
<1>2. GateBlockers(by, gaps, opts) = {} <=> ~exp  BY FlagFollowsGate
<1>3. ~exp => free /\ ~unknown /\ ~final /\ queues = {} /\ OpenGaps(gaps) = {}
  BY <1>2, Passes DEF OpenGaps
<1> HIDE DEF d, exp, free, unknown, final, queues
<1>4. "consider raw UDS" \notin OpenGaps(gaps)  BY GapKindsAre DEF OpenGaps
<1>5. exp => "not enough of a win" \in said /\ "consider raw UDS" \notin said  BY <1>4, TextsAre
<1>6. ~exp => said = {"consider raw UDS"}  BY <1>3, TextsAre
<1>7. \E e \in said : e \in ToSet(Texts)  BY <1>5, <1>6, TextsAre
<1> HIDE DEF said
<1>8. FirstOf(said, GapKinds \o Texts) \in said
  <2>1. PICK e \in said : e \in ToSet(GapKinds) \cup ToSet(Texts)  BY <1>7
  <2>2. /\ GapKinds \in Seq(ToSet(GapKinds) \cup ToSet(Texts)) /\ Texts \in Seq(ToSet(GapKinds) \cup ToSet(Texts))
    BY ListsAreSequences
  <2> QED  BY <2>1, <2>2, FirstIsSaid
<1> QED  BY <1>1, <1>2, <1>5, <1>6, <1>8

\* The exit codes follow from the gaps and the flag.
LEMMA ExitFollowsGate ==
    ASSUME NEW c, NEW by, NEW gaps, NEW opts, c.gaps = gaps, c.errorFree <=> AllErrorFree(by),
           c.experimental <=> Experimental(by, gaps, opts)
    PROVE  /\ GateBlockers(by, gaps, opts) = {} <=> Exit(c, TRUE) = 0
           /\ BlockingGaps(by, gaps) = {} <=> Exit(c, FALSE) = 0
<1>1. ASSUME NEW require PROVE Exit(c, require) = 0 <=> ~HasBlockingGaps(c, require)
  <2>1. CASE HasBlockingGaps(c, require)
    <3>1. Exit(c, require) = 1  BY <2>1, Zenon DEF Exit
    <3> QED  BY <2>1, <3>1
  <2>2. CASE ~HasBlockingGaps(c, require)
    <3>1. Exit(c, require) = 0  BY <2>2, Zenon DEF Exit
    <3> QED  BY <2>2, <3>1
  <2> QED  BY <2>1, <2>2
<1> DEFINE closed == \A kind \in ToSet(GapKinds) : gaps[kind] = {}
<1>3. ~HasBlockingGaps(c, FALSE) <=> closed /\ AllErrorFree(by)  BY DEF HasBlockingGaps
<1>4. ~HasBlockingGaps(c, TRUE) <=> closed /\ AllErrorFree(by) /\ ~Experimental(by, gaps, opts)
  BY DEF HasBlockingGaps
<1>5. ~Experimental(by, gaps, opts) => closed /\ AllErrorFree(by)  BY FlagFollowsGate, Passes
<1>6. BlockingGaps(by, gaps) = {} <=> closed /\ AllErrorFree(by)
  <2> DEFINE open == UNION {{<<kind, gap>> : gap \in gaps[kind]} : kind \in ToSet(GapKinds)}
             bad == {<<"protocol_errors", t>> : t \in {t \in DOMAIN by : ~by[t].errorFree}}
  <2>1. open = {} <=> closed
    <3>1. ASSUME closed PROVE UNION {{<<kind, gap>> : gap \in gaps[kind]} : kind \in ToSet(GapKinds)} = {}
      BY <3>1
    <3>2. ASSUME NEW kind \in ToSet(GapKinds), NEW gap \in gaps[kind]
          PROVE  <<kind, gap>> \in UNION {{<<k, g>> : g \in gaps[k]} : k \in ToSet(GapKinds)}
      BY <3>2
    <3> QED  BY <3>1, <3>2
  <2>2. bad = {} <=> AllErrorFree(by)
    BY DEF AllErrorFree
  <2>3. BlockingGaps(by, gaps) = open \cup bad  BY DEF BlockingGaps
  <2> HIDE DEF open, bad, closed
  <2> QED  BY <2>1, <2>2, <2>3
<1> QED  BY <1>1, <1>3, <1>4, <1>5, <1>6, FlagFollowsGate

-----------------------------------------------------------------------------
(* What a comparison rests on                                              *)

\* Rounding to a tenth moves a value by half a tenth at most, and no value to the
\* other side of nothing.
LEMMA TenthsIs ==
    ASSUME NEW v \in Int
    PROVE  /\ Tenths(v) \in Int /\ Tenths(v) <= v + 5 /\ v - 5 <= Tenths(v)
           /\ v <= 0 => Tenths(v) <= 0
<1>1. ASSUME NEW a \in Nat
      PROVE  /\ RoundedQuotient(a, 10) \in Nat
             /\ 10 * RoundedQuotient(a, 10) <= a + 5 /\ a - 5 <= 10 * RoundedQuotient(a, 10)
  <2> DEFINE q == a \div 10
             r == a % 10
             up == 2 * r > 10 \/ (2 * r = 10 /\ q % 2 = 1)
  <2>1. q \in Nat /\ r \in 0..9 /\ a = 10 * q + r  OBVIOUS
  <2>2. RoundedQuotient(a, 10) = IF up THEN q + 1 ELSE q  BY DEF RoundedQuotient
  <2>3. (up => 2 * r >= 10) /\ (~up => ~(2 * r > 10))  BY <2>1
  <2> HIDE DEF q, r, up
  <2>4. CASE up
    <3>1. RoundedQuotient(a, 10) = q + 1 /\ 2 * r >= 10  BY <2>2, <2>3, <2>4
    <3> QED  BY <2>1, <3>1
  <2>5. CASE ~up
    <3>1. RoundedQuotient(a, 10) = q /\ ~(2 * r > 10)  BY <2>2, <2>3, <2>5
    <3> QED  BY <2>1, <3>1
  <2> QED  BY <2>4, <2>5
<1>2. CASE v >= 0
  <2>1. v \in Nat  BY <1>2
  <2>2. Tenths(v) = 10 * RoundedQuotient(v, 10)  BY <1>2 DEF Tenths
  <2> QED  BY <1>1, <1>2, <2>1, <2>2
<1>3. CASE ~(v >= 0)
  <2>1. -v \in Nat  BY <1>3
  <2>2. Tenths(v) = -10 * RoundedQuotient(-v, 10)  BY <1>3 DEF Tenths
  <2> DEFINE x == RoundedQuotient(-v, 10)
  <2>3. x \in Nat /\ 10 * x <= -v + 5 /\ -v - 5 <= 10 * x  BY <1>1, <2>1
  <2>4. Tenths(v) = -(10 * x)
    <3> HIDE DEF x
    <3>1. -10 * x = -(10 * x)  BY <2>3
    <3> QED  BY <2>2, <3>1 DEF x
  <2> HIDE DEF x
  <2> QED  BY <1>3, <2>3, <2>4
<1> QED  BY <1>2, <1>3

\* The artifact of a transport is among those compared, and the only one.
LEMMA OfIs ==
    ASSUME NEW given, NEW opts, ~Refused(given, opts), NEW a \in given
    PROVE  /\ Chosen(given, NormalizedTransport(a)) = a
           /\ NormalizedTransport(a) \in DOMAIN By(given)
           /\ By(given)[NormalizedTransport(a)] = Payload(a)
<1> DEFINE t == NormalizedTransport(a)
<1>1. \A b \in given : NormalizedTransport(b) = t => b = a  BY DEF Refused
<1>2. Chosen(given, t) = a  BY <1>1 DEF Chosen
<1>3. t \in {NormalizedTransport(b) : b \in given}  OBVIOUS
<1>4. t \in DOMAIN By(given) /\ By(given)[t] = Payload(Chosen(given, t))
  <2> HIDE DEF t
  <2> QED  BY <1>3 DEF By
<1> QED  BY <1>2, <1>4

LEMMA TransportOf ==
    ASSUME NEW given, NEW opts, ~Refused(given, opts), NEW t \in DOMAIN By(given)
    PROVE  \E a \in given : NormalizedTransport(a) = t /\ By(given)[t] = Payload(a)
<1>1. DOMAIN By(given) = {NormalizedTransport(b) : b \in given}  BY DEF By
<1>2. PICK a \in given : NormalizedTransport(a) = t  BY <1>1
<1> QED  BY <1>2, OfIs

\* What is read of an artifact.
LEMMA PayloadIs ==
    ASSUME NEW a
    PROVE  /\ Payload(a).errorFree => DiagnosticTotal(a) = 0
           /\ Payload(a).runs = RunCount(a)
           /\ \A m \in {"interim", "final", "depth", "delay"} :
                Payload(a).metrics[m]["p95"] = Percentile(a.summary, m, "p95")
<1> DEFINE total == DiagnosticTotal(a)
           read == [m \in Metrics |-> [p \in DOMAIN Percentiles |-> Percentile(a.summary, m, p)]]
           metrics == WithDiagnosticErrors(read, total)
<1>1. /\ Payload(a).errorFree = ProtocolErrorFree(metrics, total)
      /\ Payload(a).runs = RunCount(a) /\ Payload(a).metrics = metrics
  BY DEF Payload
<1>2. ProtocolErrorFree(metrics, total) => total = 0  BY DEF ProtocolErrorFree
<1>3. ASSUME NEW m \in {"interim", "final", "depth", "delay"} PROVE metrics[m] = read[m]
  <2>1. m \in Metrics /\ m # "errors" /\ DOMAIN read = Metrics  BY DEF Metrics
  <2> HIDE DEF read, total
  <2> QED  BY <2>1 DEF WithDiagnosticErrors
<1>4. ASSUME NEW m \in {"interim", "final", "depth", "delay"} PROVE read[m]["p95"] = Percentile(a.summary, m, "p95")
  <2>1. m \in Metrics /\ "p95" \in DOMAIN Percentiles  BY DEF Metrics, Percentiles
  <2> QED  BY <2>1
<1> HIDE DEF total, read, metrics
<1> QED  BY <1>1, <1>2, <1>3, <1>4 DEF total

LEMMA DeltaIsNumber ==
    ASSUME NEW given, NEW opts, ~Refused(given, opts), \A a \in given : WellFormed(a),
           NEW m \in {"interim", "final", "depth", "delay"}
    PROVE  Delta(By(given), "uds_ws", "raw_uds", m) \in Int
<1> DEFINE by == By(given)
<1>1. ASSUME NEW t PROVE P95(by, t, m) \in Int
  <2>1. CASE t \in DOMAIN by
    <3>1. PICK a \in given : by[t] = Payload(a)  BY <2>1, TransportOf
    <3>2. m \in Metrics /\ "p95" \in DOMAIN Percentiles  BY DEF Metrics, Percentiles
    <3>3. Percentile(a.summary, m, "p95") \in Int  BY <3>2, PercentileRead
    <3>4. by[t].metrics[m]["p95"] = Percentile(a.summary, m, "p95")  BY <3>1, PayloadIs
    <3> QED  BY <2>1, <3>3, <3>4 DEF P95
  <2>2. CASE t \notin DOMAIN by  BY <2>2 DEF P95, NoValue
  <2> QED  BY <2>1, <2>2
<1> HIDE DEF by
<1>2. P95(by, "uds_ws", m) \in Int /\ P95(by, "raw_uds", m) \in Int  BY <1>1
<1> QED  BY <1>2 DEF Delta, NoDelta, by

\* The exact difference in the first interim is a win when the gate passes.
LEMMA WinIsReal ==
    ASSUME NEW given, NEW opts \in Options, ~Refused(given, opts), \A a \in given : WellFormed(a),
           GateBlockers(By(given), Gaps(By(given), opts), opts) = {}
    PROVE  /\ ComparisonSummary(By(given))["uds_ws"]["interim"] = "improved"
           /\ Delta(By(given), "uds_ws", "raw_uds", "interim") >= opts.minWin - 5
<1> DEFINE by == By(given)
           delta == Delta(by, "uds_ws", "raw_uds", "interim")
<1>1. RawVsUds(by).interim # NoDelta /\ ~(RawVsUds(by).interim < opts.minWin)  BY Passes
<1>2. opts.minWin \in Int /\ opts.minWin > 0
  <2>1. opts.minWin \in Int  BY DecisionAssumption
  <2>2. ~(opts.minWin <= 0)  BY DEF Refused
  <2> QED  BY <2>1, <2>2
<1>3. RawVsUds(by).interim = IF delta = NoDelta THEN NoDelta ELSE Tenths(delta)
  BY DEF RawVsUds, MetricDelta, Metrics
<1>4. delta \in Int  BY DeltaIsNumber
<1>5. /\ ComparisonSummary(by)["uds_ws"]["interim"] = Classify(delta)
  BY DEF ComparisonSummary, Metrics
<1> HIDE DEF delta
<1>6. delta # NoDelta /\ Tenths(delta) >= opts.minWin
  <2>1. delta # NoDelta  BY <1>1, <1>3
  <2>2. ~(Tenths(delta) < opts.minWin) /\ Tenths(delta) \in Int  BY <1>1, <1>3, <1>4, <2>1, TenthsIs
  <2> QED  BY <1>2, <2>1, <2>2
<1>7. delta > 0 /\ delta >= opts.minWin - 5
  <2>1. /\ Tenths(delta) \in Int /\ Tenths(delta) <= delta + 5
        /\ delta <= 0 => Tenths(delta) <= 0
    BY <1>4, TenthsIs
  <2> QED  BY <1>2, <1>4, <1>6, <2>1
<1>8. Classify(delta) = "improved"  BY <1>6, <1>7 DEF Classify
<1> QED  BY <1>5, <1>7, <1>8 DEF delta

\* And nothing else is slower by more than the rounding.
LEMMA NothingSlower ==
    ASSUME NEW given, NEW opts \in Options, ~Refused(given, opts), \A a \in given : WellFormed(a),
           GateBlockers(By(given), Gaps(By(given), opts), opts) = {}, NEW m \in {"final", "depth", "delay"}
    PROVE  Delta(By(given), "uds_ws", "raw_uds", m) >= -5
<1> DEFINE by == By(given)
           deltas == RawVsUds(by)
           delta == Delta(by, "uds_ws", "raw_uds", m)
<1>1. ~Regresses(deltas, "final") /\ QueueRegressions(deltas) = {}  BY Passes
<1>2. deltas[m] = IF delta = NoDelta THEN NoDelta ELSE Tenths(delta)
  BY DEF RawVsUds, MetricDelta, Metrics
<1>3. delta \in Int  BY DeltaIsNumber
<1> HIDE DEF deltas, delta
<1>4. deltas[m] = NoDelta \/ ~(deltas[m] < 0)  BY <1>1 DEF Regresses, QueueRegressions
<1>5. Tenths(delta) \in Int /\ Tenths(delta) <= delta + 5  BY <1>3, TenthsIs
<1>6. CASE delta = NoDelta  BY <1>6 DEF NoDelta, delta
<1>7. CASE delta # NoDelta
  <2>1. deltas[m] = Tenths(delta)  BY <1>2, <1>7
  <2>2. Tenths(delta) >= 0  BY <1>4, <1>5, <2>1 DEF NoDelta
  <2>3. delta >= -5  BY <1>3, <1>5, <2>2
  <2> QED  BY <2>3 DEF delta
<1> QED  BY <1>6, <1>7

\* All transports are there, without errors and in as many runs as were asked for.
LEMMA AllMeasured ==
    ASSUME NEW given, NEW opts \in Options, ~Refused(given, opts), \A a \in given : WellFormed(a),
           GateBlockers(By(given), Gaps(By(given), opts), opts) = {}
    PROVE  /\ {NormalizedTransport(a) : a \in given} = Transports
           /\ \A a \in given : \A i \in DOMAIN a.samples : a.samples[i].errors = 0
           /\ opts.minRuns # NoValue => \A a \in given : RunCount(a) >= opts.minRuns
<1> DEFINE by == By(given)
           gaps == Gaps(by, opts)
<1>1. (\A kind \in ToSet(GapKinds) : gaps[kind] = {}) /\ AllErrorFree(by)  BY Passes
<1>2. /\ gaps["missing_transport"] = RequiredTransports \ DOMAIN by
      /\ gaps["unexpected_transport"] = DOMAIN by \ RequiredTransports
      /\ gaps["run_count"] = RunCountGaps(by, opts.minRuns)
  BY GapsAre
<1>3. {"missing_transport", "unexpected_transport", "run_count"} \subseteq ToSet(GapKinds)  BY GapKindsAre
<1> HIDE DEF by, gaps
<1>4. /\ RequiredTransports \ DOMAIN by = {} /\ DOMAIN by \ RequiredTransports = {}
      /\ RunCountGaps(by, opts.minRuns) = {}
  BY <1>1, <1>2, <1>3
<1>5. {NormalizedTransport(a) : a \in given} = Transports
  <2>1. DOMAIN by = {NormalizedTransport(a) : a \in given}  BY DEF by, By
  <2> QED  BY <1>4, <2>1 DEF RequiredTransports
<1>6. ASSUME NEW a \in given
      PROVE  /\ \A i \in DOMAIN a.samples : a.samples[i].errors = 0
             /\ opts.minRuns # NoValue => RunCount(a) >= opts.minRuns
  <2> DEFINE t == NormalizedTransport(a)
  <2>1. t \in DOMAIN by /\ by[t] = Payload(a)  BY OfIs DEF by
  <2> HIDE DEF t
  <2>2. DiagnosticTotal(a) = 0  BY <1>1, <2>1, PayloadIs DEF AllErrorFree
  <2>3. \A i \in DOMAIN a.samples : a.samples[i].errors = 0  BY <2>2, TotalRead
  <2>4. ASSUME opts.minRuns # NoValue PROVE RunCount(a) >= opts.minRuns
    <3>1. ~(by[t].runs < opts.minRuns)  BY <1>4, <2>1, <2>4 DEF RunCountGaps
    <3>2. by[t].runs = RunCount(a)  BY <2>1, PayloadIs
    <3>3. RunCount(a) \in Int /\ opts.minRuns \in Int  BY RunCountRead, DecisionAssumption
    <3> QED  BY <3>1, <3>2, <3>3
  <2> QED  BY <2>3, <2>4
<1> QED  BY <1>5, <1>6

LEMMA ComparedIs ==
    ASSUME DecisionInv, Compared
    PROVE  \E opts \in Options : /\ ~Refused(artifacts, opts) /\ \A a \in artifacts : WellFormed(a)
                                 /\ comparison = CompareArtifacts(artifacts, opts)
<1>1. comparison \notin {NoComparison, [result |-> "refused"]}  BY DEF Compared, NoComparison
<1> QED  BY <1>1 DEF DecisionInv

LEMMA InvDecides == DecisionInv => OneDecision
<1> SUFFICES ASSUME DecisionInv, Compared PROVE OneDecision  BY DEF OneDecision
<1> DEFINE c == comparison
<1>1. PICK opts \in Options : /\ ~Refused(artifacts, opts) /\ \A a \in artifacts : WellFormed(a)
                              /\ c = CompareArtifacts(artifacts, opts)
  BY ComparedIs
<1> DEFINE by == By(artifacts)
           gaps == Gaps(by, opts)
           blockers == GateBlockers(by, gaps, opts)
<1>2. c.gaps = gaps /\ (c.gate.passed <=> blockers = {})
  BY <1>1, ComparisonIs
<1>3. /\ c.experimental <=> Experimental(by, gaps, opts)
      /\ c.errorFree <=> AllErrorFree(by)
      /\ c.blocking = BlockingGaps(by, gaps) /\ c.recommendation = Recommendation(by, gaps, opts)
      /\ c.next = NextAction(blockers) /\ c.summary = ComparisonSummary(by)
  BY <1>1, ComparisonIs
<1>4. blockers = {} => ComparisonSummary(by)["uds_ws"]["interim"] = "improved"  BY <1>1, WinIsReal
<1>5. /\ blockers = {} <=> ~Experimental(by, gaps, opts)
      /\ blockers = {} <=> NextAction(blockers) = "proceed"
      /\ blockers = {} <=> Recommendation(by, gaps, opts) = "consider raw UDS"
  BY FlagFollowsGate, NextFollowsGate, TextFollowsGate
<1>6. /\ blockers = {} <=> Exit(c, TRUE) = 0
      /\ BlockingGaps(by, gaps) = {} <=> Exit(c, FALSE) = 0
  <2> HIDE DEF c, by, gaps
  <2> QED  BY <1>2, <1>3, ExitFollowsGate
<1> HIDE DEF by, gaps, blockers
<1> QED  BY <1>2, <1>3, <1>4, <1>5, <1>6 DEF OneDecision

LEMMA InvEarns == DecisionInv => RecommendationEarned
<1> SUFFICES ASSUME DecisionInv, Compared, comparison.gate.passed PROVE RecommendationEarned
  BY DEF RecommendationEarned
<1>1. PICK opts \in Options : /\ ~Refused(artifacts, opts) /\ \A a \in artifacts : WellFormed(a)
                              /\ comparison = CompareArtifacts(artifacts, opts)
  BY ComparedIs
<1>2. /\ comparison.given = artifacts /\ comparison.opts = opts /\ comparison.by = By(artifacts)
      /\ GateBlockers(By(artifacts), Gaps(By(artifacts), opts), opts) = {}
  BY <1>1, ComparisonIs
<1>3. /\ {NormalizedTransport(a) : a \in artifacts} = Transports
      /\ \A a \in artifacts : \A i \in DOMAIN a.samples : a.samples[i].errors = 0
      /\ opts.minRuns # NoValue => \A a \in artifacts : RunCount(a) >= opts.minRuns
  BY <1>1, <1>2, AllMeasured
<1>4. Delta(By(artifacts), "uds_ws", "raw_uds", "interim") >= opts.minWin - 5  BY <1>1, <1>2, WinIsReal
<1>5. \A m \in {"final", "depth", "delay"} : Delta(By(artifacts), "uds_ws", "raw_uds", m) >= -5
  BY <1>1, <1>2, NothingSlower
<1> QED  BY <1>2, <1>3, <1>4, <1>5 DEF RecommendationEarned

\* Whatever artifacts there are and whatever is asked for: the gate, the flag, the
\* text, the next step and the exit codes of a comparison say the same, and what
\* is recommended was faster (compare_local_stt_transports.py).
THEOREM ComparisonsDecideOnce == DecisionSpec => []OneDecision
<1>1. DecisionInit => RunInv /\ DecisionInv  BY DEF DecisionInit, RunInit, RunInv, DecisionInv
<1> QED  BY <1>1, DecisionKeeps, ComparisonKeeps, InvDecides, PTL DEF DecisionSpec

\* Raw UDS is only recommended on artifacts of all three transports, in as many
\* runs as were asked for, without an error in any of them, with the win that was
\* asked for and nothing slower, up to the rounding (compare_local_stt_transports.py).
THEOREM RecommendationsEarned == DecisionSpec => []RecommendationEarned
<1>1. DecisionInit => RunInv /\ DecisionInv  BY DEF DecisionInit, RunInit, RunInv, DecisionInv
<1> QED  BY <1>1, DecisionKeeps, ComparisonKeeps, InvEarns, PTL DEF DecisionSpec

=============================================================================
