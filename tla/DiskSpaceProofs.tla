-------------------------- MODULE DiskSpaceProofs ---------------------------
(* Theorems of DiskSpace, for every set of files, their sizes, the limits    *)
(* and the bounds.                                                           *)
EXTENDS DiskSpace, FiniteSetTheorems, TLAPS

-----------------------------------------------------------------------------
(* Space: a sum is the number of the units that are counted.                 *)

LEMMA UnitsFinite ==
  ASSUME NEW S, IsFiniteSet(S), NEW g, \A x \in S : g[x] \in Nat
  PROVE  IsFiniteSet(Units(g, S)) /\ Sum(g, S) \in Nat
<1>. DEFINE One(x) == {x} \X (1 .. g[x])
            f == [x \in S |-> One(x)]
            All == {One(x) : x \in S}
<1>1. IsFiniteSet(All)
  <2>1. f \in Surjection(S, All)
    BY DEF Surjection
  <2>. QED
    BY <2>1, FS_Surjection
<1>2. ASSUME NEW x \in S
      PROVE  IsFiniteSet(One(x))
  <2>1. IsFiniteSet({x})
    BY FS_Singleton
  <2>2. IsFiniteSet(1 .. g[x])
    BY FS_Interval
  <2>. QED
    BY <2>1, <2>2, FS_Product
<1>3. IsFiniteSet(UNION All)
  BY <1>1, <1>2, FS_UNION
<1>4. UNION All = Units(g, S)
  BY DEF Units
<1>. QED
  BY <1>3, <1>4, FS_CardinalityType DEF Sum

(* More files, and more of each, take at least as much; those that take      *)
(* nothing do not count.                                                     *)
LEMMA SumMonotone ==
  ASSUME NEW R, IsFiniteSet(R), NEW S, NEW g, NEW h,
         \A x \in S : g[x] \in Nat, \A x \in R : h[x] \in Nat,
         \A x \in S : g[x] # 0 => x \in R /\ g[x] <= h[x]
  PROVE  Sum(g, S) <= Sum(h, R)
<1>1. IsFiniteSet(Units(h, R))
  BY UnitsFinite
<1>2. ASSUME NEW u \in Units(g, S)
      PROVE  u \in Units(h, R)
  <2>1. PICK x \in S : u \in {x} \X (1 .. g[x])
    BY DEF Units
  <2>2. u \in {x} \X (1 .. h[x])
    <3>1. g[x] # 0
      BY <2>1
    <3>2. 1 .. g[x] \subseteq 1 .. h[x]
      BY <3>1
    <3>. QED
      BY <2>1, <3>2
  <2>3. x \in R
    BY <2>1
  <2>. QED
    BY <2>2, <2>3 DEF Units
<1>. QED
  BY <1>1, <1>2, FS_Subset DEF Sum

(* What two sets of files take is at most what each takes, and exactly that  *)
(* when they have no file in common.                                         *)
LEMMA SumUnion ==
  ASSUME NEW S, NEW R, IsFiniteSet(S), IsFiniteSet(R),
         NEW g, \A x \in S \cup R : g[x] \in Nat
  PROVE  /\ Sum(g, S \cup R) <= Sum(g, S) + Sum(g, R)
         /\ S \cap R = {} => Sum(g, S \cup R) = Sum(g, S) + Sum(g, R)
<1>1. /\ IsFiniteSet(Units(g, S)) /\ Cardinality(Units(g, S)) \in Nat
      /\ IsFiniteSet(Units(g, R)) /\ Cardinality(Units(g, R)) \in Nat
  BY UnitsFinite DEF Sum
<1>2. Units(g, S \cup R) = Units(g, S) \cup Units(g, R)
  BY DEF Units
<1>3. S \cap R = {} => Units(g, S) \cap Units(g, R) = {}
  <2>. SUFFICES ASSUME NEW u \in Units(g, S), u \in Units(g, R)
                PROVE  \E x : x \in S /\ x \in R
    OBVIOUS
  <2>1. PICK x \in S : u \in {x} \X (1 .. g[x])
    BY DEF Units
  <2>2. PICK y \in R : u \in {y} \X (1 .. g[y])
    BY DEF Units
  <2>. QED
    BY <2>1, <2>2
<1>4. Cardinality(Units(g, S) \cap Units(g, R)) \in Nat
  BY <1>1, FS_Intersection, FS_CardinalityType
<1>5. Cardinality(Units(g, S \cup R)) =
        Cardinality(Units(g, S)) + Cardinality(Units(g, R))
          - Cardinality(Units(g, S) \cap Units(g, R))
  BY <1>1, <1>2, FS_Union
<1>6. S \cap R = {} => Cardinality(Units(g, S) \cap Units(g, R)) = 0
  BY <1>3, FS_EmptySet
<1>7. /\ Sum(g, S \cup R) = Cardinality(Units(g, S \cup R))
      /\ Sum(g, S) = Cardinality(Units(g, S))
      /\ Sum(g, R) = Cardinality(Units(g, R))
  BY DEF Sum
<1>8. Cardinality(Units(g, S \cup R)) \in Nat
  BY <1>1, <1>2, FS_Union, FS_CardinalityType
<1>9. Cardinality(Units(g, S \cup R)) <= Cardinality(Units(g, S)) + Cardinality(Units(g, R))
  BY ONLY <1>1, <1>4, <1>5, <1>8
<1>10. S \cap R = {} =>
         Cardinality(Units(g, S \cup R)) = Cardinality(Units(g, S)) + Cardinality(Units(g, R))
  BY ONLY <1>1, <1>5, <1>6, <1>8
<1>. QED
  BY <1>7, <1>9, <1>10, Zenon

LEMMA SumOne ==
  ASSUME NEW x, NEW g, g[x] \in Nat
  PROVE  Sum(g, {x}) = g[x]
<1>1. Units(g, {x}) = {x} \X (1 .. g[x])
  BY DEF Units
<1>2. IsFiniteSet({x}) /\ Cardinality({x}) = 1
  BY FS_Singleton
<1>3. IsFiniteSet(1 .. g[x]) /\ Cardinality(1 .. g[x]) = g[x]
  BY FS_Interval
<1>4. Cardinality({x} \X (1 .. g[x])) = Cardinality({x}) * Cardinality(1 .. g[x])
  BY <1>2, <1>3, FS_Product
<1>5. 1 * g[x] = g[x]
  OBVIOUS
<1>6. Sum(g, {x}) = Cardinality(Units(g, {x}))
  BY DEF Sum
<1>. QED
  BY <1>1, <1>2, <1>3, <1>4, <1>5, <1>6, Zenon

-----------------------------------------------------------------------------
(* Orders of a finite set: each element is there, and once.                  *)

LEMMA OrderOfSet ==
  ASSUME NEW S, IsFiniteSet(S), NEW p \in SetToSeqs(S)
  PROVE  p \in Seq(S) /\ IsInjective(p) /\ ToSet(p) = S
<1>. DEFINE D == 1 .. Cardinality(S)
<1>1. Cardinality(S) \in Nat
  BY FS_CardinalityType
<1>2. p \in [D -> S] /\ \A i, j \in D : i # j => p[i] # p[j]
  BY DEF SetToSeqs
<1>3. p \in Seq(S)
  BY <1>1, <1>2
<1>4. p \in Injection(D, S)
  BY <1>2 DEF Injection, IsInjective
<1>5. IsFiniteSet(D) /\ Cardinality(D) = Cardinality(S)
  BY <1>1, FS_Interval
<1>6. p \in Surjection(D, S)
  BY <1>4, <1>5, FS_Injection
<1>. QED
  BY <1>2, <1>3, <1>6 DEF IsInjective, Surjection, ToSet

LEMMA KeptOfSequence ==
  ASSUME NEW T, NEW s \in Seq(T), IsFiniteSet(T), NEW S, NEW p \in Kept(s, S)
  PROVE  p \in Seq(T) /\ IsInjective(p) /\ ToSet(p) = ToSet(s) \cap S
<1>1. ToSet(s) \cap S \in SUBSET T
  BY DEF ToSet
<1>2. IsFiniteSet(ToSet(s) \cap S)
  BY <1>1, FS_Subset
<1>3. p \in SetToSeqs(ToSet(s) \cap S)
  BY DEF Kept
<1>4. p \in Seq(ToSet(s) \cap S) /\ IsInjective(p) /\ ToSet(p) = ToSet(s) \cap S
  BY <1>2, <1>3, OrderOfSet
<1>. QED
  BY <1>1, <1>4

(* A download puts its file at the end of the entries in use.                *)
LEMMA AppendOnce ==
  ASSUME NEW T, NEW p \in Seq(T), IsInjective(p), NEW x \in T, x \notin ToSet(p)
  PROVE  /\ Append(p, x) \in Seq(T) /\ IsInjective(Append(p, x))
         /\ ToSet(Append(p, x)) = ToSet(p) \cup {x}
<1>. DEFINE q == Append(p, x)
<1>1. /\ q \in Seq(T) /\ Len(q) = Len(p) + 1 /\ Len(p) \in Nat
      /\ \A i \in 1 .. Len(p) : q[i] = p[i]
      /\ q[Len(p) + 1] = x
  OBVIOUS
<1>2. DOMAIN p = 1 .. Len(p) /\ DOMAIN q = 1 .. Len(p) + 1
  BY <1>1
<1>3. DOMAIN q = DOMAIN p \cup {Len(p) + 1}
  BY <1>1, <1>2
<1>. HIDE DEF q
<1>4. ToSet(q) = ToSet(p) \cup {x}
  BY <1>1, <1>2, <1>3 DEF ToSet
<1>5. IsInjective(q)
  BY <1>1, <1>2, <1>3 DEF IsInjective, ToSet
<1>. QED
  BY <1>1, <1>4, <1>5 DEF q

(* The rest of a sequence.                                                   *)
LEMMA TailOfSequence ==
  ASSUME NEW T, NEW s \in Seq(T), s # <<>>
  PROVE  /\ Tail(s) \in Seq(T) /\ Head(s) \in T /\ Head(s) \in ToSet(s)
         /\ DOMAIN s = 1 .. Len(s) /\ DOMAIN Tail(s) = 1 .. Len(s) - 1 /\ Len(s) \in Nat \ {0}
         /\ \A i \in DOMAIN Tail(s) : i + 1 \in DOMAIN s /\ Tail(s)[i] = s[i + 1]
         /\ ToSet(s) = ToSet(Tail(s)) \cup {Head(s)}
<1>1. /\ Tail(s) \in Seq(T) /\ Head(s) = s[1]
      /\ DOMAIN s = 1 .. Len(s) /\ Len(s) \in Nat \ {0}
      /\ DOMAIN Tail(s) = 1 .. Len(s) - 1
      /\ \A i \in 1 .. Len(s) - 1 : Tail(s)[i] = s[i + 1]
  OBVIOUS
<1>2. \A i \in DOMAIN s : i # 1 => i - 1 \in DOMAIN Tail(s) /\ Tail(s)[i - 1] = s[i]
  BY <1>1
<1>3. ToSet(s) \subseteq ToSet(Tail(s)) \cup {Head(s)}
  BY <1>1, <1>2 DEF ToSet
<1>4. \A i \in DOMAIN Tail(s) : i + 1 \in DOMAIN s /\ Tail(s)[i] = s[i + 1]
  BY <1>1
<1>5. ToSet(Tail(s)) \cup {Head(s)} \subseteq ToSet(s)
  <2>1. 1 \in DOMAIN s
    BY <1>1
  <2>. QED
    BY <1>1, <1>4, <2>1 DEF ToSet
<1>6. Head(s) \in T
  OBVIOUS
<1>. QED
  BY <1>1, <1>3, <1>4, <1>5, <1>6

LEMMA JoinOfSequences ==
  ASSUME NEW T, NEW s \in Seq(T), NEW r \in Seq(T)
  PROVE  /\ s \o r \in Seq(T) /\ ToSet(s \o r) = ToSet(s) \cup ToSet(r)
         /\ DOMAIN (s \o r) = 1 .. Len(s) + Len(r) /\ Len(s) \in Nat /\ Len(r) \in Nat
         /\ \A i \in DOMAIN (s \o r) :
               IF i <= Len(s) THEN (s \o r)[i] \in ToSet(s) ELSE (s \o r)[i] \in ToSet(r)
<1>1. /\ s \o r \in Seq(T) /\ Len(s) \in Nat /\ Len(r) \in Nat
      /\ DOMAIN s = 1 .. Len(s) /\ DOMAIN r = 1 .. Len(r)
      /\ DOMAIN (s \o r) = 1 .. Len(s) + Len(r)
      /\ \A i \in 1 .. Len(s) : (s \o r)[i] = s[i]
      /\ \A i \in 1 .. Len(r) : (s \o r)[i + Len(s)] = r[i]
  OBVIOUS
<1>. DEFINE q == s \o r
<1>. HIDE DEF q
<1>2. ASSUME NEW i \in DOMAIN q
      PROVE  IF i <= Len(s) THEN q[i] \in ToSet(s) ELSE q[i] \in ToSet(r)
  <2>1. CASE i <= Len(s)
    BY <1>1, <2>1 DEF ToSet, q
  <2>2. CASE ~(i <= Len(s))
    <3>1. i - Len(s) \in DOMAIN r /\ q[i] = r[i - Len(s)]
      BY <1>1, <2>2 DEF q
    <3>. QED
      BY <2>2, <3>1 DEF ToSet
  <2>. QED
    BY <2>1, <2>2
<1>3. ToSet(q) \subseteq ToSet(s) \cup ToSet(r)
  BY <1>2 DEF ToSet
<1>4. ToSet(s) \subseteq ToSet(q)
  <2>1. \A i \in DOMAIN s : i \in DOMAIN q /\ q[i] = s[i]
    BY <1>1 DEF q
  <2>. QED
    BY <2>1 DEF ToSet
<1>5. ToSet(r) \subseteq ToSet(q)
  <2>1. \A i \in DOMAIN r : i + Len(s) \in DOMAIN q /\ q[i + Len(s)] = r[i]
    BY <1>1 DEF q
  <2>. QED
    BY <2>1 DEF ToSet
<1>. QED
  BY <1>1, <1>2, <1>3, <1>4, <1>5 DEF q

-----------------------------------------------------------------------------
(* Type correctness.                                                         *)

LEMMA Sizes ==
  /\ \A f \in File : Size[f] \in Nat \ {0}
  /\ Mega \in Nat \ {0} /\ Piece \in Nat \ {0} /\ MaxStart \in Nat /\ MaxFailure \in Nat
  /\ SpaceLimit \in Nat /\ SpaceThreshold \in Nat /\ Reserve \in Nat
  /\ LruCap \in Nat /\ InitialSpace \in Nat
BY SizeAssumption

LEMMA SumType ==
  ASSUME NEW S \in SUBSET File, NEW g, \A x \in S : g[x] \in Nat
  PROVE  Sum(g, S) \in Nat
BY SizeAssumption, FS_Subset, UnitsFinite

(* Whole megabytes.                                                          *)
LEMMA InMegabytes ==
  ASSUME NEW n \in Nat
  PROVE  /\ n \div Mega \in Nat /\ (n \div Mega) * Mega <= n
         /\ n <= (n \div Mega) * Mega + (Mega - 1)
         /\ n \div Mega <= n
BY Sizes

LEMMA WholeTypes == \A f \in File : Whole[f] \in Nat /\ Whole[f] <= Size[f]
BY Sizes, InMegabytes DEF Whole

LEMMA UnchangedTypes ==
  ASSUME TypeOK
  PROVE  /\ UNCHANGED fileVars => FileTypeOK'
         /\ UNCHANGED useVars /\ UNCHANGED listed => UseTypeOK'
         /\ UNCHANGED cleanVars /\ UNCHANGED <<listed, phase>> => CleanTypeOK'
         /\ UNCHANGED statVars => StatTypeOK'
         /\ UNCHANGED boundVars => BoundTypeOK'
<1>1. UNCHANGED fileVars => FileTypeOK'
  BY DEF TypeOK, FileTypeOK, fileVars
<1>2. UNCHANGED useVars /\ UNCHANGED listed => UseTypeOK'
  BY DEF TypeOK, UseTypeOK, useVars
<1>3. UNCHANGED cleanVars /\ UNCHANGED <<listed, phase>> => CleanTypeOK'
  BY DEF TypeOK, CleanTypeOK, cleanVars
<1>4. UNCHANGED statVars => StatTypeOK'
  BY DEF TypeOK, StatTypeOK, statVars, passVars, admitVars
<1>5. UNCHANGED boundVars => BoundTypeOK'
  BY DEF TypeOK, BoundTypeOK, boundVars
<1>. QED
  BY <1>1, <1>2, <1>3, <1>4, <1>5

LEMMA InitTypeOK == Init => TypeOK
<1>. SUFFICES ASSUME Init PROVE TypeOK
  OBVIOUS
<1>. USE Sizes DEF Init
<1>1. FileTypeOK
  BY DEF FileTypeOK, Stages
<1>2. UseTypeOK
  BY DEF UseTypeOK, ToSet, IsInjective
<1>3. CleanTypeOK
  BY DEF CleanTypeOK, ToSet
<1>4. StatTypeOK /\ BoundTypeOK
  BY DEF StatTypeOK, BoundTypeOK
<1>. QED
  BY <1>1, <1>2, <1>3, <1>4 DEF TypeOK

(* DownloadFile and the torrent client: their part is the files on disk and  *)
(* how far each download is.                                                 *)
LEMMA DownloadTypeOK ==
  ASSUME TypeOK, NEW f \in File,
         \/ Ask(f) \/ NameAndSize(f) \/ CheckFileExistAndSize(f)
         \/ Receive(f) \/ Reap(f) \/ RemoveDownload(f)
  PROVE  TypeOK'
<1>. USE Sizes DEF SetStage, Stages, LetIn
<1>1. FileTypeOK'
  <2>1. CASE Ask(f)
    BY <2>1 DEF TypeOK, FileTypeOK, Ask
  <2>2. CASE NameAndSize(f)
    BY <2>2 DEF TypeOK, FileTypeOK, NameAndSize
  <2>3. CASE CheckFileExistAndSize(f)
    BY <2>3 DEF TypeOK, FileTypeOK, CheckFileExistAndSize
  <2>4. CASE Receive(f)
    BY <2>4 DEF TypeOK, FileTypeOK, Receive, minInt64
  <2>5. CASE Reap(f)
    BY <2>5 DEF TypeOK, FileTypeOK, Reap
  <2>6. CASE RemoveDownload(f)
    BY <2>6 DEF TypeOK, FileTypeOK, RemoveDownload
  <2>. QED
    BY <2>1, <2>2, <2>3, <2>4, <2>5, <2>6
<1>2. UNCHANGED <<listed, useVars, cleanVars, phase>>
  BY DEF Ask, NameAndSize, CheckFileExistAndSize, Receive, Reap, RemoveDownload,
         statVars, passVars
<1>3. StatTypeOK'
  <2>1. CASE CheckFileExistAndSize(f)
    BY <2>1 DEF TypeOK, StatTypeOK, CheckFileExistAndSize, passVars, admitVars
  <2>2. CASE ~CheckFileExistAndSize(f)
    BY <2>2, UnchangedTypes DEF Ask, NameAndSize, Receive, Reap, RemoveDownload
  <2>. QED
    BY <2>1, <2>2
<1>4. BoundTypeOK'
  <2>1. CASE Ask(f)
    BY <2>1 DEF TypeOK, BoundTypeOK, Ask
  <2>2. CASE ~Ask(f)
    BY <2>2, UnchangedTypes
    DEF NameAndSize, CheckFileExistAndSize, Receive, Reap, RemoveDownload
  <2>. QED
    BY <2>1, <2>2
<1>. QED
  BY <1>1, <1>2, <1>3, <1>4, UnchangedTypes DEF TypeOK

LEMMA UseTypes ==
  ASSUME TypeOK, NEW f \in File, IncrementDownloads(f) \/ DecrementDownloads(f)
  PROVE  TypeOK'
<1>1. UseTypeOK'
  <2>1. CASE IncrementDownloads(f)
    <3>1. PICK p \in Kept(usage, File \ {f}) : usage' = Append(p, f)
      BY <2>1 DEF IncrementDownloads
    <3>2. usage \in Seq(File) /\ ToSet(usage) \subseteq listed /\ listed \subseteq File
      BY DEF TypeOK, UseTypeOK, FileTypeOK
    <3>3. /\ p \in Seq(File) /\ IsInjective(p)
          /\ ToSet(p) = ToSet(usage) \cap (File \ {f})
      BY <3>2, SizeAssumption, KeptOfSequence
    <3>4. f \notin ToSet(p)
      BY <3>3
    <3>5. /\ usage' \in Seq(File) /\ IsInjective(usage')
          /\ ToSet(usage') = ToSet(p) \cup {f}
      BY <3>1, <3>3, <3>4, AppendOnce
    <3>6. f \in listed /\ listed' = listed /\ busy' = busy \cup {f}
      BY <2>1 DEF IncrementDownloads, fileVars
    <3>7. ToSet(usage') = ToSet(usage) \cup {f}
      BY <3>2, <3>3, <3>5
    <3>8. ToSet(usage') = ToSet(usage)'
      BY DEF ToSet
    <3>. QED
      BY <3>2, <3>5, <3>6, <3>7, <3>8 DEF TypeOK, UseTypeOK, ToSet, IsInjective
  <2>2. CASE DecrementDownloads(f)
    BY <2>2 DEF TypeOK, UseTypeOK, DecrementDownloads, fileVars
  <2>. QED
    BY <2>1, <2>2
<1>2. /\ UNCHANGED <<fileVars, cleanVars, statVars, boundVars>>
      /\ UNCHANGED <<listed, phase>>
  BY DEF IncrementDownloads, DecrementDownloads, fileVars, statVars, passVars
<1>. QED
  BY <1>1, <1>2, UnchangedTypes DEF TypeOK

LEMMA ScanTypeOK ==
  ASSUME TypeOK, ScanFiles
  PROVE  TypeOK'
<1>1. FileTypeOK'
  BY DEF TypeOK, FileTypeOK, ScanFiles, LocalFilesNow, Found, OnDisk
<1>2. UseTypeOK'
  <2>1. usage \in Seq(File) /\ busy \subseteq ToSet(usage)
    BY DEF TypeOK, UseTypeOK
  <2>2. usage' \in Kept(usage, listed') /\ busy' = busy \cap listed'
    BY DEF ScanFiles
  <2>3. /\ usage' \in Seq(File) /\ IsInjective(usage')
        /\ ToSet(usage') = ToSet(usage) \cap listed'
    BY <2>1, <2>2, SizeAssumption, KeptOfSequence
  <2>. QED
    BY <2>1, <2>2, <2>3 DEF UseTypeOK, ToSet, IsInjective
<1>3. CleanTypeOK'
  BY DEF TypeOK, CleanTypeOK, ScanFiles, cleanVars, statVars, passVars, ToSet
<1>. QED
  BY <1>1, <1>2, <1>3, UnchangedTypes DEF TypeOK, ScanFiles

(* UpdateStats and CleanUpSpace.                                             *)
LEMMA SpaceTypes ==
  ASSUME TypeOK
  PROVE  /\ Sum(disk, File) \in Nat /\ maxUsedSpace \in Nat
         /\ \A S \in SUBSET File : Sum(Whole, S) \in Nat
         /\ lruActivationThreshold \in Nat /\ lruActivationThreshold <= LruCap
<1>1. Sum(disk, File) \in Nat
  BY SumType DEF TypeOK, FileTypeOK
<1>2. maxUsedSpace \in Nat
  BY DEF maxUsedSpace, TypeOK, StatTypeOK
<1>3. \A S \in SUBSET File : Sum(Whole, S) \in Nat
  BY WholeTypes, SumType
<1>4. lruActivationThreshold \in Nat /\ lruActivationThreshold <= LruCap
  BY Sizes DEF lruActivationThreshold, minInt64
<1>. QED
  BY <1>1, <1>2, <1>3, <1>4

LEMMA Read ==
  ASSUME NEW S, NEW L, NEW R \in Looped(S, L)
  PROVE  R \subseteq S
BY DEF Looped

LEMMA UpdateTypeOK ==
  ASSUME TypeOK, UpdateStats
  PROVE  TypeOK'
<1>. USE DEF statVars, passVars, admitVars
<1>0. /\ listed \subseteq File /\ Downloading \subseteq File
      /\ UNCHANGED <<fileVars, useVars>> /\ UNCHANGED listed
  BY DEF TypeOK, FileTypeOK, Downloading, UpdateStats, GetDiskSpaceUsage, SumLocalFiles,
         SumDownloads, Publish, fileVars
<1>1. CASE GetDiskSpaceUsage
  <2>1. CleanTypeOK'
    BY <1>0, <1>1 DEF GetDiskSpaceUsage, TypeOK, CleanTypeOK, cleanVars, ToSet
  <2>2. StatTypeOK'
    <3>1. total' = Sum(disk, File) \div Mega \/ total' = 0
      BY <1>1 DEF GetDiskSpaceUsage
    <3>2. total' \in Nat
      BY <3>1, SpaceTypes, InMegabytes
    <3>. QED
      BY <1>1, <3>2 DEF GetDiskSpaceUsage, TypeOK, StatTypeOK
  <2>3. BoundTypeOK'
    BY <1>1, Sizes DEF GetDiskSpaceUsage, TypeOK, BoundTypeOK
  <2>. QED
    BY <1>0, <2>1, <2>2, <2>3, UnchangedTypes DEF TypeOK
<1>2. CASE SumLocalFiles
  <2>1. PICK read \in SUBSET File : lists' = Sum(Whole, read) /\ missed' = File \ read
    BY <1>0, <1>2, Read DEF SumLocalFiles
  <2>2. StatTypeOK'
    BY <1>2, <2>1, SpaceTypes DEF SumLocalFiles, TypeOK, StatTypeOK
  <2>3. CleanTypeOK' /\ BoundTypeOK'
    BY <1>0, <1>2, UnchangedTypes
    DEF SumLocalFiles, TypeOK, CleanTypeOK, cleanVars, ToSet
  <2>. QED
    BY <1>0, <2>2, <2>3, UnchangedTypes DEF TypeOK
<1>3. CASE SumDownloads
  <2>1. PICK read \in SUBSET File :
            lists' = lists + Sum(Whole, read) /\ missed' \subseteq missed
    BY <1>0, <1>3, Read DEF SumDownloads
  <2>2. StatTypeOK'
    <3>1. lists' \in Nat
      BY <2>1, SpaceTypes DEF TypeOK, StatTypeOK
    <3>. QED
      BY <1>3, <2>1, <3>1 DEF SumDownloads, TypeOK, StatTypeOK
  <2>3. CleanTypeOK' /\ BoundTypeOK'
    BY <1>0, <1>3, UnchangedTypes
    DEF SumDownloads, TypeOK, CleanTypeOK, cleanVars, ToSet
  <2>. QED
    BY <1>0, <2>2, <2>3, UnchangedTypes DEF TypeOK
<1>4. CASE Publish
  <2>1. CleanTypeOK'
    <3>1. CASE remaining' < lruActivationThreshold
      <4>1. toVisit' \in SetToSeqs(listed) /\ cleaner' = "unused"
        BY <1>4, <3>1 DEF Publish
      <4>2. IsFiniteSet(listed)
        BY <1>0, SizeAssumption, FS_Subset
      <4>3. toVisit' \in Seq(File) /\ ToSet(toVisit') = listed
        BY <1>0, <4>1, <4>2, OrderOfSet
      <4>4. UNCHANGED <<listed, doomed, freedSpace, known>> /\ phase' = "directory"
        BY <1>0, <1>4 DEF Publish
      <4>. QED
        BY <4>1, <4>3, <4>4 DEF TypeOK, CleanTypeOK, ToSet
    <3>2. CASE ~(remaining' < lruActivationThreshold)
      BY <1>0, <1>4, <3>2 DEF Publish, TypeOK, CleanTypeOK, ToSet
    <3>. QED
      BY <3>1, <3>2
  <2>2. StatTypeOK'
    <3>1. remaining' \in Int
      BY <1>4, SpaceTypes, Sizes DEF Publish
    <3>. QED
      BY <1>4, <3>1 DEF Publish, TypeOK, StatTypeOK
  <2>3. BoundTypeOK'
    BY <1>4, UnchangedTypes DEF Publish
  <2>. QED
    BY <1>0, <2>1, <2>2, <2>3, UnchangedTypes DEF TypeOK
<1>. QED
  BY <1>1, <1>2, <1>3, <1>4 DEF UpdateStats

LEMMA CleanTypes ==
  ASSUME TypeOK, CleanUpSpace
  PROVE  TypeOK'
<1>. DEFINE f == Head(toVisit)
<1>0. /\ cleaner # "off" => phase = "directory"
      /\ listed \subseteq File /\ freedSpace \in Nat /\ known \subseteq File
      /\ toVisit \in Seq(File) /\ ToSet(toVisit) \subseteq listed /\ doomed \subseteq listed
  BY DEF TypeOK, FileTypeOK, CleanTypeOK
<1>1. toVisit # <<>> => /\ Tail(toVisit) \in Seq(File) /\ f \in listed
                        /\ ToSet(Tail(toVisit)) \subseteq listed
  BY <1>0, TailOfSequence
<1>2. CASE CleanUnused
  <2>1. UNCHANGED <<fileVars, useVars, statVars, boundVars>> /\ UNCHANGED <<listed, phase>>
    BY <1>2 DEF CleanUnused, fileVars, statVars, passVars
  <2>2. /\ toVisit' \in Seq(File) /\ ToSet(toVisit') \subseteq listed
        /\ doomed' \subseteq listed /\ freedSpace' \in Nat /\ cleaner' = "unused" /\ cleaner = "unused"
        /\ known' = known
    BY <1>0, <1>1, <1>2, WholeTypes DEF CleanUnused
  <2>3. CleanTypeOK'
    BY <1>0, <2>1, <2>2 DEF CleanTypeOK, ToSet
  <2>. QED
    BY <2>1, <2>3, UnchangedTypes DEF TypeOK
<1>3. CASE SortByLastDownload
  <2>1. UNCHANGED <<fileVars, useVars, statVars, boundVars>> /\ UNCHANGED <<listed, phase>>
    BY <1>3 DEF SortByLastDownload, fileVars, statVars, passVars
  <2>2. usage \in Seq(File) /\ ToSet(usage) \subseteq listed
    BY DEF TypeOK, UseTypeOK
  <2>3. PICK p \in SetToSeqs(listed \ ToSet(usage)) : toVisit' = p \o usage
    BY <1>3 DEF SortByLastDownload, ByLastDownload
  <2>4. IsFiniteSet(listed \ ToSet(usage))
    BY <1>0, SizeAssumption, FS_Subset
  <2>5. p \in Seq(File) /\ ToSet(p) = listed \ ToSet(usage)
    BY <1>0, <2>4, OrderOfSet
  <2>6. toVisit' \in Seq(File) /\ ToSet(toVisit') \subseteq listed
    BY <2>2, <2>3, <2>5, JoinOfSequences
  <2>7. CleanTypeOK'
    BY <1>0, <1>3, <2>1, <2>2, <2>6 DEF SortByLastDownload, CleanTypeOK, ToSet
  <2>. QED
    BY <2>1, <2>7, UnchangedTypes DEF TypeOK
<1>4. CASE CleanIdle
  <2>1. UNCHANGED <<fileVars, useVars, statVars, boundVars>> /\ UNCHANGED <<listed, phase>>
    BY <1>4 DEF CleanIdle, fileVars, statVars, passVars
  <2>2. /\ toVisit' \in Seq(File) /\ ToSet(toVisit') \subseteq listed
        /\ doomed' \subseteq listed /\ cleaner = "idle" /\ UNCHANGED <<cleaner, freedSpace, known>>
    BY <1>0, <1>1, <1>4 DEF CleanIdle
  <2>3. CleanTypeOK'
    BY <1>0, <2>1, <2>2 DEF CleanTypeOK, ToSet
  <2>. QED
    BY <2>1, <2>3, UnchangedTypes DEF TypeOK
<1>5. CASE removeTorrentFile
  <2>1. PICK g \in doomed :
          /\ \/ RemoveSucceeds(g) /\ UNCHANGED freedSpace
             \/ /\ RemoveFails(g)
                /\ freedSpace' = freedSpace + (IF cleaner = "idle" THEN Size[g] ELSE 0)
          /\ doomed' = {}
          /\ UNCHANGED <<stage, listed, useVars, cleaner, toVisit, known, statVars, starts>>
    BY <1>5 DEF removeTorrentFile
  <2>2. g \in File /\ cleaner # "off"
    BY <1>0, <2>1 DEF TypeOK, CleanTypeOK
  <2>3. UNCHANGED <<listed, phase>>
    BY <2>1 DEF statVars, passVars
  <2>4. freedSpace' \in Nat
    BY <1>0, <2>1, <2>2, Sizes
  <2>5. FileTypeOK'
    <3>1. disk' = [disk EXCEPT ![g] = 0] \/ disk' = disk
      BY <2>1 DEF RemoveSucceeds, RemoveFails
    <3>2. disk' \in [File -> Nat] /\ \A h \in File : disk'[h] <= Size[h]
      BY <2>2, <3>1, Sizes DEF TypeOK, FileTypeOK
    <3>. QED
      BY <2>1, <3>2 DEF TypeOK, FileTypeOK
  <2>6. CleanTypeOK'
    BY <1>0, <2>1, <2>2, <2>3, <2>4 DEF TypeOK, CleanTypeOK, ToSet
  <2>7. BoundTypeOK'
    BY <2>1, Sizes DEF TypeOK, BoundTypeOK, RemoveSucceeds, RemoveFails
  <2>. QED
    BY <2>1, <2>5, <2>6, <2>7, UnchangedTypes DEF TypeOK
<1>6. CASE CleanEnd
  <2>1. UNCHANGED <<fileVars, useVars, statVars, boundVars>> /\ UNCHANGED <<listed, phase>>
    BY <1>6 DEF CleanEnd, fileVars, statVars, passVars
  <2>2. CleanTypeOK'
    BY <1>0, <1>6, <2>1 DEF CleanEnd, CleanTypeOK, ToSet
  <2>. QED
    BY <2>1, <2>2, UnchangedTypes DEF TypeOK
<1>. QED
  BY <1>2, <1>3, <1>4, <1>5, <1>6 DEF CleanUpSpace

LEMMA StepTypeOK == TypeOK /\ [Next]_vars => TypeOK'
<1>. SUFFICES ASSUME TypeOK, [Next]_vars PROVE TypeOK'
  OBVIOUS
<1>1. ASSUME NEW f \in File,
             \/ Ask(f) \/ NameAndSize(f) \/ CheckFileExistAndSize(f)
             \/ Receive(f) \/ Reap(f) \/ RemoveDownload(f)
      PROVE  TypeOK'
  BY <1>1, DownloadTypeOK
<1>2. ASSUME NEW f \in File, IncrementDownloads(f) \/ DecrementDownloads(f)
      PROVE  TypeOK'
  BY <1>2, UseTypes
<1>3. CASE ScanFiles
  BY <1>3, ScanTypeOK
<1>4. CASE UpdateStats
  BY <1>4, UpdateTypeOK
<1>5. CASE CleanUpSpace
  BY <1>5, CleanTypes
<1>6. CASE UNCHANGED vars
  BY <1>6, UnchangedTypes DEF vars, fileVars, statVars, passVars, TypeOK
<1>. QED
  BY <1>1, <1>2, <1>3, <1>4, <1>5, <1>6 DEF Next

(* Every reachable state has the type invariant: the entries that            *)
(* CleanUpSpace has before it are entries of the list, which does not move   *)
(* while the cleaner runs, and each file that is read or was downloaded has  *)
(* its entry, though the counters are changed without the list's mutex.      *)
THEOREM TypeCorrect == Spec => []TypeOK
<1>. QED
  BY InitTypeOK, StepTypeOK, PTL DEF Spec

-----------------------------------------------------------------------------
(* What whole megabytes leave out of a sum: of each file that holds          *)
(* something, less than one.                                                 *)
LEMMA RoundedSum ==
  ASSUME NEW S, IsFiniteSet(S), NEW g, \A x \in S : g[x] \in Nat,
         NEW h, \A x \in S : h[x] = g[x] \div Mega
  PROVE  Sum(g, S) <= Sum(h, S) * Mega + Cardinality({x \in S : g[x] > 0}) * (Mega - 1)
<1>. DEFINE T == {x \in S : g[x] > 0}
            A == Units(h, S) \X (1 .. Mega)
            B == T \X (1 .. Mega - 1)
            a(v) == <<v[1][1], (v[1][2] - 1) * Mega + v[2]>>
            b(v) == <<v[1], h[v[1]] * Mega + v[2]>>
            InA == {a(v) : v \in A}
            InB == {b(v) : v \in B}
<1>1. /\ Mega \in Nat \ {0} /\ Mega - 1 \in Nat
      /\ \A x \in S : h[x] \in Nat /\ g[x] <= h[x] * Mega + (Mega - 1)
  <2>1. ASSUME NEW x \in S
        PROVE  h[x] \in Nat /\ g[x] <= h[x] * Mega + (Mega - 1)
    <3>1. g[x] \in Nat /\ h[x] = g[x] \div Mega
      OBVIOUS
    <3>2. /\ g[x] \div Mega \in Nat
          /\ g[x] <= (g[x] \div Mega) * Mega + (Mega - 1)
      BY <3>1, InMegabytes
    <3>. QED
      BY <3>1, <3>2
  <2>. HIDE DEF A, B, a, b, InA, InB, T
  <2>2. Mega \in Nat \ {0} /\ Mega - 1 \in Nat
    BY Sizes
  <2>. QED
    BY <2>1, <2>2
<1>2. IsFiniteSet(Units(h, S)) /\ Cardinality(Units(h, S)) \in Nat
  BY <1>1, UnitsFinite DEF Sum
<1>3. IsFiniteSet(T) /\ Cardinality(T) \in Nat
  BY FS_Subset, FS_CardinalityType
<1>4. /\ IsFiniteSet(1 .. Mega) /\ Cardinality(1 .. Mega) = Mega
      /\ IsFiniteSet(1 .. Mega - 1) /\ Cardinality(1 .. Mega - 1) = Mega - 1
  <2>1. \A n \in Nat : IsFiniteSet(1 .. n) /\ Cardinality(1 .. n) = n
    <3>1. ASSUME NEW n \in Nat
          PROVE  IsFiniteSet(1 .. n) /\ Cardinality(1 .. n) = n
      BY FS_Interval
    <3>. QED
      BY <3>1
  <2>. QED
    BY <1>1, <2>1
<1>5. IsFiniteSet(A) /\ Cardinality(A) = Cardinality(Units(h, S)) * Mega
  BY <1>2, <1>4, FS_Product
<1>6. IsFiniteSet(B) /\ Cardinality(B) = Cardinality(T) * (Mega - 1)
  BY <1>3, <1>4, FS_Product
<1>7. IsFiniteSet(InA) /\ Cardinality(InA) <= Cardinality(A)
  <2>1. [v \in A |-> a(v)] \in Surjection(A, InA)
    BY DEF Surjection
  <2>. QED
    BY <1>5, <2>1, FS_Surjection
<1>8. IsFiniteSet(InB) /\ Cardinality(InB) <= Cardinality(B)
  <2>1. [v \in B |-> b(v)] \in Surjection(B, InB)
    BY DEF Surjection
  <2>. QED
    BY <1>6, <2>1, FS_Surjection
<1>9. ASSUME NEW u \in Units(g, S)
      PROVE  u \in InA \cup InB
  <2>1. PICK x \in S : u \in {x} \X (1 .. g[x])
    BY DEF Units
  <2>2. PICK i \in 1 .. g[x] : u = <<x, i>>
    BY <2>1
  <2>3. g[x] \in Nat /\ h[x] \in Nat /\ i \in Nat \ {0} /\ i <= g[x] /\ x \in T
    BY <1>1, <2>2
  <2>4. CASE i <= h[x] * Mega
    <3>. DEFINE q == (i - 1) \div Mega
                r == i - q * Mega
    <3>1. q \in Nat /\ q * Mega <= i - 1 /\ i - 1 <= q * Mega + (Mega - 1)
      BY <2>3, InMegabytes
    <3>. HIDE DEF q
    <3>2. q * Mega \in Nat
      <4>1. \A c, d \in Nat : c * d \in Nat
        OBVIOUS
      <4>. QED
        BY <1>1, <3>1, <4>1
    <3>3. r \in 1 .. Mega
      BY <1>1, <2>3, <3>1, <3>2
    <3>4. q + 1 <= h[x]
      <4>1. \A c, d, m \in Nat : c * m < d * m => c + 1 <= d
        OBVIOUS
      <4>2. q * Mega < h[x] * Mega
        <5>1. h[x] * Mega \in Nat
          <6>1. \A c, d \in Nat : c * d \in Nat
            OBVIOUS
          <6>. QED
            BY <1>1, <2>3, <6>1
        <5>. QED
          BY <2>3, <2>4, <3>1, <3>2, <5>1
      <4>. QED
        BY <1>1, <2>3, <3>1, <4>1, <4>2
    <3>5. PICK k \in 1 .. h[x], j \in 1 .. Mega : (k - 1) * Mega + j = i
      <4>. DEFINE p == q + 1
      <4>1. p \in 1 .. h[x]
        BY <2>3, <3>1, <3>4
      <4>2. (p - 1) * Mega + r = i
        <5>1. p - 1 = q
          BY <3>1
        <5>. HIDE DEF p
        <5>. QED
          BY <2>3, <3>2, <5>1
      <4>. HIDE DEF p, r
      <4>. QED
        BY <3>3, <4>1, <4>2
    <3>6. <<x, k>> \in Units(h, S)
      <4>1. <<x, k>> \in {x} \X (1 .. h[x])
        OBVIOUS
      <4>. QED
        BY <4>1 DEF Units
    <3>7. <<<<x, k>>, j>> \in A
      BY <3>6
    <3>8. a(<<<<x, k>>, j>>) = u
      BY <2>2, <3>5
    <3>. QED
      BY <3>7, <3>8
  <2>5. CASE ~(i <= h[x] * Mega)
    <3>1. h[x] * Mega \in Nat
      <4>1. \A c, d \in Nat : c * d \in Nat
        OBVIOUS
      <4>. QED
        BY <1>1, <2>3, <4>1
    <3>2. i - h[x] * Mega \in 1 .. Mega - 1
      BY <1>1, <2>3, <2>5, <3>1
    <3>3. <<x, i - h[x] * Mega>> \in B
      BY <2>3, <3>2
    <3>4. b(<<x, i - h[x] * Mega>>) = u
      BY <2>2, <2>3, <3>1
    <3>. QED
      BY <3>3, <3>4
  <2>. QED
    BY <2>4, <2>5
<1>. HIDE DEF A, B, InA, InB, T
<1>10. /\ IsFiniteSet(InA \cup InB)
       /\ Cardinality(InA \cup InB) <= Cardinality(InA) + Cardinality(InB)
  <2>1. IsFiniteSet(InA \cup InB)
    BY <1>7, <1>8, FS_Union
  <2>2. Cardinality(InA \cup InB) =
          Cardinality(InA) + Cardinality(InB) - Cardinality(InA \cap InB)
    BY <1>7, <1>8, FS_Union
  <2>3. Cardinality(InA) \in Nat /\ Cardinality(InB) \in Nat /\ Cardinality(InA \cap InB) \in Nat
    BY <1>7, <1>8, FS_Intersection, FS_CardinalityType
  <2>. QED
    BY ONLY <2>1, <2>2, <2>3
<1>11. Cardinality(Units(g, S)) <= Cardinality(InA \cup InB)
  BY <1>9, <1>10, FS_Subset
<1>12. /\ Cardinality(Units(g, S)) \in Nat /\ Cardinality(InA \cup InB) \in Nat
       /\ Cardinality(InA) \in Nat /\ Cardinality(InB) \in Nat
       /\ Cardinality(A) \in Nat /\ Cardinality(B) \in Nat
  BY <1>5, <1>6, <1>7, <1>8, <1>10, UnitsFinite, FS_CardinalityType DEF Sum
<1>13. Cardinality(Units(g, S)) <= Cardinality(A) + Cardinality(B)
  BY ONLY <1>7, <1>8, <1>10, <1>11, <1>12
<1>. QED
  BY <1>5, <1>6, <1>13 DEF Sum, T

(* DownloadFile against the snapshot: the files that were not let in since   *)
(* the downloads were read take no more than the snapshot left to them, in   *)
(* whole megabytes, and each that was let in after the publication fits into *)
(* what remained.  The same holds for the snapshot that is being taken.      *)
WholePledged == [f \in File |-> Pledged[f] \div Mega]

LocalRead == phase = "downloads" => lists = Sum(Whole, File \ missed)

DownloadsRead == phase = "publish" /\ missed = {} => Sum(WholePledged, File \ since) <= lists

SnapshotHolds ==
    File # {} /\ unseen = {} =>
        Sum(WholePledged, File \ (late \cup admitted)) <= SpaceLimit - remaining

AdmittedFit ==
    remaining > 0 => \A f \in admitted : Size[f] <= (remaining - Reserve) * Mega

SpaceInv == LocalRead /\ DownloadsRead /\ SnapshotHolds /\ AdmittedFit

LEMMA PledgedTypes ==
  ASSUME TypeOK
  PROVE  \A f \in File : /\ Pledged[f] \in Nat /\ Pledged[f] <= Size[f]
                         /\ WholePledged[f] \in Nat /\ WholePledged[f] <= Whole[f]
                         /\ WholePledged[f] <= Pledged[f]
<1>. SUFFICES ASSUME NEW f \in File
              PROVE  /\ Pledged[f] \in Nat /\ Pledged[f] <= Size[f]
                     /\ WholePledged[f] \in Nat /\ WholePledged[f] <= Whole[f]
                     /\ WholePledged[f] <= Pledged[f]
  OBVIOUS
<1>1. Pledged[f] \in Nat /\ Pledged[f] <= Size[f] /\ Size[f] \in Nat
  BY Sizes DEF TypeOK, FileTypeOK, Pledged
<1>2. \A m, n \in Nat : m <= n => m \div Mega <= n \div Mega
  BY Sizes
<1>. QED
  BY <1>1, <1>2, InMegabytes DEF WholePledged, Whole

LEMMA InitSpaceInv == Init => SpaceInv
BY DEF Init, SpaceInv, LocalRead, DownloadsRead, SnapshotHolds, AdmittedFit

(* A step that pledges no more, but for files it lets in.                    *)
LEMMA PledgeLess ==
  ASSUME TypeOK, TypeOK', NEW A \in SUBSET File, NEW B \in SUBSET File, A \subseteq B,
         \A f \in File \ B : Pledged'[f] <= Pledged[f]
  PROVE  /\ Sum(WholePledged', File \ B) <= Sum(WholePledged, File \ A)
         /\ Sum(WholePledged', File \ B) \in Nat /\ Sum(WholePledged, File \ A) \in Nat
<1>1. \A f \in File : WholePledged[f] \in Nat
  BY PledgedTypes
<1>2. \A f \in File : Pledged[f] \in Nat /\ Pledged'[f] \in Nat
  BY Sizes DEF TypeOK, FileTypeOK, Pledged
<1>3. \A f \in File : /\ WholePledged'[f] = Pledged'[f] \div Mega
                      /\ WholePledged[f] = Pledged[f] \div Mega
  BY DEF WholePledged
<1>4. \A f \in File : WholePledged'[f] \in Nat
  BY <1>2, <1>3, InMegabytes
<1>5. \A f \in File \ B : WholePledged'[f] <= WholePledged[f]
  <2>1. \A m, n \in Nat : m <= n => m \div Mega <= n \div Mega
    BY Sizes
  <2>. QED
    BY <1>2, <1>3, <2>1
<1>6. IsFiniteSet(File \ A) /\ IsFiniteSet(File \ B)
  BY SizeAssumption, FS_Difference
<1>7. Sum(WholePledged', File \ B) <= Sum(WholePledged, File \ A)
  BY <1>1, <1>4, <1>5, <1>6, SumMonotone
<1>. QED
  BY <1>1, <1>4, <1>6, <1>7, UnitsFinite

(* Steps outside UpdateStats, which let the files of N in.                   *)
LEMMA OtherSpaceInv ==
  ASSUME TypeOK, TypeOK', SpaceInv, UNCHANGED <<remaining, unseen, late, passVars>>,
         NEW N \in SUBSET File, admitted' = admitted \cup N, since \subseteq since',
         phase = "publish" => N \subseteq since',
         \A f \in File \ N : Pledged'[f] <= Pledged[f]
  PROVE  LocalRead' /\ DownloadsRead' /\ SnapshotHolds'
<1>. USE DEF SpaceInv
<1>0. UNCHANGED <<phase, total, lists, missed>>
  BY DEF passVars
<1>1. LocalRead'
  BY <1>0 DEF LocalRead, Whole, Sum, Units
<1>2. DownloadsRead'
  <2>. SUFFICES ASSUME phase = "publish", missed = {}
                PROVE  Sum(WholePledged', File \ since') <= lists
    BY <1>0 DEF DownloadsRead, Sum, Units
  <2>1. \A f \in File \ since' : Pledged'[f] <= Pledged[f]
    OBVIOUS
  <2>2. since \in SUBSET File /\ since' \in SUBSET File /\ lists \in Nat
    BY DEF TypeOK, StatTypeOK
  <2>3. /\ Sum(WholePledged', File \ since') <= Sum(WholePledged, File \ since)
        /\ Sum(WholePledged', File \ since') \in Nat /\ Sum(WholePledged, File \ since) \in Nat
    BY <2>1, <2>2, PledgeLess
  <2>4. Sum(WholePledged, File \ since) <= lists
    BY DEF DownloadsRead
  <2>. QED
    BY ONLY <2>2, <2>3, <2>4
<1>3. SnapshotHolds'
  <2>. SUFFICES ASSUME File # {}, unseen = {}
                PROVE  Sum(WholePledged', File \ (late \cup admitted')) <= SpaceLimit - remaining
    BY DEF SnapshotHolds, Sum, Units
  <2>1. \A f \in File \ (late \cup admitted') : Pledged'[f] <= Pledged[f]
    OBVIOUS
  <2>2. /\ late \cup admitted \in SUBSET File /\ late \cup admitted' \in SUBSET File
        /\ remaining \in Int
    BY DEF TypeOK, StatTypeOK
  <2>3. /\ Sum(WholePledged', File \ (late \cup admitted'))
             <= Sum(WholePledged, File \ (late \cup admitted))
        /\ Sum(WholePledged', File \ (late \cup admitted')) \in Nat
        /\ Sum(WholePledged, File \ (late \cup admitted)) \in Nat
    <3>1. late \cup admitted \subseteq late \cup admitted'
      OBVIOUS
    <3>. QED
      BY <2>1, <2>2, <3>1, PledgeLess
  <2>4. Sum(WholePledged, File \ (late \cup admitted)) <= SpaceLimit - remaining
    BY DEF SnapshotHolds
  <2>5. \A x, y, z \in Int : x <= y /\ y <= z => x <= z
    OBVIOUS
  <2>6. SpaceLimit - remaining \in Int
    BY <2>2, Sizes
  <2>. QED
    BY <2>3, <2>4, <2>5, <2>6
<1>. QED
  BY <1>1, <1>2, <1>3

(* The downloads are read: what is pledged of a file was in one of the lists, *)
(* whose sizes count in full.                                                *)
LEMMA DownloadsTaken ==
  ASSUME TypeOK, LocalRead, SumDownloads, missed' = {}
  PROVE  Sum(WholePledged, File) <= lists'
<1>. DEFINE A == File \ missed
<1>1. PICK read \in SUBSET File :
        /\ lists' = lists + Sum(Whole, read)
        /\ missed' = {f \in missed \ read : Pledged[f] > 0}
  <2>1. Downloading \subseteq File
    BY DEF Downloading
  <2>. QED
    BY <2>1, Read DEF SumDownloads
<1>2. lists = Sum(Whole, A)
  BY DEF LocalRead, SumDownloads
<1>3. A \in SUBSET File /\ IsFiniteSet(A) /\ IsFiniteSet(read) /\ IsFiniteSet(A \cup read)
  BY SizeAssumption, FS_Subset, FS_Difference, FS_Union
<1>4. \A f \in File : WholePledged[f] # 0 => f \in A \cup read
  <2>1. ASSUME NEW f \in File, WholePledged[f] # 0
        PROVE  f \in A \cup read
    <3>1. Pledged[f] > 0
      BY <2>1, PledgedTypes
    <3>. QED
      BY <1>1, <3>1
  <2>. QED
    BY <2>1
<1>5. Sum(WholePledged, File) <= Sum(Whole, A \cup read)
  <2>1. /\ \A f \in File : WholePledged[f] \in Nat /\ WholePledged[f] <= Whole[f]
        /\ \A f \in A \cup read : Whole[f] \in Nat
    BY <1>1, PledgedTypes, WholeTypes
  <2>. QED
    BY <1>3, <1>4, <2>1, SumMonotone
<1>6. Sum(Whole, A \cup read) <= Sum(Whole, A) + Sum(Whole, read)
  <2>1. \A f \in A \cup read : Whole[f] \in Nat
    BY <1>1, WholeTypes
  <2>. QED
    BY <1>3, <2>1, SumUnion
<1>7. /\ Sum(WholePledged, File) \in Nat /\ Sum(Whole, A \cup read) \in Nat
      /\ Sum(Whole, A) \in Nat /\ Sum(Whole, read) \in Nat
  <2>1. A \cup read \in SUBSET File
    BY <1>1
  <2>. QED
    BY <1>3, <2>1, SpaceTypes, PledgedTypes, SumType
<1>. HIDE DEF A
<1>. QED
  BY ONLY <1>1, <1>2, <1>5, <1>6, <1>7

LEMMA UpdateSpaceInv ==
  ASSUME TypeOK, TypeOK', SpaceInv, UpdateStats
  PROVE  SpaceInv'
<1>. USE DEF SpaceInv
<1>0. Pledged' = Pledged /\ WholePledged' = WholePledged
  BY DEF UpdateStats, GetDiskSpaceUsage, SumLocalFiles, SumDownloads, Publish, Pledged,
         WholePledged, fileVars
<1>1. CASE GetDiskSpaceUsage
  <2>1. UNCHANGED <<remaining, unseen, late, admitted>> /\ phase' = "local"
    BY <1>1 DEF GetDiskSpaceUsage, admitVars
  <2>2. SnapshotHolds' /\ AdmittedFit'
    BY <1>0, <2>1 DEF SnapshotHolds, AdmittedFit, Sum, Units
  <2>. QED
    BY <2>1, <2>2 DEF LocalRead, DownloadsRead
<1>2. CASE SumLocalFiles
  <2>1. UNCHANGED <<remaining, unseen, late, admitted>> /\ phase' = "downloads"
    BY <1>2 DEF SumLocalFiles, admitVars
  <2>2. SnapshotHolds' /\ AdmittedFit'
    BY <1>0, <2>1 DEF SnapshotHolds, AdmittedFit, Sum, Units
  <2>3. PICK read \in SUBSET File : lists' = Sum(Whole, read) /\ missed' = File \ read
    <3>1. listed \subseteq File
      BY DEF TypeOK, FileTypeOK
    <3>. QED
      BY <1>2, <3>1, Read DEF SumLocalFiles
  <2>4. LocalRead'
    <3>1. File \ missed' = read
      BY <2>3
    <3>. QED
      BY <2>3, <3>1 DEF LocalRead, Sum, Units, Whole
  <2>. QED
    BY <2>1, <2>2, <2>4 DEF DownloadsRead
<1>3. CASE SumDownloads
  <2>1. /\ UNCHANGED <<remaining, unseen, late, admitted>> /\ phase' = "publish"
        /\ since' = {}
    BY <1>3 DEF SumDownloads
  <2>2. SnapshotHolds' /\ AdmittedFit'
    BY <1>0, <2>1 DEF SnapshotHolds, AdmittedFit, Sum, Units
  <2>3. DownloadsRead'
    <3>1. File \ since' = File
      BY <2>1
    <3>. QED
      BY <1>0, <1>3, <3>1, DownloadsTaken DEF DownloadsRead, Sum, Units
  <2>. QED
    BY <2>1, <2>2, <2>3 DEF LocalRead
<1>4. CASE Publish
  <2>1. /\ phase = "publish" /\ phase' = "directory" /\ admitted' = {} /\ late' = since
        /\ unseen' = missed /\ remaining' = SpaceLimit - maxUsedSpace
    BY <1>4 DEF Publish
  <2>2. SnapshotHolds'
    <3>. SUFFICES ASSUME missed = {}
                  PROVE  Sum(WholePledged, File \ since) <= SpaceLimit - remaining'
      <4>1. late' \cup admitted' = since
        BY <2>1
      <4>. QED
        BY <1>0, <2>1, <4>1 DEF SnapshotHolds, Sum, Units
    <3>1. Sum(WholePledged, File \ since) <= lists
      BY <2>1 DEF DownloadsRead
    <3>2. lists \in Nat /\ total \in Nat /\ lists <= maxUsedSpace /\ maxUsedSpace \in Nat
      BY DEF TypeOK, StatTypeOK, maxUsedSpace
    <3>3. Sum(WholePledged, File \ since) \in Nat
      <4>1. File \ since \in SUBSET File
        OBVIOUS
      <4>. QED
        BY <4>1, PledgedTypes, SumType
    <3>. QED
      BY <2>1, <3>1, <3>2, <3>3, Sizes
  <2>. QED
    BY <2>1, <2>2 DEF LocalRead, DownloadsRead, AdmittedFit
<1>. QED
  BY <1>1, <1>2, <1>3, <1>4 DEF UpdateStats

LEMMA StepSpaceInv == TypeOK /\ TypeOK' /\ SpaceInv /\ [Next]_vars => SpaceInv'
<1>. SUFFICES ASSUME TypeOK, TypeOK', SpaceInv, [Next]_vars PROVE SpaceInv'
  OBVIOUS
<1>. USE DEF SpaceInv
<1>0. \A f \in File : Size[f] \in Nat /\ disk[f] \in Nat /\ disk[f] <= Size[f]
  BY Sizes DEF TypeOK, FileTypeOK
<1>1. ASSUME NEW f \in File, CheckFileExistAndSize(f)
      PROVE  SpaceInv'
  <2>1. CASE LetIn(f) /\ ~NoRoom(f) /\ UNCHANGED disk
    <3>1. /\ UNCHANGED <<remaining, unseen, late, passVars, disk>>
          /\ admitted' = admitted \cup {f}
          /\ since' = IF phase = "publish" THEN since \cup {f} ELSE since
          /\ stage' = [stage EXCEPT ![f] = "going"]
      BY <1>1, <2>1 DEF CheckFileExistAndSize, LetIn, SetStage
    <3>2. \A x \in File \ {f} : Pledged'[x] <= Pledged[x]
      BY <1>0, <3>1 DEF Pledged, TypeOK, FileTypeOK
    <3>3. LocalRead' /\ DownloadsRead' /\ SnapshotHolds'
      <4>1. {f} \in SUBSET File /\ since \subseteq since'
            /\ (phase = "publish" => {f} \subseteq since')
        BY <3>1
      <4>. QED
        BY <3>1, <3>2, <4>1, OtherSpaceInv
    <3>4. AdmittedFit'
      <4>. DEFINE room == (remaining - Reserve) * Mega
      <4>1. remaining > 0 => Size[f] <= room
        <5>1. room \in Int
          <6>1. \A m, n \in Int : m * n \in Int
            OBVIOUS
          <6>. QED
            BY <6>1, Sizes DEF TypeOK, StatTypeOK
        <5>2. remaining > 0 => ~(Size[f] > room)
          BY <2>1 DEF NoRoom
        <5>. HIDE DEF room
        <5>. QED
          BY <1>0, <5>1, <5>2
      <4>2. room' = room
        BY <3>1
      <4>3. remaining > 0 => \A x \in admitted : Size[x] <= room
        BY DEF AdmittedFit
      <4>. HIDE DEF room
      <4>4. remaining' > 0 => \A x \in admitted' : Size[x] <= room'
        BY <3>1, <4>1, <4>2, <4>3
      <4>. QED
        BY <4>4 DEF AdmittedFit, room
    <3>. QED
      BY <3>3, <3>4
  <2>2. CASE ~(LetIn(f) /\ ~NoRoom(f) /\ UNCHANGED disk)
    <3>1. /\ UNCHANGED <<remaining, unseen, late, passVars, since, admitted>>
          /\ stage' = [stage EXCEPT ![f] = "failed"]
          /\ disk' = disk \/ disk' = [disk EXCEPT ![f] = 0]
      BY <1>1, <2>2 DEF CheckFileExistAndSize, SetStage, admitVars
    <3>2. \A x \in File : Pledged'[x] <= Pledged[x]
      BY <1>0, <3>1 DEF Pledged, TypeOK, FileTypeOK
    <3>3. LocalRead' /\ DownloadsRead' /\ SnapshotHolds'
      <4>1. {} \in SUBSET File /\ admitted' = admitted \cup {} /\ since \subseteq since'
        BY <3>1
      <4>. QED
        BY <3>1, <3>2, <4>1, OtherSpaceInv
    <3>. QED
      BY <3>1, <3>3 DEF AdmittedFit
  <2>. QED
    BY <2>1, <2>2
<1>2. CASE UpdateStats
  BY <1>2, UpdateSpaceInv
<1>3. ASSUME UNCHANGED statVars, \A x \in File : Pledged'[x] <= Pledged[x]
      PROVE  SpaceInv'
  <2>1. UNCHANGED <<remaining, unseen, late, passVars, since, admitted>>
    BY <1>3 DEF statVars, admitVars
  <2>2. LocalRead' /\ DownloadsRead' /\ SnapshotHolds'
    <3>1. {} \in SUBSET File /\ admitted' = admitted \cup {} /\ since \subseteq since'
      BY <2>1
    <3>. QED
      BY <1>3, <2>1, <3>1, OtherSpaceInv
  <2>. QED
    BY <2>1, <2>2 DEF AdmittedFit
<1>. USE DEF Pledged, SetStage, TypeOK, FileTypeOK
<1>4. ASSUME NEW f \in File, Ask(f) \/ NameAndSize(f)
      PROVE  SpaceInv'
  <2>1. UNCHANGED statVars /\ \A x \in File : Pledged'[x] <= Pledged[x]
    BY <1>0, <1>4 DEF Ask, NameAndSize
  <2>. QED
    BY <1>3, <2>1
<1>5. ASSUME NEW f \in File, Receive(f) \/ RemoveDownload(f)
      PROVE  SpaceInv'
  <2>1. UNCHANGED statVars /\ \A x \in File : Pledged'[x] <= Pledged[x]
    BY <1>0, <1>5 DEF Receive, RemoveDownload, minInt64
  <2>. QED
    BY <1>3, <2>1
<1>6. ASSUME NEW f \in File, Reap(f)
      PROVE  SpaceInv'
  <2>1. UNCHANGED statVars /\ \A x \in File : Pledged'[x] <= Pledged[x]
    BY <1>0, <1>6 DEF Reap
  <2>. QED
    BY <1>3, <2>1
<1>7. ASSUME NEW f \in File, IncrementDownloads(f) \/ DecrementDownloads(f)
      PROVE  SpaceInv'
  <2>1. UNCHANGED statVars /\ \A x \in File : Pledged'[x] <= Pledged[x]
    BY <1>0, <1>7 DEF IncrementDownloads, DecrementDownloads, fileVars
  <2>. QED
    BY <1>3, <2>1
<1>8. CASE ScanFiles
  <2>1. UNCHANGED statVars /\ \A x \in File : Pledged'[x] <= Pledged[x]
    BY <1>0, <1>8 DEF ScanFiles
  <2>. QED
    BY <1>3, <2>1
<1>9. CASE removeTorrentFile
  <2>1. PICK g : /\ RemoveSucceeds(g) \/ RemoveFails(g)
                 /\ UNCHANGED <<stage, statVars>>
    BY <1>9 DEF removeTorrentFile
  <2>2. disk' = [disk EXCEPT ![g] = 0] \/ disk' = disk
    BY <2>1 DEF RemoveSucceeds, RemoveFails
  <2>3. UNCHANGED statVars /\ \A x \in File : Pledged'[x] <= Pledged[x]
    BY <1>0, <2>1, <2>2
  <2>. QED
    BY <1>3, <2>3
<1>10. CASE CleanUnused \/ SortByLastDownload \/ CleanIdle \/ CleanEnd
  <2>1. UNCHANGED statVars /\ \A x \in File : Pledged'[x] <= Pledged[x]
    BY <1>0, <1>10 DEF CleanUnused, SortByLastDownload, CleanIdle, CleanEnd, fileVars
  <2>. QED
    BY <1>3, <2>1
<1>11. CASE UNCHANGED vars
  <2>1. UNCHANGED statVars /\ \A x \in File : Pledged'[x] <= Pledged[x]
    BY <1>0, <1>11 DEF vars, fileVars
  <2>. QED
    BY <1>3, <2>1
<1>. QED
  BY <1>1, <1>2, <1>4, <1>5, <1>6, <1>7, <1>8, <1>9, <1>10, <1>11 DEF Next, CleanUpSpace

LEMMA SpaceInvariant == Spec => [](TypeOK /\ SpaceInv)
<1>1. Init => TypeOK /\ SpaceInv
  BY InitTypeOK, InitSpaceInv
<1>2. TypeOK /\ SpaceInv /\ [Next]_vars => (TypeOK /\ SpaceInv)'
  BY StepTypeOK, StepSpaceInv
<1>. QED
  BY <1>1, <1>2, PTL DEF Spec

(* Workers that pass the checks against one snapshot do not see each other:  *)
(* the directory may outgrow the limit, by no more than what remained (less  *)
(* Reserve) for each download after the first, beside those let in between   *)
(* the reading of the downloads and the publication and what whole megabytes *)
(* leave out.                                                                *)
AdmissionsAddUp ==
    File # {} /\ unseen = {} /\ remaining > 0 =>
        Promised <= (SpaceLimit - remaining) * Mega
                      + Cardinality(admitted) * ((remaining - Reserve) * Mega)
                      + Sum(Size, late) + Rounding

LEMMA AddUp == TypeOK /\ SpaceInv => AdmissionsAddUp
<1>. SUFFICES ASSUME TypeOK, SpaceInv, File # {}, unseen = {}, remaining > 0
              PROVE  Promised <= (SpaceLimit - remaining) * Mega
                                   + Cardinality(admitted) * ((remaining - Reserve) * Mega)
                                   + Sum(Size, late) + Rounding
  BY DEF AdmissionsAddUp
<1>. DEFINE room == (remaining - Reserve) * Mega
            rest == File \ (late \cup admitted)
            base == (SpaceLimit - remaining) * Mega
            held == {x \in rest : Pledged[x] > 0}
            others == {f \in File \ admitted : Pledged[f] > 0}
<1>1. /\ admitted \in SUBSET File /\ late \in SUBSET File /\ remaining \in Int
      /\ rest \in SUBSET File
  BY DEF TypeOK, StatTypeOK
<1>2. /\ IsFiniteSet(admitted) /\ Cardinality(admitted) \in Nat
      /\ IsFiniteSet(late) /\ IsFiniteSet(rest) /\ IsFiniteSet(late \cup admitted)
  BY <1>1, SizeAssumption, FS_Subset, FS_CardinalityType, FS_Union
<1>3. \A f \in File : /\ Pledged[f] \in Nat /\ Pledged[f] <= Size[f] /\ Size[f] \in Nat
                      /\ WholePledged[f] \in Nat
  BY PledgedTypes, Sizes
<1>4. /\ room \in Int /\ base \in Int
      /\ \A a, b \in Int : a * b \in Int
  <2>1. \A a, b \in Int : a * b \in Int
    OBVIOUS
  <2>. QED
    BY <1>1, <2>1, Sizes
<1>5. \A f \in admitted : Pledged[f] <= room /\ room \in Nat
  <2>1. \A f \in admitted : Size[f] <= room
    BY DEF SpaceInv, AdmittedFit
  <2>. HIDE DEF room
  <2>. QED
    BY <1>1, <1>3, <1>4, <2>1
<1>6. Sum(Pledged, admitted) <= Cardinality(admitted) * room
  <2>. HIDE DEF room
  <2>1. CASE admitted = {}
    <3>1. Cardinality(admitted) = 0
      BY <2>1, FS_EmptySet
    <3>2. Units(Pledged, admitted) = {}
      BY <2>1 DEF Units
    <3>3. Sum(Pledged, admitted) = 0
      BY <3>2, FS_EmptySet DEF Sum
    <3>4. 0 * room = 0
      BY <1>4
    <3>. QED
      BY <3>1, <3>3, <3>4
  <2>2. CASE admitted # {}
    <3>1. room \in Nat
      BY <1>5, <2>2
    <3>2. Units(Pledged, admitted) \subseteq admitted \X (1 .. room)
      <4>1. ASSUME NEW f \in admitted
            PROVE  1 .. Pledged[f] \subseteq 1 .. room
        BY <1>1, <1>3, <1>5, <3>1
      <4>. QED
        BY <4>1 DEF Units
    <3>3. IsFiniteSet(1 .. room) /\ Cardinality(1 .. room) = room
      BY <3>1, FS_Interval
    <3>4. /\ IsFiniteSet(admitted \X (1 .. room))
          /\ Cardinality(admitted \X (1 .. room)) = Cardinality(admitted) * room
      BY <1>2, <3>3, FS_Product, Zenon
    <3>5. Cardinality(Units(Pledged, admitted)) <= Cardinality(admitted \X (1 .. room))
      BY <3>2, <3>4, FS_Subset
    <3>. QED
      BY <3>4, <3>5 DEF Sum
  <2>. QED
    BY <2>1, <2>2
<1>7. Sum(Pledged, late) <= Sum(Size, late)
  <2>1. \A f \in late : Pledged[f] \in Nat /\ Size[f] \in Nat /\ Pledged[f] <= Size[f]
    BY <1>1, <1>3
  <2>. QED
    BY <1>2, <2>1, SumMonotone
<1>8. Sum(Pledged, File) <= Sum(Pledged, rest) + Sum(Pledged, late \cup admitted)
  <2>1. rest \cup (late \cup admitted) = File
    BY <1>1
  <2>2. \A f \in rest \cup (late \cup admitted) : Pledged[f] \in Nat
    BY <1>3, <2>1
  <2>3. Sum(Pledged, rest \cup (late \cup admitted))
          <= Sum(Pledged, rest) + Sum(Pledged, late \cup admitted)
    BY <1>2, <2>2, SumUnion
  <2>. QED
    BY <2>1, <2>3
<1>9. Sum(Pledged, late \cup admitted) <= Sum(Pledged, late) + Sum(Pledged, admitted)
  <2>1. \A f \in late \cup admitted : Pledged[f] \in Nat
    BY <1>1, <1>3
  <2>. QED
    BY <1>2, <2>1, SumUnion
<1>10. Sum(Pledged, rest) <= Sum(WholePledged, rest) * Mega + Cardinality(held) * (Mega - 1)
  <2>1. \A x \in rest : Pledged[x] \in Nat /\ WholePledged[x] = Pledged[x] \div Mega
    BY <1>1, <1>3 DEF WholePledged
  <2>. HIDE DEF rest
  <2>. QED
    BY <1>2, <2>1, RoundedSum
<1>11. Cardinality(held) * (Mega - 1) <= Rounding /\ Rounding \in Nat
  <2>1. IsFiniteSet(others) /\ IsFiniteSet(File \ admitted)
    <3>1. others \in SUBSET File
      OBVIOUS
    <3>. QED
      BY <3>1, SizeAssumption, FS_Subset, FS_Difference
  <2>2. held \subseteq others
    OBVIOUS
  <2>3. /\ Cardinality(held) <= Cardinality(others)
        /\ Cardinality(held) \in Nat /\ Cardinality(others) \in Nat
    BY <2>1, <2>2, FS_Subset, FS_CardinalityType
  <2>4. \A a, b, c \in Nat : a <= b => a * c <= b * c /\ b * c \in Nat
    OBVIOUS
  <2>5. Mega - 1 \in Nat
    BY Sizes
  <2>6. Cardinality(held) * (Mega - 1) <= Cardinality(others) * (Mega - 1)
        /\ Cardinality(others) * (Mega - 1) \in Nat
    BY <2>3, <2>4, <2>5
  <2>. QED
    BY <2>6 DEF Rounding
<1>12. /\ Sum(Pledged, File) \in Nat /\ Sum(Pledged, rest) \in Nat
       /\ Sum(Pledged, late \cup admitted) \in Nat
       /\ Sum(Pledged, late) \in Nat /\ Sum(Pledged, admitted) \in Nat
       /\ Sum(Size, late) \in Nat /\ Sum(WholePledged, rest) \in Nat
  <2>1. late \cup admitted \in SUBSET File
    BY <1>1
  <2>. QED
    BY <1>1, <1>3, <2>1, SumType
<1>13. Sum(WholePledged, rest) * Mega <= base /\ Sum(WholePledged, rest) * Mega \in Int
  <2>1. Sum(WholePledged, rest) <= SpaceLimit - remaining
    BY DEF SpaceInv, SnapshotHolds
  <2>2. \A a, b \in Int, c \in Nat : a <= b => a * c <= b * c
    OBVIOUS
  <2>3. SpaceLimit - remaining \in Int /\ Mega \in Nat
    BY <1>1, Sizes
  <2>. QED
    BY <1>4, <1>12, <2>1, <2>2, <2>3
<1>14. /\ Cardinality(admitted) * room \in Int
       /\ Cardinality(held) * (Mega - 1) \in Int
  <2>1. Cardinality(held) \in Nat /\ Mega - 1 \in Int
    <3>1. held \in SUBSET File
      BY <1>1
    <3>. QED
      BY <3>1, SizeAssumption, FS_Subset, FS_CardinalityType, Sizes
  <2>. HIDE DEF room, held
  <2>. QED
    BY <1>2, <1>4, <2>1
<1>. DEFINE n1 == Cardinality(admitted) * room
            n2 == Cardinality(held) * (Mega - 1)
            n3 == Sum(WholePledged, rest) * Mega
<1>15. n1 \in Int /\ n2 \in Int /\ n3 \in Int
  BY <1>13, <1>14
<1>16. /\ Sum(Pledged, admitted) <= n1 /\ Sum(Pledged, rest) <= n3 + n2
       /\ n3 <= base /\ n2 <= Rounding
  BY <1>6, <1>10, <1>11, <1>13
<1>. HIDE DEF base, rest, n1, n2, n3
<1>17. Sum(Pledged, File) <= base + n1 + Sum(Size, late) + Rounding
  BY ONLY <1>4, <1>7, <1>8, <1>9, <1>11, <1>12, <1>15, <1>16
<1>. QED
  BY <1>17 DEF Promised, base, n1

THEOREM Overrun == Spec => []AdmissionsAddUp
BY AddUp, SpaceInvariant, PTL

(* The first download that is let in after a snapshot which missed no file   *)
(* keeps the directory below the limit, less Reserve, but for the parts of   *)
(* megabytes and for what was let in while the snapshot was taken            *)
(* (CheckFileExistAndSize against UpdateStats).                              *)
THEOREM FirstAdmission == Spec => FirstAdmissionFits
<1>. DEFINE First == admitted = {} /\ admitted' # {} /\ unseen = {} /\ remaining > 0
            Bound == (SpaceLimit - Reserve) * Mega + Sum(Size, late) + Rounding'
<1>1. TypeOK /\ AdmissionsAddUp' /\ [Next]_vars => [First => Promised' <= Bound]_vars
  <2>. SUFFICES ASSUME TypeOK, AdmissionsAddUp', Next, First
                PROVE  Promised' <= Bound
    BY DEF vars, statVars, admitVars
  <2>1. PICK f \in File : CheckFileExistAndSize(f)
    BY DEF Next, CleanUpSpace, UpdateStats, Ask, NameAndSize, Receive, Reap,
           IncrementDownloads, DecrementDownloads, RemoveDownload, ScanFiles,
           GetDiskSpaceUsage, SumLocalFiles, SumDownloads, Publish, CleanUnused,
           SortByLastDownload, CleanIdle, removeTorrentFile, CleanEnd, statVars, admitVars
  <2>2. admitted' = {f} /\ UNCHANGED <<remaining, unseen, late>>
    BY <2>1 DEF CheckFileExistAndSize, LetIn, admitVars
  <2>3. File # {}
    OBVIOUS
  <2>4. Cardinality(admitted') = 1
    BY <2>2, FS_Singleton
  <2>5. Promised' <= (SpaceLimit - remaining) * Mega + 1 * ((remaining - Reserve) * Mega)
                       + Sum(Size, late) + Rounding'
    BY <2>2, <2>3, <2>4 DEF AdmissionsAddUp, Sum, Units
  <2>6. (SpaceLimit - remaining) * Mega + 1 * ((remaining - Reserve) * Mega)
          = (SpaceLimit - Reserve) * Mega
    <3>1. \A a, b, c, m \in Int : (a - b) * m + 1 * ((b - c) * m) = (a - c) * m
      OBVIOUS
    <3>2. remaining \in Int
      BY DEF TypeOK, StatTypeOK
    <3>. QED
      BY <3>1, <3>2, Sizes
  <2>. QED
    BY <2>5, <2>6
<1>2. Spec => [][First => Promised' <= Bound]_vars
  BY <1>1, TypeCorrect, Overrun, PTL DEF Spec
<1>. QED
  BY <1>2 DEF FirstAdmissionFits

-----------------------------------------------------------------------------
(* The order in which CleanUpSpace takes the entries.                        *)

(* A download that goes on is not in the list: its file is not what an entry *)
(* of the list counts.                                                       *)
GoingUnlisted == \A f \in File : stage[f] = "going" => f \notin listed

(* The entries that had a download at the second sort still have it, and     *)
(* only follow entries that had none.                                        *)
KnownUsed == known \subseteq ToSet(usage) /\ (cleaner # "idle" => known = {})
KnownLast ==
    \A i, j \in DOMAIN toVisit : i < j /\ toVisit[i] \in known => toVisit[j] \in known

(* While the second loop goes on, an entry without a download is before it,  *)
(* or its file is gone.                                                      *)
UnusedAhead ==
    cleaner = "idle" /\ ~Enough =>
        \A g \in listed : Unused(g) /\ disk[g] > 0 => g \in ToSet(toVisit) \cup doomed

(* The cleaner goes by a snapshot, and what a snapshot counts is at most the *)
(* size of every file, twice, but for what whole megabytes leave out.        *)
MeasuresBounded ==
    /\ total <= Sum(Whole, File) + Cardinality(File)
    /\ lists <= 2 * Sum(Whole, File)
    /\ phase = "downloads" => lists <= Sum(Whole, File)

RemainingBounded == cleaner # "off" => remaining >= 0 - MostUsed

DoomedOne == \A f, g \in doomed : f = g

CleanInv ==
    GoingUnlisted /\ KnownUsed /\ KnownLast /\ UnusedAhead /\ RemainingBounded /\ DoomedOne

LEMMA InitCleanInv == Init => CleanInv
BY DEF Init, CleanInv, GoingUnlisted, KnownUsed, KnownLast, UnusedAhead, RemainingBounded,
       DoomedOne

(* Steps outside UpdateStats and CleanUpSpace.                               *)
LEMMA OtherCleanInv ==
  ASSUME TypeOK, CleanInv,
         UNCHANGED <<cleaner, toVisit, doomed, freedSpace, known, remaining, listed>>,
         GoingUnlisted', ToSet(usage) \subseteq ToSet(usage'),
         \A g \in listed : disk'[g] <= disk[g], TypeOK'
  PROVE  CleanInv'
<1>1. KnownUsed' /\ KnownLast' /\ RemainingBounded' /\ DoomedOne'
  BY DEF CleanInv, KnownUsed, KnownLast, RemainingBounded, DoomedOne, MostUsed, ToSet, Sum, Units, Whole
<1>2. UnusedAhead'
  <2>. SUFFICES ASSUME cleaner = "idle", ~Enough, NEW g \in listed,
                       g \notin ToSet(usage'), disk'[g] > 0
                PROVE  g \in ToSet(toVisit) \cup doomed
    BY DEF UnusedAhead, Unused, Enough, lruActivationThreshold, ToSet
  <2>1. g \notin ToSet(usage) /\ disk[g] > 0
    BY DEF TypeOK, FileTypeOK
  <2>. QED
    BY <2>1 DEF CleanInv, UnusedAhead, Unused
<1>. QED
  BY <1>1, <1>2 DEF CleanInv

LEMMA DownloadCleanInv ==
  ASSUME TypeOK, TypeOK', CleanInv, NEW f \in File,
         \/ Ask(f) \/ NameAndSize(f) \/ CheckFileExistAndSize(f)
         \/ Receive(f) \/ Reap(f) \/ RemoveDownload(f)
  PROVE  CleanInv'
<1>. USE DEF SetStage
<1>0. /\ disk \in [File -> Nat] /\ stage \in [File -> Stages] /\ listed \subseteq File
      /\ GoingUnlisted
  BY DEF TypeOK, FileTypeOK, CleanInv
<1>1. UNCHANGED <<cleaner, toVisit, doomed, freedSpace, known, remaining, listed, usage>>
  BY DEF Ask, NameAndSize, CheckFileExistAndSize, Receive, Reap, RemoveDownload,
         useVars, cleanVars, statVars
<1>2. GoingUnlisted' /\ \A g \in listed : disk'[g] <= disk[g]
  <2>1. CASE Ask(f) \/ NameAndSize(f) \/ Reap(f)
    BY <1>0, <1>1, <2>1 DEF Ask, NameAndSize, Reap, GoingUnlisted
  <2>2. CASE CheckFileExistAndSize(f)
    BY <1>0, <1>1, <2>2 DEF CheckFileExistAndSize, LetIn, GoingUnlisted
  <2>3. CASE Receive(f)
    BY <1>0, <1>1, <2>3, Sizes DEF Receive, GoingUnlisted
  <2>4. CASE RemoveDownload(f)
    BY <1>0, <1>1, <2>4 DEF RemoveDownload, GoingUnlisted
  <2>. QED
    BY <2>1, <2>2, <2>3, <2>4
<1>. QED
  BY <1>1, <1>2, OtherCleanInv

LEMMA UseCleanInv ==
  ASSUME TypeOK, TypeOK', CleanInv, NEW f \in File,
         IncrementDownloads(f) \/ DecrementDownloads(f)
  PROVE  CleanInv'
<1>1. UNCHANGED <<cleaner, toVisit, doomed, freedSpace, known, remaining, listed, disk, stage>>
  BY DEF IncrementDownloads, DecrementDownloads, fileVars, cleanVars, statVars
<1>2. ToSet(usage) \subseteq ToSet(usage')
  <2>1. CASE IncrementDownloads(f)
    <3>1. PICK p \in Kept(usage, File \ {f}) : usage' = Append(p, f)
      BY <2>1 DEF IncrementDownloads
    <3>2. usage \in Seq(File)
      BY DEF TypeOK, UseTypeOK
    <3>3. /\ p \in Seq(File) /\ IsInjective(p)
          /\ ToSet(p) = ToSet(usage) \cap (File \ {f})
      BY <3>2, SizeAssumption, KeptOfSequence
    <3>4. ToSet(usage') = ToSet(p) \cup {f}
      BY <3>1, <3>3, AppendOnce
    <3>5. ToSet(usage) \subseteq File
      BY <3>2 DEF ToSet
    <3>. QED
      BY <3>3, <3>4, <3>5
  <2>2. CASE DecrementDownloads(f)
    BY <2>2 DEF DecrementDownloads
  <2>. QED
    BY <2>1, <2>2
<1>3. GoingUnlisted' /\ \A g \in listed : disk'[g] <= disk[g]
  BY <1>1 DEF CleanInv, GoingUnlisted, TypeOK, FileTypeOK
<1>. QED
  BY <1>1, <1>2, <1>3, OtherCleanInv

LEMMA ScanCleanInv ==
  ASSUME TypeOK, TypeOK', CleanInv, ScanFiles
  PROVE  CleanInv'
<1>1. UNCHANGED <<cleaner, toVisit, doomed, known, stage>> /\ cleaner = "off"
  BY DEF ScanFiles, cleanVars
<1>2. GoingUnlisted'
  BY <1>1 DEF CleanInv, GoingUnlisted, ScanFiles, LocalFilesNow, Found
<1>3. KnownUsed' /\ KnownLast' /\ UnusedAhead' /\ RemainingBounded' /\ DoomedOne'
  BY <1>1 DEF CleanInv, KnownUsed, KnownLast, UnusedAhead, RemainingBounded, DoomedOne
<1>. QED
  BY <1>2, <1>3 DEF CleanInv

LEMMA FileCount ==
  /\ Sum(Whole, File) \in Nat /\ Cardinality(File) \in Nat /\ MostUsed \in Nat
  /\ \A S \in SUBSET File : Sum(Whole, S) \in Nat /\ Sum(Whole, S) <= Sum(Whole, File)
<1>1. \A S \in SUBSET File : IsFiniteSet(S) /\ Sum(Whole, S) \in Nat
  BY SizeAssumption, FS_Subset, WholeTypes, UnitsFinite
<1>2. \A S \in SUBSET File : Sum(Whole, S) <= Sum(Whole, File)
  BY <1>1, SizeAssumption, WholeTypes, SumMonotone
<1>3. Sum(Whole, File) \in Nat /\ Cardinality(File) \in Nat
  BY <1>1, SizeAssumption, FS_CardinalityType
<1>. QED
  BY <1>1, <1>2, <1>3 DEF MostUsed

LEMMA StepMeasures == TypeOK /\ MeasuresBounded /\ [Next]_vars => MeasuresBounded'
<1>. SUFFICES ASSUME TypeOK, MeasuresBounded, [Next]_vars PROVE MeasuresBounded'
  OBVIOUS
<1>. DEFINE W == Sum(Whole, File)
<1>0. W' = W /\ W \in Nat /\ Cardinality(File) \in Nat /\ total \in Nat /\ lists \in Nat
  BY FileCount DEF Sum, Units, Whole, TypeOK, StatTypeOK
<1>1. CASE GetDiskSpaceUsage
  <2>1. \A f \in File : disk[f] \in Nat /\ disk[f] <= Size[f] /\ Size[f] \in Nat
    BY Sizes DEF TypeOK, FileTypeOK
  <2>2. Sum(disk, File) <= Sum(Size, File) /\ Sum(disk, File) \in Nat
    BY <2>1, SizeAssumption, SumMonotone, UnitsFinite
  <2>. DEFINE held == {x \in File : Size[x] > 0}
  <2>3. Sum(Size, File) <= W * Mega + Cardinality(held) * (Mega - 1)
    <3>1. \A x \in File : Whole[x] = Size[x] \div Mega
      BY DEF Whole
    <3>. QED
      BY <2>1, <3>1, SizeAssumption, RoundedSum
  <2>4. held = File
    BY Sizes
  <2>5. Sum(Size, File) \in Nat
    BY <2>1, SizeAssumption, UnitsFinite
  <2>. DEFINE c == Cardinality(File)
              t == Sum(disk, File)
  <2>6. t <= W * Mega + c * (Mega - 1)
    <3>1. \A a, b, d \in Int : a <= b /\ b <= d => a <= d
      OBVIOUS
    <3>2. W * Mega + c * (Mega - 1) \in Int
      <4>1. \A a, b \in Int : a * b \in Int
        OBVIOUS
      <4>2. W * Mega \in Int /\ c * (Mega - 1) \in Int
        <5>1. Mega \in Int /\ Mega - 1 \in Int
          BY Sizes
        <5>. HIDE DEF W, c
        <5>. QED
          BY <1>0, <4>1, <5>1 DEF c
      <4>. HIDE DEF W, c
      <4>. QED
        BY <4>2
    <3>. QED
      BY <2>2, <2>3, <2>4, <2>5, <3>1, <3>2
  <2>7. t \div Mega <= W + c
    <3>1. t \div Mega \in Nat /\ (t \div Mega) * Mega <= t
      BY <2>2, InMegabytes
    <3>2. \A q, w, d \in Nat, m \in Nat \ {0} : q * m <= w * m + d * (m - 1) => q <= w + d
      <4>. SUFFICES ASSUME NEW q \in Nat, NEW w \in Nat, NEW d \in Nat, NEW m \in Nat \ {0},
                           q * m <= w * m + d * (m - 1), q >= w + d + 1
                    PROVE  FALSE
        OBVIOUS
      <4>1. q * m >= (w + d + 1) * m
        OBVIOUS
      <4>2. (w + d + 1) * m = w * m + d * (m - 1) + d + m
        OBVIOUS
      <4>. QED
        BY <4>1, <4>2
    <3>3. (t \div Mega) * Mega <= W * Mega + c * (Mega - 1)
      <4>1. \A a, b, d \in Int : a <= b /\ b <= d => a <= d
        OBVIOUS
      <4>2. (t \div Mega) * Mega \in Int /\ t \in Int /\ W * Mega + c * (Mega - 1) \in Int
        <5>1. \A a, b \in Int : a * b \in Int
          OBVIOUS
        <5>2. Mega \in Int /\ Mega - 1 \in Int
          BY Sizes
        <5>3. W * Mega \in Int /\ c * (Mega - 1) \in Int /\ (t \div Mega) * Mega \in Int
          <6>. HIDE DEF W, c, t
          <6>. QED
            BY <1>0, <3>1, <5>1, <5>2 DEF c
        <5>. HIDE DEF W, c, t
        <5>. QED
          BY <2>2, <5>3 DEF t
      <4>. HIDE DEF W, c, t
      <4>. QED
        BY <2>6, <3>1, <4>1, <4>2
    <3>. HIDE DEF W, c, t
    <3>. QED
      BY <1>0, <3>1, <3>2, <3>3, Sizes DEF c
  <2>8. total' = 0 \/ total' = t \div Mega
    BY <1>1 DEF GetDiskSpaceUsage
  <2>9. lists' = lists /\ phase' = "local"
    BY <1>1 DEF GetDiskSpaceUsage
  <2>. QED
    BY <1>0, <2>7, <2>8, <2>9 DEF MeasuresBounded
<1>2. CASE SumLocalFiles
  <2>1. PICK read \in SUBSET File : lists' = Sum(Whole, read)
    <3>1. listed \subseteq File
      BY DEF TypeOK, FileTypeOK
    <3>. QED
      BY <1>2, <3>1, Read DEF SumLocalFiles
  <2>2. total' = total
    BY <1>2 DEF SumLocalFiles
  <2>3. lists' \in Nat /\ lists' <= W
    BY <2>1, FileCount
  <2>. QED
    BY <1>0, <2>2, <2>3 DEF MeasuresBounded
<1>3. CASE SumDownloads
  <2>1. PICK read \in SUBSET File : lists' = lists + Sum(Whole, read)
    <3>1. Downloading \subseteq File
      BY DEF Downloading
    <3>. QED
      BY <1>3, <3>1, Read DEF SumDownloads
  <2>2. total' = total /\ phase = "downloads" /\ phase' = "publish"
    BY <1>3 DEF SumDownloads
  <2>3. Sum(Whole, read) \in Nat /\ Sum(Whole, read) <= W
    BY FileCount
  <2>. QED
    BY <1>0, <2>1, <2>2, <2>3 DEF MeasuresBounded
<1>4. CASE Publish
  <2>1. total' = 0 /\ lists' = 0 /\ phase' = "directory"
    BY <1>4 DEF Publish
  <2>. QED
    BY <1>0, <2>1 DEF MeasuresBounded
<1>5. CASE UNCHANGED <<phase, total, lists>>
  BY <1>0, <1>5 DEF MeasuresBounded
<1>6. CASE ~UpdateStats
  <2>1. UNCHANGED <<phase, total, lists>>
    BY <1>6 DEF Next, vars, statVars, passVars, CleanUpSpace, Ask, NameAndSize,
           CheckFileExistAndSize, Receive, Reap, IncrementDownloads, DecrementDownloads,
           RemoveDownload, ScanFiles, CleanUnused, SortByLastDownload, CleanIdle,
           removeTorrentFile, CleanEnd
  <2>. QED
    BY <1>5, <2>1
<1>. QED
  BY <1>1, <1>2, <1>3, <1>4, <1>6 DEF UpdateStats

LEMMA UpdateCleanInv ==
  ASSUME TypeOK, TypeOK', CleanInv, MeasuresBounded, UpdateStats
  PROVE  CleanInv'
<1>1. /\ UNCHANGED <<disk, stage, listed, usage, doomed, known>>
      /\ UNCHANGED <<cleaner, toVisit, remaining>> \/ Publish
      /\ UNCHANGED freedSpace
  BY DEF UpdateStats, GetDiskSpaceUsage, SumLocalFiles, SumDownloads, Publish, fileVars,
         useVars, cleanVars
<1>2. cleaner = "off" /\ cleaner' # "idle"
  <2>1. cleaner = "off"
    BY DEF UpdateStats, GetDiskSpaceUsage, SumLocalFiles, SumDownloads, Publish, TypeOK,
           CleanTypeOK
  <2>. QED
    BY <1>1, <2>1 DEF Publish
<1>3. known = {} /\ known' = {}
  BY <1>1, <1>2 DEF CleanInv, KnownUsed
<1>4. cleaner' # "off" => remaining' >= 0 - MostUsed
  <2>. SUFFICES ASSUME cleaner' # "off"
                PROVE  remaining' >= 0 - MostUsed
    OBVIOUS
  <2>1. remaining' = SpaceLimit - maxUsedSpace
    BY <1>1, <1>2 DEF Publish
  <2>2. maxUsedSpace \in Nat /\ maxUsedSpace <= MostUsed
    BY FileCount, SpaceTypes DEF MeasuresBounded, maxUsedSpace, MostUsed, TypeOK, StatTypeOK
  <2>. QED
    BY <2>1, <2>2, FileCount, Sizes
<1>5. GoingUnlisted'
  BY <1>1 DEF CleanInv, GoingUnlisted
<1>6. KnownUsed' /\ KnownLast' /\ UnusedAhead' /\ DoomedOne'
  BY <1>1, <1>2, <1>3 DEF CleanInv, KnownUsed, KnownLast, UnusedAhead, DoomedOne
<1>7. RemainingBounded'
  BY <1>4 DEF RemainingBounded, MostUsed, Sum, Units, Whole
<1>. QED
  BY <1>5, <1>6, <1>7 DEF CleanInv

LEMMA CleanUnusedCleanInv ==
  ASSUME TypeOK, TypeOK', CleanInv, CleanUnused
  PROVE  CleanInv'
<1>1. /\ UNCHANGED <<stage, listed, usage, known, remaining>>
      /\ cleaner = "unused" /\ cleaner' = "unused"
      /\ doomed' = {Head(toVisit)} \/ doomed' = doomed
  BY DEF CleanUnused, fileVars, useVars, statVars
<1>2. known' = {}
  BY <1>1 DEF CleanInv, KnownUsed
<1>. QED
  BY <1>1, <1>2
  DEF CleanInv, GoingUnlisted, KnownUsed, KnownLast, UnusedAhead, RemainingBounded, DoomedOne,
      MostUsed, Sum, Units, Whole

LEMMA SortCleanInv ==
  ASSUME TypeOK, TypeOK', CleanInv, SortByLastDownload
  PROVE  CleanInv'
<1>1. /\ UNCHANGED <<disk, stage, listed, usage, remaining, doomed>>
      /\ cleaner # "off" /\ cleaner' = "idle" /\ known' = ToSet(usage)
  BY DEF SortByLastDownload, fileVars, useVars, statVars
<1>2. usage \in Seq(File) /\ ToSet(usage) \subseteq listed /\ listed \subseteq File
  BY DEF TypeOK, UseTypeOK, FileTypeOK
<1>3. PICK p \in SetToSeqs(listed \ ToSet(usage)) : toVisit' = p \o usage
  BY DEF SortByLastDownload, ByLastDownload
<1>4. p \in Seq(File) /\ ToSet(p) = listed \ ToSet(usage)
  <2>1. IsFiniteSet(listed \ ToSet(usage))
    BY <1>2, SizeAssumption, FS_Subset
  <2>. QED
    BY <1>2, <2>1, OrderOfSet
<1>5. /\ ToSet(toVisit') = listed
      /\ DOMAIN toVisit' = 1 .. Len(p) + Len(usage) /\ Len(p) \in Nat /\ Len(usage) \in Nat
      /\ \A i \in DOMAIN toVisit' :
            IF i <= Len(p) THEN toVisit'[i] \in ToSet(p) ELSE toVisit'[i] \in ToSet(usage)
  <2>1. /\ ToSet(p \o usage) = ToSet(p) \cup ToSet(usage)
        /\ DOMAIN (p \o usage) = 1 .. Len(p) + Len(usage)
        /\ Len(p) \in Nat /\ Len(usage) \in Nat
        /\ \A i \in DOMAIN (p \o usage) :
              IF i <= Len(p) THEN (p \o usage)[i] \in ToSet(p)
                             ELSE (p \o usage)[i] \in ToSet(usage)
    BY <1>2, <1>4, JoinOfSequences
  <2>2. ToSet(p) \cup ToSet(usage) = listed
    BY <1>2, <1>4
  <2>. QED
    BY ONLY <1>3, <2>1, <2>2
<1>6. KnownLast'
  <2>. SUFFICES ASSUME NEW i \in DOMAIN toVisit', NEW j \in DOMAIN toVisit', i < j,
                       toVisit'[i] \in ToSet(usage)
                PROVE  toVisit'[j] \in ToSet(usage)
    BY <1>1 DEF KnownLast
  <2>1. ~(i <= Len(p))
    BY <1>4, <1>5
  <2>2. ~(j <= Len(p))
    BY <1>5, <2>1
  <2>. QED
    BY <1>5, <2>2
<1>7. KnownUsed' /\ UnusedAhead'
  BY <1>1, <1>5 DEF KnownUsed, UnusedAhead, ToSet
<1>8. GoingUnlisted' /\ RemainingBounded' /\ DoomedOne'
  BY <1>1 DEF CleanInv, GoingUnlisted, RemainingBounded, DoomedOne, MostUsed, Sum, Units, Whole
<1>. QED
  BY <1>6, <1>7, <1>8 DEF CleanInv

LEMMA CleanIdleCleanInv ==
  ASSUME TypeOK, TypeOK', CleanInv, CleanIdle
  PROVE  CleanInv'
<1>. DEFINE f == Head(toVisit)
<1>1. /\ UNCHANGED <<disk, stage, listed, usage, busy, remaining, freedSpace, known, cleaner>>
      /\ cleaner = "idle" /\ doomed = {} /\ toVisit # <<>> /\ toVisit' = Tail(toVisit)
      /\ doomed' = IF f \in busy THEN {} ELSE {f}
      /\ ~Enough
  BY DEF CleanIdle, ActiveDownloads, fileVars, useVars, statVars
<1>2. toVisit \in Seq(File) /\ busy \subseteq ToSet(usage)
  BY DEF TypeOK, CleanTypeOK, UseTypeOK
<1>3. /\ DOMAIN toVisit = 1 .. Len(toVisit) /\ DOMAIN toVisit' = 1 .. Len(toVisit) - 1
      /\ Len(toVisit) \in Nat \ {0}
      /\ \A i \in DOMAIN toVisit' : i + 1 \in DOMAIN toVisit /\ toVisit'[i] = toVisit[i + 1]
      /\ ToSet(toVisit) = ToSet(toVisit') \cup {f}
  BY <1>1, <1>2, TailOfSequence
<1>. HIDE DEF f
<1>4. KnownLast'
  <2>. SUFFICES ASSUME NEW i \in DOMAIN toVisit', NEW j \in DOMAIN toVisit', i < j,
                       toVisit'[i] \in known
                PROVE  toVisit'[j] \in known
    BY <1>1 DEF KnownLast
  <2>1. /\ i + 1 \in DOMAIN toVisit /\ j + 1 \in DOMAIN toVisit /\ i + 1 < j + 1
        /\ toVisit[i + 1] \in known
    BY <1>3
  <2>2. toVisit[j + 1] \in known
    BY <2>1 DEF CleanInv, KnownLast
  <2>. QED
    BY <1>3, <2>2
<1>5. UnusedAhead'
  <2>. SUFFICES ASSUME NEW g \in listed, g \notin ToSet(usage), disk[g] > 0
                PROVE  g \in ToSet(toVisit') \cup doomed'
    BY <1>1 DEF UnusedAhead, Unused, ToSet
  <2>1. g \in ToSet(toVisit)
    BY <1>1 DEF CleanInv, UnusedAhead, Unused
  <2>. QED
    BY <1>1, <1>2, <1>3, <2>1
<1>6. GoingUnlisted' /\ KnownUsed' /\ RemainingBounded' /\ DoomedOne'
  BY <1>1
  DEF CleanInv, GoingUnlisted, KnownUsed, RemainingBounded, DoomedOne, MostUsed, Sum, Units, Whole, ToSet
<1>. QED
  BY <1>4, <1>5, <1>6 DEF CleanInv

(* The only step that needs BytesEndTheLoop: an entry that stays, because    *)
(* its file could not be removed, ends the loop.                             *)
LEMMA RemoveCleanInv ==
  ASSUME BytesEndTheLoop, TypeOK, TypeOK', CleanInv, removeTorrentFile
  PROVE  CleanInv'
<1>1. PICK f \in doomed :
        /\ \/ RemoveSucceeds(f) /\ UNCHANGED freedSpace
           \/ /\ RemoveFails(f)
              /\ freedSpace' = freedSpace + (IF cleaner = "idle" THEN Size[f] ELSE 0)
        /\ doomed' = {}
        /\ UNCHANGED <<stage, listed, useVars, cleaner, toVisit, known, statVars, starts>>
  BY DEF removeTorrentFile
<1>2. /\ UNCHANGED <<stage, listed, usage, cleaner, toVisit, known, remaining>>
      /\ f \in File /\ disk \in [File -> Nat] /\ freedSpace \in Nat /\ remaining \in Int
      /\ listed \subseteq File
  BY <1>1 DEF useVars, statVars, TypeOK, FileTypeOK, CleanTypeOK, StatTypeOK
<1>3. UnusedAhead'
  <2>. SUFFICES ASSUME cleaner = "idle", ~Enough', NEW g \in listed, g \notin ToSet(usage),
                       disk'[g] > 0
                PROVE  g \in ToSet(toVisit)
    BY <1>1, <1>2 DEF UnusedAhead, Unused, ToSet
  <2>3. cleaner # "off"
    OBVIOUS
  <2>1. CASE RemoveSucceeds(f) /\ UNCHANGED freedSpace
    <3>1. g # f /\ disk[g] > 0
      BY <1>2, <2>1 DEF RemoveSucceeds
    <3>2. ~Enough
      BY <1>2, <2>1 DEF Enough, lruActivationThreshold
    <3>3. doomed \subseteq {f}
      BY <1>1 DEF CleanInv, DoomedOne
    <3>. QED
      BY <3>1, <3>2, <3>3 DEF CleanInv, UnusedAhead, Unused
  <2>2. CASE RemoveFails(f) /\ freedSpace' = freedSpace + Size[f]
    <3>1. Size[f] \in Nat /\ Size[f] >= LruCap + MostUsed
      BY <1>2, Sizes DEF BytesEndTheLoop
    <3>2. remaining >= 0 - MostUsed
      BY <2>3 DEF CleanInv, RemainingBounded
    <3>3. MostUsed \in Nat
      BY FileCount
    <3>4. remaining + freedSpace' >= LruCap
      BY <1>2, <2>2, <3>1, <3>2, <3>3, Sizes
    <3>5. Enough'
      <4>1. lruActivationThreshold <= LruCap /\ lruActivationThreshold \in Nat
        BY SpaceTypes
      <4>2. freedSpace' \in Nat
        BY <1>2, <2>2, <3>1
      <4>3. remaining' + freedSpace' >= lruActivationThreshold
        <5>1. \A a, b, c \in Int : a >= b /\ c <= b => a >= c
          OBVIOUS
        <5>2. /\ remaining + freedSpace' \in Int /\ LruCap \in Int
              /\ lruActivationThreshold \in Int
          BY <1>2, <4>1, <4>2, Sizes
        <5>3. remaining + freedSpace' >= lruActivationThreshold
          BY <3>4, <4>1, <5>1, <5>2, Zenon
        <5>4. remaining' = remaining
          BY <1>2
        <5>. QED
          BY <5>3, <5>4, Zenon
      <4>. QED
        BY <4>3 DEF Enough, lruActivationThreshold
    <3>. QED
      BY <3>5
  <2>. QED
    BY <1>1, <2>1, <2>2
<1>4. GoingUnlisted' /\ KnownUsed' /\ KnownLast' /\ RemainingBounded' /\ DoomedOne'
  BY <1>1, <1>2
  DEF CleanInv, GoingUnlisted, KnownUsed, KnownLast, RemainingBounded, DoomedOne, MostUsed, Sum, Units, Whole, ToSet
<1>. QED
  BY <1>3, <1>4 DEF CleanInv

LEMMA CleanEndCleanInv ==
  ASSUME TypeOK, CleanInv, CleanEnd
  PROVE  CleanInv'
BY DEF CleanEnd, CleanInv, GoingUnlisted, KnownUsed, KnownLast, UnusedAhead, RemainingBounded,
       DoomedOne, fileVars

LEMMA StepCleanInv ==
  ASSUME BytesEndTheLoop, TypeOK, TypeOK', CleanInv, MeasuresBounded, [Next]_vars
  PROVE  CleanInv'
<1>1. ASSUME NEW f \in File,
             \/ Ask(f) \/ NameAndSize(f) \/ CheckFileExistAndSize(f)
             \/ Receive(f) \/ Reap(f) \/ RemoveDownload(f)
      PROVE  CleanInv'
  BY <1>1, DownloadCleanInv
<1>2. ASSUME NEW f \in File, IncrementDownloads(f) \/ DecrementDownloads(f)
      PROVE  CleanInv'
  BY <1>2, UseCleanInv
<1>3. CASE ScanFiles
  BY <1>3, ScanCleanInv
<1>4. CASE UpdateStats
  BY <1>4, UpdateCleanInv
<1>5. CASE CleanUpSpace
  BY <1>5, CleanUnusedCleanInv, SortCleanInv, CleanIdleCleanInv, RemoveCleanInv, CleanEndCleanInv
  DEF CleanUpSpace
<1>6. CASE UNCHANGED vars
  <2>1. /\ UNCHANGED <<cleaner, toVisit, doomed, freedSpace, known, remaining, listed>>
        /\ UNCHANGED <<usage, disk, stage>>
    BY <1>6 DEF vars, fileVars, useVars, cleanVars, statVars
  <2>2. GoingUnlisted' /\ \A g \in listed : disk'[g] <= disk[g]
    BY <2>1 DEF CleanInv, GoingUnlisted, TypeOK, FileTypeOK
  <2>. QED
    BY <2>1, <2>2, OtherCleanInv
<1>. QED
  BY <1>1, <1>2, <1>3, <1>4, <1>5, <1>6 DEF Next

(* CleanUpSpace chooses no file that somebody is downloading, and takes the  *)
(* entries that never had a download first (its two loops).                  *)
THEOREM UnusedFirst ==
  ASSUME BytesEndTheLoop
  PROVE  Spec => UnusedGoFirst
<1>. DEFINE Chosen ==
       \A f \in doomed' \ doomed :
          /\ f \notin busy
          /\ f \in known => \A g \in listed : Unused(g) => disk[g] = 0
<1>1. Init => CleanInv /\ MeasuresBounded
  <2>1. Init => MeasuresBounded
    BY FileCount DEF Init, MeasuresBounded
  <2>. QED
    BY <2>1, InitCleanInv
<1>2. TypeOK /\ TypeOK' /\ CleanInv /\ MeasuresBounded /\ [Next]_vars
        => CleanInv' /\ MeasuresBounded'
  BY StepCleanInv, StepMeasures
<1>3. TypeOK /\ CleanInv /\ [Next]_vars => [Chosen]_vars
  <2>. SUFFICES ASSUME TypeOK, CleanInv, Next, NEW f \in doomed' \ doomed
                PROVE  /\ f \notin busy
                       /\ f \in known => \A g \in listed : Unused(g) => disk[g] = 0
    OBVIOUS
  <2>1. CleanUnused \/ CleanIdle
    BY DEF Next, CleanUpSpace, Ask, NameAndSize, CheckFileExistAndSize, Receive, Reap,
           IncrementDownloads, DecrementDownloads, RemoveDownload, ScanFiles, UpdateStats,
           GetDiskSpaceUsage, SumLocalFiles, SumDownloads, Publish, SortByLastDownload, removeTorrentFile, CleanEnd, cleanVars
  <2>2. busy \subseteq ToSet(usage)
    BY DEF TypeOK, UseTypeOK
  <2>3. CASE CleanUnused
    <3>1. f = Head(toVisit) /\ Unused(f) /\ cleaner = "unused"
      BY <2>3 DEF CleanUnused
    <3>2. known = {}
      BY <3>1 DEF CleanInv, KnownUsed
    <3>. QED
      BY <2>2, <3>1, <3>2 DEF Unused
  <2>4. CASE CleanIdle
    <3>1. /\ f = Head(toVisit) /\ f \notin busy /\ cleaner = "idle" /\ ~Enough
          /\ toVisit # <<>> /\ doomed = {}
      BY <2>4 DEF CleanIdle, ActiveDownloads
    <3>2. ASSUME f \in known, NEW g \in listed, Unused(g)
          PROVE  disk[g] = 0
      <4>1. toVisit \in Seq(File) /\ disk[g] \in Nat
        BY DEF TypeOK, CleanTypeOK, FileTypeOK
      <4>2. f = toVisit[1] /\ DOMAIN toVisit = 1 .. Len(toVisit) /\ Len(toVisit) \in Nat \ {0}
        BY <3>1, <4>1
      <4>3. ToSet(toVisit) \subseteq known
        <5>1. ASSUME NEW j \in DOMAIN toVisit
              PROVE  toVisit[j] \in known
          <6>1. j = 1 \/ 1 < j
            BY <4>2
          <6>2. 1 \in DOMAIN toVisit
            BY <4>2
          <6>. QED
            BY <3>2, <4>2, <6>1, <6>2 DEF CleanInv, KnownLast
        <5>. QED
          BY <5>1 DEF ToSet
      <4>4. g \notin ToSet(toVisit)
        BY <3>2, <4>3 DEF CleanInv, KnownUsed, Unused
      <4>5. ~(disk[g] > 0)
        BY <3>1, <3>2, <4>4 DEF CleanInv, UnusedAhead
      <4>. QED
        BY <4>1, <4>5
    <3>. QED
      BY <3>1, <3>2
  <2>. QED
    BY <2>1, <2>3, <2>4
<1>4. Spec => [][Chosen]_vars
  BY <1>1, <1>2, <1>3, TypeCorrect, PTL DEF Spec
<1>. QED
  BY <1>4 DEF UnusedGoFirst
=============================================================================
