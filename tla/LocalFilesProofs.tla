-------------------------- MODULE LocalFilesProofs --------------------------
(* The local files and their download counters, for any files, requests,     *)
(* limits and times: the counters are exact, the limit is exceeded only in a *)
(* race, and expiry spares the files that are read.                          *)
EXTENDS LocalFiles, FiniteSetTheorems, TLAPS

(* A request is counted in an entry of the list.                             *)
CountedListed == \A r \in counted : Listed(requests[r].file)
ActiveInv == ActiveIsExact /\ CountedListed

(* A request that has passed the check, and saw nobody counted since, would  *)
(* still pass it.                                                            *)
StillBelow ==
    \A r \in Waiting \ raced : Limit = 0 \/ activeDownloadsCounts < Limit

(* The two steps the theorems are about.                                     *)
Served ==
    \A r \in Waiting :
       /\ requests'[r].at = "serving"
       /\ Limit > 0 /\ activeDownloadsCounts' > Limit
       => r \in raced
Doomed == \A f \in doomed' \ doomed : f \in drifted \/ CountedOf(f) = {}

-----------------------------------------------------------------------------
(* Sets of requests are finite.                                              *)
LEMMA InsideFinite ==
    /\ IsFiniteSet(Inside) /\ Cardinality(Inside) \in Nat
    /\ \A S \in SUBSET Request : IsFiniteSet(S) /\ Cardinality(S) \in Nat
<1>1. \A S \in SUBSET Request : IsFiniteSet(S) /\ Cardinality(S) \in Nat
  BY SetAssumption, FS_Subset, FS_CardinalityType
<1>. QED
  BY <1>1 DEF Inside

(* A request comes in.                                                       *)
LEMMA ComesIn ==
    ASSUME TypeOK, NEW r \in Request, r \notin Inside, NEW f \in File,
           NEW at \in {"serving", "static"}, Answer(r, at, f)
    PROVE  Inside' = Inside \cup {r} /\ Cardinality(Inside') = Cardinality(Inside) + 1
<1>1. Inside' = Inside \cup {r}
  BY DEF Inside, Answer, TypeOK
<1>. QED
  BY <1>1, InsideFinite, FS_AddElement

(* A request inside is counted, so there is a count to give back.            *)
LEMMA SomeoneInside ==
    ASSUME TypeOK, NEW r \in Inside
    PROVE  Cardinality(Inside) \in Nat \ {0}
<1>1. Cardinality(Inside) = 0 <=> Inside = {}
  BY InsideFinite, FS_EmptySet
<1>. QED
  BY <1>1, InsideFinite

(* A request goes out.                                                       *)
LEMMA GoesOut ==
    ASSUME TypeOK, NEW r \in Inside, requests' = [requests EXCEPT ![r] = Idle]
    PROVE  Inside' = Inside \ {r} /\ Cardinality(Inside') = Cardinality(Inside) - 1
<1>1. Inside' = Inside \ {r}
  BY DEF Inside, Idle, TypeOK
<1>. QED
  BY <1>1, InsideFinite, FS_RemoveElement

(* What IncrementFileDownloadCount does to the requests and the counts.      *)
LEMMA Increment ==
    ASSUME TypeOK, NEW r \in Request, r \notin Inside, NEW f \in File,
           NEW at \in {"serving", "static"}, IncrementFileDownloadCount(r, f, at)
    PROVE  /\ activeDownloadsCounts' = activeDownloadsCounts + 1
           /\ raced' = (raced \cup Waiting) \ {r}
           /\ \/ Answer(r, at, f) /\ leaked' = leaked
              \/ requests' = [requests EXCEPT ![r] = Idle] /\ leaked' = leaked + 1
BY DEF IncrementFileDownloadCount, CountAll

(* It keeps the types.                                                       *)
LEMMA IncrementType ==
    ASSUME TypeOK, NEW r \in Request, r \notin Inside, NEW f \in File,
           NEW at \in {"serving", "static"}, IncrementFileDownloadCount(r, f, at)
    PROVE  TypeOK'
<1>1. /\ activeDownloadsCounts' \in Nat
      /\ raced' = (raced \cup Waiting) \ {r}
      /\ races' \in 0 .. MaxRace
      /\ leaked' \in Nat
  BY NumberAssumption DEF IncrementFileDownloadCount, CountAll, Miss, TypeOK
<1>2. entry' \in [File -> EntryType]
  BY DEF IncrementFileDownloadCount, CountFile, TypeOK, EntryType
<1>3. /\ requests' \in [Request -> RequestType]
      /\ \A q \in Request : requests'[q].at = "idle" <=> requests'[q].file = NoFile
      /\ \A q \in Request \ {r} : requests'[q] = requests[q]
      /\ requests'[r].at \in {at, "idle"}
      /\ counted' \subseteq IF requests'[r].at = at THEN counted \cup {r} ELSE counted
  BY SetAssumption DEF IncrementFileDownloadCount, Answer, Idle, TypeOK,
      RequestType
<1>4. counted' \subseteq Inside' /\ raced' \subseteq Waiting'
  BY <1>1, <1>3 DEF TypeOK, Inside, Waiting
<1>5. UNCHANGED <<fileVars, taskVars, now, drifted>>
  BY DEF IncrementFileDownloadCount
<1>. QED
  BY <1>1, <1>2, <1>3, <1>4, <1>5 DEF TypeOK, fileVars, taskVars

-----------------------------------------------------------------------------
(* Types are kept; there is always a count to give back.                     *)
LEMMA TypeStep ==
    ASSUME TypeOK, CountIsExact, [Next]_vars
    PROVE  TypeOK'
<1> USE NumberAssumption, SetAssumption DEF TypeOK, EntryType, RequestType,
        Inside, Waiting, NoEntry, Idle, Listed, fileVars, serveVars, taskVars
<1>1. ASSUME NEW r \in Request, NEW f \in File, Check(r, f)
      PROVE  TypeOK'
  BY <1>1 DEF Check, Answer, CheckConcurrentServingLimit
<1>2. ASSUME NEW r \in Request, Open(r)
      PROVE  TypeOK'
  <2>1. r \notin counted /\ requests[r].file \in File
    BY <1>2, SetAssumption DEF Open
  <2>2. /\ requests' \in [Request -> RequestType]
        /\ \A q \in Request : requests'[q].at = "idle" <=> requests'[q].file = NoFile
        /\ \A q \in Request \ {r} : requests'[q] = requests[q]
    <3>1. CASE requests' = [requests EXCEPT ![r] = Idle]
      BY <3>1, SetAssumption
    <3>2. CASE Answer(r, "opened", requests[r].file)
      BY <2>1, <3>2, SetAssumption DEF Answer
    <3>. QED
      BY <1>2, <3>1, <3>2 DEF Open
  <2>3. raced' \subseteq Waiting'
    BY <1>2, <2>2 DEF Open, Answer
  <2>. QED
    BY <1>2, <2>1, <2>2, <2>3 DEF Open
<1>3. ASSUME NEW r \in Request, Serve(r)
      PROVE  TypeOK'
  BY <1>3, IncrementType DEF Serve
<1>4. ASSUME NEW r \in Request, NEW f \in File, StaticNext(r, f)
      PROVE  TypeOK'
  BY <1>4, IncrementType DEF StaticNext
<1>5. ASSUME NEW r \in Request, StaticNotFound(r)
      PROVE  TypeOK'
  BY <1>5 DEF StaticNotFound
<1>6. ASSUME NEW r \in Request, Finish(r)
      PROVE  TypeOK'
  <2>1. activeDownloadsCounts' \in Nat
    <3> HIDE DEF Inside, Waiting
    <3>1. r \in Inside /\ activeDownloadsCounts' = activeDownloadsCounts - 1
      BY <1>6 DEF Finish
    <3>2. Cardinality(Inside) \in Nat \ {0}
      BY ONLY <3>1, TypeOK, SomeoneInside
    <3>. QED
      BY ONLY <3>1, <3>2, leaked \in Nat, CountIsExact DEF CountIsExact
  <2>2. entry' \in [File -> EntryType]
    BY <1>6 DEF Finish, UncountFile
  <2>3. races' \in 0 .. MaxRace
    BY <1>6 DEF Finish, Miss
  <2>. QED
    BY <1>6, <2>1, <2>2, <2>3 DEF Finish
<1>7. ASSUME NEW f \in File, Begin(f)
      PROVE  TypeOK'
  BY <1>7 DEF Begin
<1>8. ASSUME NEW f \in File, Complete(f)
      PROVE  TypeOK'
  BY <1>8 DEF Complete
<1>9. CASE Hour
  BY <1>9 DEF Hour
<1>10. ASSUME NEW f \in File, RemoveDownload(f)
      PROVE  TypeOK'
  BY <1>10 DEF RemoveDownload
<1>11. ASSUME NEW f \in File, Access(f)
      PROVE  TypeOK'
  BY <1>11 DEF Access
<1>12. CASE ScanRead
  BY <1>12 DEF ScanRead
<1>13. CASE ScanAdd
  <2>1. \A f \in File : GetFileExpireTime(f) \in Nat
    BY DEF GetFileExpireTime
  <2>2. \A f \in File : Scanned(f) \in EntryType
    <3> SUFFICES ASSUME NEW f \in File PROVE Scanned(f) \in EntryType
      OBVIOUS
    <3>1. entry[f] \in EntryType /\ GetFileExpireTime(f) \in Nat
      BY <2>1
    <3>2. CASE Listed(f)
      BY ONLY <3>1, <3>2 DEF Scanned, EntryType
    <3>3. CASE ~Listed(f)
      BY ONLY <3>1, <3>3 DEF Scanned, EntryType, NoEntry
    <3>. QED
      BY <3>2, <3>3
  <2>3. entry' \in [File -> EntryType]
    BY ONLY <1>13, <2>2, TypeOK DEF ScanAdd, TypeOK
  <2>. QED
    BY <1>13, <2>3 DEF ScanAdd
<1>14. CASE ScanDrop
  BY <1>14 DEF ScanDrop, Dropping
<1>15. CASE ExpireStart
  BY <1>15 DEF ExpireStart
<1>16. ASSUME NEW f \in File, ExpireLook(f)
      PROVE  TypeOK'
  BY <1>16 DEF ExpireLook
<1>17. CASE ExpireRemove
  BY <1>17 DEF ExpireRemove
<1>18. CASE ExpireEnd
  BY <1>18 DEF ExpireEnd
<1>19. ASSUME NEW f \in File, ExtendLocalFileExpireTime(f)
      PROVE  TypeOK'
  BY <1>19 DEF ExtendLocalFileExpireTime
<1>20. CASE UNCHANGED vars
  BY <1>20 DEF vars
<1>. QED
  BY <1>1, <1>2, <1>3, <1>4, <1>5, <1>6, <1>7, <1>8, <1>9, <1>10, <1>11,
      <1>12, <1>13, <1>14, <1>15, <1>16, <1>17, <1>18, <1>19, <1>20 DEF Next,
      RequestStep, FileStep

(* activeDownloadsCounts follows the requests inside and the leak.           *)
LEMMA CountStep ==
    ASSUME TypeOK, CountIsExact, [Next]_vars
    PROVE  CountIsExact'
<1> USE DEF CountIsExact, fileVars, serveVars, taskVars
<1>1. ASSUME NEW r \in Request, NEW f \in File, Check(r, f)
      PROVE  CountIsExact'
  <2>1. Inside' = Inside
    BY <1>1 DEF Check, Answer, Inside, Idle, TypeOK
  <2>. QED
    BY <1>1, <2>1 DEF Check
<1>2. ASSUME NEW r \in Request, Open(r)
      PROVE  CountIsExact'
  <2>1. Inside' = Inside
    BY <1>2 DEF Open, Answer, Inside, Idle, TypeOK
  <2>. QED
    BY <1>2, <2>1 DEF Open
<1>3. ASSUME NEW r \in Request, Serve(r)
      PROVE  CountIsExact'
  <2>1. /\ requests[r].file \in File /\ r \notin Inside
        /\ IncrementFileDownloadCount(r, requests[r].file, "serving")
    BY <1>3, SetAssumption DEF Serve, TypeOK, RequestType, Inside, Idle
  <2>2. CASE Answer(r, "serving", requests[r].file) /\ leaked' = leaked
    BY <2>1, <2>2, Increment, ComesIn, InsideFinite DEF TypeOK
  <2>3. CASE requests' = [requests EXCEPT ![r] = Idle] /\ leaked' = leaked + 1
    <3>1. Inside' = Inside
      BY <2>1, <2>3 DEF Inside, Idle, TypeOK
    <3>. QED
      BY <2>1, <2>3, <3>1, Increment, InsideFinite DEF TypeOK
  <2>. QED
    BY <2>1, <2>2, <2>3, Increment
<1>4. ASSUME NEW r \in Request, NEW f \in File, StaticNext(r, f)
      PROVE  CountIsExact'
  <2>1. /\ f \in File /\ r \notin Inside
        /\ IncrementFileDownloadCount(r, f, "static")
    BY <1>4, SetAssumption DEF StaticNext, TypeOK, RequestType, Inside, Idle
  <2>2. CASE Answer(r, "static", f) /\ leaked' = leaked
    BY <2>1, <2>2, Increment, ComesIn, InsideFinite DEF TypeOK
  <2>3. CASE requests' = [requests EXCEPT ![r] = Idle] /\ leaked' = leaked + 1
    <3>1. Inside' = Inside
      BY <2>1, <2>3 DEF Inside, Idle, TypeOK
    <3>. QED
      BY <2>1, <2>3, <3>1, Increment, InsideFinite DEF TypeOK
  <2>. QED
    BY <2>1, <2>2, <2>3, Increment
<1>5. ASSUME NEW r \in Request, StaticNotFound(r)
      PROVE  CountIsExact'
  <2>1. r \in Inside
    BY <1>5 DEF StaticNotFound, Inside
  <2>2. Cardinality(Inside') = Cardinality(Inside) - 1
    BY <1>5, <2>1, GoesOut DEF StaticNotFound
  <2>. QED
    BY <1>5, <2>1, <2>2, InsideFinite DEF StaticNotFound, TypeOK
<1>6. ASSUME NEW r \in Request, Finish(r)
      PROVE  CountIsExact'
  <2>1. Cardinality(Inside') = Cardinality(Inside) - 1
    BY <1>6, GoesOut DEF Finish
  <2>. QED
    BY <1>6, <2>1, InsideFinite DEF Finish, TypeOK
<1>7. ASSUME NEW f \in File, Begin(f)
      PROVE  CountIsExact'
  BY <1>7 DEF Begin, Inside
<1>8. ASSUME NEW f \in File, Complete(f)
      PROVE  CountIsExact'
  BY <1>8 DEF Complete, Inside
<1>9. CASE Hour
  BY <1>9 DEF Hour, Inside
<1>10. ASSUME NEW f \in File, RemoveDownload(f)
      PROVE  CountIsExact'
  BY <1>10 DEF RemoveDownload, Inside
<1>11. ASSUME NEW f \in File, Access(f)
      PROVE  CountIsExact'
  BY <1>11 DEF Access, Inside
<1>12. CASE ScanRead
  BY <1>12 DEF ScanRead, Inside
<1>13. CASE ScanAdd
  BY <1>13 DEF ScanAdd, Inside
<1>14. CASE ScanDrop
  BY <1>14 DEF ScanDrop, Inside
<1>15. CASE ExpireStart
  BY <1>15 DEF ExpireStart, Inside
<1>16. ASSUME NEW f \in File, ExpireLook(f)
      PROVE  CountIsExact'
  BY <1>16 DEF ExpireLook, Inside
<1>17. CASE ExpireRemove
  BY <1>17 DEF ExpireRemove, Inside
<1>18. CASE ExpireEnd
  BY <1>18 DEF ExpireEnd, Inside
<1>19. ASSUME NEW f \in File, ExtendLocalFileExpireTime(f)
      PROVE  CountIsExact'
  BY <1>19 DEF ExtendLocalFileExpireTime, Inside
<1>20. CASE UNCHANGED vars
  BY <1>20 DEF vars, Inside
<1>. QED
  BY <1>1, <1>2, <1>3, <1>4, <1>5, <1>6, <1>7, <1>8, <1>9, <1>10, <1>11,
      <1>12, <1>13, <1>14, <1>15, <1>16, <1>17, <1>18, <1>19, <1>20 DEF Next,
      RequestStep, FileStep

(* Every value a run reaches has its type; activeDownloadsCounts is never    *)
(* negative.                                                                 *)
THEOREM TypeCorrect == Spec => []TypeOK
<1>1. Init => TypeOK /\ CountIsExact
  <2> SUFFICES ASSUME Init PROVE TypeOK /\ CountIsExact
    OBVIOUS
  <2>1. Inside = {}
    BY DEF Init, Inside, Idle
  <2>2. now \in 1 .. MaxNow /\ races \in 0 .. MaxRace
    BY NumberAssumption DEF Init
  <2>3. CountIsExact
    BY <2>1, FS_EmptySet DEF Init, CountIsExact
  <2>. QED
    BY <2>2, <2>3 DEF Init, TypeOK, EntryType, RequestType, NoEntry, Idle
<1>2. TypeOK /\ CountIsExact /\ [Next]_vars => (TypeOK /\ CountIsExact)'
  BY TypeStep, CountStep
<1>. QED
  BY <1>1, <1>2, PTL DEF Spec

(* A step that counts nobody in an entry, and takes nobody out.              *)
LEMMA SameCounted ==
    ASSUME counted' = counted, \A r \in counted : requests'[r] = requests[r]
    PROVE  \A f \in File : CountedOf(f)' = CountedOf(f)
BY DEF CountedOf

(* A step that takes one request out of the entry it was counted in.         *)
LEMMA Uncounted ==
    ASSUME TypeOK, NEW r \in Inside, counted' = counted \ {r},
           requests' = [requests EXCEPT ![r] = Idle]
    PROVE  /\ \A f \in File : r \in CountedOf(f)
                  => Cardinality(CountedOf(f)') = Cardinality(CountedOf(f)) - 1
           /\ \A f \in File : r \notin CountedOf(f) => CountedOf(f)' = CountedOf(f)
           /\ \A q \in counted' : requests'[q] = requests[q]
<1>1. \A f \in File : CountedOf(f)' = CountedOf(f) \ {r}
  BY DEF CountedOf, Inside, TypeOK
<1>2. \A f \in File : IsFiniteSet(CountedOf(f))
  BY InsideFinite DEF CountedOf, Inside, TypeOK
<1>3. \A f \in File : r \in CountedOf(f)
         => Cardinality(CountedOf(f) \ {r}) = Cardinality(CountedOf(f)) - 1
  BY <1>2, FS_RemoveElement
<1>4. \A q \in counted' : requests'[q] = requests[q]
  BY DEF TypeOK, Inside
<1>. QED
  BY <1>1, <1>3, <1>4

(* A step that leaves the entries, and those counted in them, alone.         *)
LEMMA ActiveKept ==
    ASSUME ActiveInv, UNCHANGED <<entry, counted, drifted>>,
           \A r \in counted : requests'[r] = requests[r]
    PROVE  ActiveInv'
<1>1. ActiveIsExact'
  BY SameCounted DEF ActiveInv, ActiveIsExact, Listed
<1>2. CountedListed'
  BY DEF ActiveInv, CountedListed, Listed
<1>. QED
  BY <1>1, <1>2 DEF ActiveInv

(* A request that comes in is counted in the entry of its file or in none.   *)
LEMMA IncrementActive ==
    ASSUME TypeOK, ActiveInv, NEW r \in Request, r \notin Inside, NEW f \in File,
           NEW at \in {"serving", "static"}, IncrementFileDownloadCount(r, f, at)
    PROVE  ActiveInv'
<1>1. r \notin counted /\ drifted' = drifted
  BY DEF TypeOK, IncrementFileDownloadCount
<1>2. CASE Listed(f) /\ CountFile(f) /\ counted' = counted \cup {r} /\ Answer(r, at, f)
  <2>1. /\ requests'[r].file = f
        /\ \A q \in counted : requests'[q] = requests[q]
    BY <1>1, <1>2 DEF Answer, TypeOK, Inside
  <2>2. \A g \in File : CountedOf(g)' = IF g = f THEN CountedOf(g) \cup {r}
                                        ELSE CountedOf(g)
    BY <1>2, <2>1 DEF CountedOf
  <2>3. IsFiniteSet(CountedOf(f)) /\ r \notin CountedOf(f)
    BY <1>1, InsideFinite DEF CountedOf, TypeOK, Inside
  <2>4. Cardinality(CountedOf(f) \cup {r}) = Cardinality(CountedOf(f)) + 1
    BY <2>3, FS_AddElement
  <2>5. /\ \A g \in File \ {f} : entry'[g] = entry[g]
        /\ entry'[f].listed = entry[f].listed
        /\ entry'[f].active = entry[f].active + 1
    BY <1>2 DEF CountFile, TypeOK, EntryType
  <2>6. ActiveIsExact'
    BY <1>1, <2>2, <2>4, <2>5 DEF ActiveInv, ActiveIsExact, Listed
  <2>7. CountedListed'
    <3> SUFFICES ASSUME NEW q \in counted' PROVE Listed(requests[q].file)'
      BY DEF CountedListed
    <3>1. requests'[q].file \in File
      BY <1>2, <2>1, SetAssumption DEF TypeOK, RequestType, Inside
    <3>2. Listed(requests'[q].file)
      BY <1>2, <2>1 DEF ActiveInv, CountedListed
    <3>. QED
      BY <2>5, <3>1, <3>2 DEF Listed
  <2>. QED
    BY <2>6, <2>7 DEF ActiveInv
<1>3. CASE UNCHANGED <<entry, counted>>
  <2>1. \A q \in counted : requests'[q] = requests[q]
    BY <1>1 DEF IncrementFileDownloadCount, Answer, TypeOK, Inside
  <2>. QED
    BY <1>1, <1>3, <2>1, ActiveKept
<1>. QED
  BY <1>2, <1>3 DEF IncrementFileDownloadCount

(* A request that leaves: where it is not taken out of the entry it was      *)
(* counted in, or is taken out of another one, the entry has drifted.        *)
LEMMA LeaveActive ==
    ASSUME TypeOK, ActiveInv, NEW r \in Inside, NEW f \in File,
           f = requests[r].file, counted' = counted \ {r},
           requests' = [requests EXCEPT ![r] = Idle],
           \/ /\ entry' = entry
              /\ drifted' = IF r \in counted THEN drifted \cup {f} ELSE drifted
           \/ /\ UncountFile(f)
              /\ drifted' = IF r \in counted THEN drifted ELSE drifted \cup {f}
    PROVE  ActiveInv'
<1>1. /\ \A g \in File : r \in CountedOf(g)
               => Cardinality(CountedOf(g)') = Cardinality(CountedOf(g)) - 1
      /\ \A g \in File : r \notin CountedOf(g) => CountedOf(g)' = CountedOf(g)
      /\ \A q \in counted' : requests'[q] = requests[q]
  BY Uncounted
<1>2. \A g \in File : r \in CountedOf(g) <=> r \in counted /\ g = f
  BY DEF CountedOf
<1>3. /\ \A g \in File \ {f} : entry'[g] = entry[g]
      /\ entry'[f].listed = entry[f].listed
      /\ entry'[f] = entry[f] \/ entry'[f].active = entry[f].active - 1
      /\ entry' = entry \/ entry'[f].active = entry[f].active - 1
  BY DEF UncountFile, TypeOK, EntryType
<1>4. ActiveIsExact'
  <2> SUFFICES ASSUME NEW g \in File, entry'[g].listed, g \notin drifted'
               PROVE  entry'[g].active = Cardinality(CountedOf(g)')
    BY DEF ActiveIsExact, Listed
  <2>1. entry[g].active = Cardinality(CountedOf(g))
    BY <1>3 DEF ActiveInv, ActiveIsExact, Listed
  <2>2. CASE g # f
    BY <1>1, <1>2, <1>3, <2>1, <2>2
  <2>3. CASE g = f /\ r \in counted
    <3>1. entry'[g].active = entry[g].active - 1
      BY <2>3 DEF UncountFile, TypeOK, EntryType
    <3>. QED
      BY <1>1, <1>2, <2>1, <2>3, <3>1
  <2>4. CASE g = f /\ r \notin counted
    BY <1>1, <1>2, <2>1, <2>4
  <2>. QED
    BY <2>2, <2>3, <2>4
<1>5. CountedListed'
  <2> SUFFICES ASSUME NEW q \in counted' PROVE Listed(requests[q].file)'
    BY DEF CountedListed
  <2>1. requests'[q].file = requests[q].file /\ requests[q].file \in File
    BY <1>1, SetAssumption DEF TypeOK, RequestType, Inside
  <2>2. Listed(requests[q].file)
    BY DEF ActiveInv, CountedListed
  <2>. QED
    BY <1>3, <2>1, <2>2 DEF Listed
<1>. QED
  BY <1>4, <1>5 DEF ActiveInv

(* The entries follow the requests counted in them.                          *)
LEMMA ActiveStep ==
    ASSUME TypeOK, ActiveInv, [Next]_vars
    PROVE  ActiveInv'
<1> USE DEF fileVars, serveVars, taskVars
<1>1. ASSUME NEW r \in Request, NEW f \in File, Check(r, f)
      PROVE  ActiveInv'
  <2>1. \A q \in counted : requests'[q] = requests[q]
    BY <1>1 DEF Check, Answer, Idle, TypeOK, Inside
  <2>. QED
    BY <1>1, <2>1, ActiveKept DEF Check
<1>2. ASSUME NEW r \in Request, Open(r)
      PROVE  ActiveInv'
  <2>1. \A q \in counted : requests'[q] = requests[q]
    BY <1>2 DEF Open, Answer, Idle, TypeOK, Inside
  <2>. QED
    BY <1>2, <2>1, ActiveKept DEF Open
<1>3. ASSUME NEW r \in Request, Serve(r)
      PROVE  ActiveInv'
  <2>1. /\ requests[r].file \in File /\ r \notin Inside
        /\ IncrementFileDownloadCount(r, requests[r].file, "serving")
    BY <1>3, SetAssumption DEF Serve, TypeOK, RequestType, Inside, Idle
  <2>. QED
    BY <2>1, IncrementActive
<1>4. ASSUME NEW r \in Request, NEW f \in File, StaticNext(r, f)
      PROVE  ActiveInv'
  <2>1. /\ f \in File /\ r \notin Inside
        /\ IncrementFileDownloadCount(r, f, "static")
    BY <1>4, SetAssumption DEF StaticNext, TypeOK, RequestType, Inside, Idle
  <2>. QED
    BY <2>1, IncrementActive
<1>5. ASSUME NEW r \in Request, StaticNotFound(r)
      PROVE  ActiveInv'
  <2>1. r \in Inside /\ requests[r].file \in File
    BY <1>5, SetAssumption DEF StaticNotFound, Inside, TypeOK, RequestType
  <2>. QED
    BY <1>5, <2>1, LeaveActive DEF StaticNotFound
<1>6. ASSUME NEW r \in Request, Finish(r)
      PROVE  ActiveInv'
  <2>1. r \in Inside /\ requests[r].file \in File
    BY <1>6, SetAssumption DEF Finish, Inside, TypeOK, RequestType
  <2>. QED
    BY <1>6, <2>1, LeaveActive DEF Finish
<1>7. ASSUME NEW f \in File, Begin(f)
      PROVE  ActiveInv'
  BY <1>7, ActiveKept DEF Begin
<1>8. ASSUME NEW f \in File, Complete(f)
      PROVE  ActiveInv'
  BY <1>8, ActiveKept DEF Complete
<1>9. CASE Hour
  BY <1>9, ActiveKept DEF Hour
<1>10. ASSUME NEW f \in File, RemoveDownload(f)
      PROVE  ActiveInv'
  BY <1>10, ActiveKept DEF RemoveDownload
<1>11. ASSUME NEW f \in File, Access(f)
      PROVE  ActiveInv'
  BY <1>11, ActiveKept DEF Access
<1>12. CASE ScanRead
  BY <1>12, ActiveKept DEF ScanRead
<1>13. CASE ScanAdd
  <2>1. \A f \in File : CountedOf(f)' = CountedOf(f)
    BY <1>13 DEF ScanAdd, CountedOf
  <2>2. \A f \in File : Listed(f)
           => entry'[f].listed /\ entry'[f].active = entry[f].active
    BY <1>13 DEF ScanAdd, Scanned, Listed, TypeOK, EntryType
  <2>3. \A f \in File : ~Listed(f) => entry'[f].active = 0 \/ entry'[f] = entry[f]
    BY <1>13 DEF ScanAdd, Scanned
  <2>4. \A f \in File : ~Listed(f) => CountedOf(f) = {}
    BY DEF ActiveInv, CountedListed, CountedOf
  <2>5. ActiveIsExact'
    BY <1>13, <2>1, <2>2, <2>3, <2>4, FS_EmptySet
       DEF ScanAdd, ActiveInv, ActiveIsExact, Listed
  <2>6. CountedListed'
    <3> SUFFICES ASSUME NEW q \in counted' PROVE Listed(requests[q].file)'
      BY DEF CountedListed
    <3>1. requests'[q] = requests[q] /\ q \in counted /\ requests[q].file \in File
      BY <1>13, SetAssumption DEF ScanAdd, TypeOK, RequestType, Inside
    <3>. QED
      BY <2>2, <3>1 DEF ActiveInv, CountedListed, Listed
  <2>. QED
    BY <2>5, <2>6 DEF ActiveInv
<1>14. CASE ScanDrop
  <2>1. \A f \in File \ Dropping : CountedOf(f)' = CountedOf(f)
    BY <1>14 DEF ScanDrop, CountedOf
  <2>2. \A f \in File \ Dropping : entry'[f] = entry[f]
    BY <1>14 DEF ScanDrop
  <2>3. \A f \in Dropping : f \in File /\ ~entry'[f].listed
    BY <1>14 DEF ScanDrop, NoEntry, Dropping
  <2>4. ActiveIsExact'
    BY <1>14, <2>1, <2>2, <2>3 DEF ScanDrop, ActiveInv, ActiveIsExact, Listed
  <2>5. CountedListed'
    <3> SUFFICES ASSUME NEW q \in counted' PROVE Listed(requests[q].file)'
      BY DEF CountedListed
    <3>1. /\ requests'[q] = requests[q] /\ q \in counted
          /\ requests[q].file \in File \ Dropping
      BY <1>14, SetAssumption DEF ScanDrop, TypeOK, RequestType, Inside
    <3>. QED
      BY <2>2, <3>1 DEF ActiveInv, CountedListed, Listed
  <2>. QED
    BY <2>4, <2>5 DEF ActiveInv
<1>15. CASE ExpireStart
  BY <1>15, ActiveKept DEF ExpireStart
<1>16. ASSUME NEW f \in File, ExpireLook(f)
      PROVE  ActiveInv'
  BY <1>16, ActiveKept DEF ExpireLook
<1>17. CASE ExpireRemove
  BY <1>17, ActiveKept DEF ExpireRemove
<1>18. CASE ExpireEnd
  BY <1>18, ActiveKept DEF ExpireEnd
<1>19. ASSUME NEW f \in File, ExtendLocalFileExpireTime(f)
      PROVE  ActiveInv'
  BY <1>19, ActiveKept DEF ExtendLocalFileExpireTime
<1>20. CASE UNCHANGED vars
  BY <1>20, ActiveKept DEF vars
<1>. QED
  BY <1>1, <1>2, <1>3, <1>4, <1>5, <1>6, <1>7, <1>8, <1>9, <1>10, <1>11,
      <1>12, <1>13, <1>14, <1>15, <1>16, <1>17, <1>18, <1>19, <1>20 DEF Next,
      RequestStep, FileStep

(* Both download counters are what they should be, whatever the scan does to *)
(* the entries meanwhile: for any number of files and requests.              *)
THEOREM CountersFollow == Spec => []CountersExact
<1>1. Init => CountIsExact /\ ActiveInv
  <2> SUFFICES ASSUME Init PROVE CountIsExact /\ ActiveInv
    OBVIOUS
  <2>1. Inside = {}
    BY DEF Init, Inside, Idle
  <2>2. ActiveInv
    BY DEF Init, ActiveInv, ActiveIsExact, CountedListed, Listed, NoEntry
  <2>. QED
    BY <2>1, <2>2, FS_EmptySet DEF Init, CountIsExact
<1>2. TypeOK /\ CountIsExact /\ ActiveInv /\ [Next]_vars => (CountIsExact /\ ActiveInv)'
  BY CountStep, ActiveStep
<1>3. CountIsExact /\ ActiveInv => CountersExact
  BY DEF CountersExact, ActiveInv
<1>. QED
  BY <1>1, <1>2, <1>3, TypeCorrect, PTL DEF Spec

(* Only ExpireLook dooms a file.                                             *)
LEMMA DoomStep ==
    ASSUME TypeOK, ActiveInv, [Next]_vars
    PROVE  Doomed
<1> USE DEF fileVars, serveVars, taskVars
<1>1. ASSUME NEW r \in Request, NEW f \in File, Check(r, f)
      PROVE  Doomed
  BY <1>1 DEF Check, Doomed
<1>2. ASSUME NEW r \in Request, Open(r)
      PROVE  Doomed
  BY <1>2 DEF Open, Doomed
<1>3. ASSUME NEW r \in Request, Serve(r)
      PROVE  Doomed
  BY <1>3 DEF Serve, IncrementFileDownloadCount, Doomed
<1>4. ASSUME NEW r \in Request, NEW f \in File, StaticNext(r, f)
      PROVE  Doomed
  BY <1>4 DEF StaticNext, IncrementFileDownloadCount, Doomed
<1>5. ASSUME NEW r \in Request, StaticNotFound(r)
      PROVE  Doomed
  BY <1>5 DEF StaticNotFound, Doomed
<1>6. ASSUME NEW r \in Request, Finish(r)
      PROVE  Doomed
  BY <1>6 DEF Finish, Doomed
<1>7. ASSUME NEW f \in File, Begin(f)
      PROVE  Doomed
  BY <1>7 DEF Begin, Doomed
<1>8. ASSUME NEW f \in File, Complete(f)
      PROVE  Doomed
  BY <1>8 DEF Complete, Doomed
<1>9. CASE Hour
  BY <1>9 DEF Hour, Doomed
<1>10. ASSUME NEW f \in File, RemoveDownload(f)
      PROVE  Doomed
  BY <1>10 DEF RemoveDownload, Doomed
<1>11. ASSUME NEW f \in File, Access(f)
      PROVE  Doomed
  BY <1>11 DEF Access, Doomed
<1>12. CASE ScanRead
  BY <1>12 DEF ScanRead, Doomed
<1>13. CASE ScanAdd
  BY <1>13 DEF ScanAdd, Doomed
<1>14. CASE ScanDrop
  BY <1>14 DEF ScanDrop, Doomed
<1>15. CASE ExpireStart
  BY <1>15 DEF ExpireStart, Doomed
<1>16. ASSUME NEW f \in File, ExpireLook(f)
      PROVE  Doomed
  <2> SUFFICES ASSUME f \in doomed', f \notin doomed, f \notin drifted
               PROVE  CountedOf(f) = {}
    BY <1>16 DEF ExpireLook, Doomed
  <2>1. Listed(f) /\ entry[f].active = 0
    BY <1>16 DEF ExpireLook, Expired
  <2>2. Cardinality(CountedOf(f)) = 0
    BY <2>1 DEF ActiveInv, ActiveIsExact
  <2>3. IsFiniteSet(CountedOf(f))
    BY InsideFinite DEF CountedOf, TypeOK, Inside
  <2>. QED
    BY <2>2, <2>3, FS_EmptySet
<1>17. CASE ExpireRemove
  BY <1>17 DEF ExpireRemove, Doomed
<1>18. CASE ExpireEnd
  BY <1>18 DEF ExpireEnd, Doomed
<1>19. ASSUME NEW f \in File, ExtendLocalFileExpireTime(f)
      PROVE  Doomed
  BY <1>19 DEF ExtendLocalFileExpireTime, Doomed
<1>20. CASE UNCHANGED vars
  BY <1>20 DEF vars, Doomed
<1>. QED
  BY <1>1, <1>2, <1>3, <1>4, <1>5, <1>6, <1>7, <1>8, <1>9, <1>10, <1>11,
      <1>12, <1>13, <1>14, <1>15, <1>16, <1>17, <1>18, <1>19, <1>20 DEF Next,
      RequestStep, FileStep

(* An expired file is given up only when nobody is counted on it, unless its *)
(* entry has drifted.                                                        *)
THEOREM ReadersSpared == Spec => ExpireSparesReaders
<1>1. Init => ActiveInv
  BY DEF Init, ActiveInv, ActiveIsExact, CountedListed, Listed, NoEntry
<1>2. TypeOK /\ ActiveInv /\ [Next]_vars => [Doomed]_vars
  BY DoomStep
<1>. QED
  BY <1>1, <1>2, ActiveStep, TypeCorrect, PTL DEF Spec, ExpireSparesReaders,
      Doomed

(* Counting a request marks those that have passed the check.                *)
LEMMA BelowStep ==
    ASSUME TypeOK, StillBelow, [Next]_vars
    PROVE  StillBelow'
<1> USE DEF fileVars, serveVars, taskVars
<1>1. ASSUME NEW r \in Request, NEW f \in File, Check(r, f)
      PROVE  StillBelow'
  <2>1. Waiting' = Waiting \cup {r}
    BY <1>1 DEF Check, Answer, Waiting, TypeOK
  <2>. QED
    BY <1>1, <2>1 DEF Check, CheckConcurrentServingLimit, StillBelow
<1>2. ASSUME NEW r \in Request, Open(r)
      PROVE  StillBelow'
  <2>1. CASE Answer(r, "opened", requests[r].file) /\ raced' = raced
    <3>1. Waiting' = Waiting
      BY <1>2, <2>1 DEF Open, Answer, Waiting, TypeOK
    <3>. QED
      BY <1>2, <2>1, <3>1 DEF Open, StillBelow
  <2>2. CASE requests' = [requests EXCEPT ![r] = Idle] /\ raced' = raced \ {r}
    <3>1. Waiting' = Waiting \ {r}
      BY <2>2 DEF Waiting, Idle, TypeOK
    <3>. QED
      BY <1>2, <2>2, <3>1 DEF Open, StillBelow
  <2>. QED
    BY <1>2, <2>1, <2>2 DEF Open
<1>3. ASSUME NEW r \in Request, Serve(r)
      PROVE  StillBelow'
  <2>1. /\ requests[r].file \in File /\ r \notin Inside
        /\ IncrementFileDownloadCount(r, requests[r].file, "serving")
    BY <1>3, SetAssumption DEF Serve, TypeOK, RequestType, Inside, Idle
  <2>2. /\ raced' = (raced \cup Waiting) \ {r}
        /\ \/ Answer(r, "serving", requests[r].file)
           \/ requests' = [requests EXCEPT ![r] = Idle]
    BY <2>1, Increment
  <2>3. Waiting' \subseteq Waiting \ {r}
    BY <2>2 DEF Waiting, Answer, Idle, TypeOK
  <2>. QED
    BY <2>2, <2>3 DEF StillBelow
<1>4. ASSUME NEW r \in Request, NEW f \in File, StaticNext(r, f)
      PROVE  StillBelow'
  <2>1. /\ f \in File /\ r \notin Inside
        /\ IncrementFileDownloadCount(r, f, "static")
    BY <1>4, SetAssumption DEF StaticNext, TypeOK, RequestType, Inside, Idle
  <2>2. /\ raced' = (raced \cup Waiting) \ {r}
        /\ \/ Answer(r, "static", f)
           \/ requests' = [requests EXCEPT ![r] = Idle]
    BY <2>1, Increment
  <2>3. Waiting' \subseteq Waiting \ {r}
    BY <2>2 DEF Waiting, Answer, Idle, TypeOK
  <2>. QED
    BY <2>2, <2>3 DEF StillBelow
<1>5. ASSUME NEW r \in Request, StaticNotFound(r)
      PROVE  StillBelow'
  <2>1. Waiting' = Waiting
    BY <1>5 DEF StaticNotFound, Waiting, Inside, Idle, TypeOK
  <2>. QED
    BY <1>5, <2>1, NumberAssumption DEF StaticNotFound, StillBelow, TypeOK
<1>6. ASSUME NEW r \in Request, Finish(r)
      PROVE  StillBelow'
  <2>1. Waiting' = Waiting
    BY <1>6 DEF Finish, Waiting, Inside, Idle, TypeOK
  <2>. QED
    BY <1>6, <2>1, NumberAssumption DEF Finish, StillBelow, TypeOK
<1>7. ASSUME NEW f \in File, Begin(f)
      PROVE  StillBelow'
  BY <1>7 DEF Begin, StillBelow, Waiting
<1>8. ASSUME NEW f \in File, Complete(f)
      PROVE  StillBelow'
  BY <1>8 DEF Complete, StillBelow, Waiting
<1>9. CASE Hour
  BY <1>9 DEF Hour, StillBelow, Waiting
<1>10. ASSUME NEW f \in File, RemoveDownload(f)
      PROVE  StillBelow'
  BY <1>10 DEF RemoveDownload, StillBelow, Waiting
<1>11. ASSUME NEW f \in File, Access(f)
      PROVE  StillBelow'
  BY <1>11 DEF Access, StillBelow, Waiting
<1>12. CASE ScanRead
  BY <1>12 DEF ScanRead, StillBelow, Waiting
<1>13. CASE ScanAdd
  BY <1>13 DEF ScanAdd, StillBelow, Waiting
<1>14. CASE ScanDrop
  BY <1>14 DEF ScanDrop, StillBelow, Waiting
<1>15. CASE ExpireStart
  BY <1>15 DEF ExpireStart, StillBelow, Waiting
<1>16. ASSUME NEW f \in File, ExpireLook(f)
      PROVE  StillBelow'
  BY <1>16 DEF ExpireLook, StillBelow, Waiting
<1>17. CASE ExpireRemove
  BY <1>17 DEF ExpireRemove, StillBelow, Waiting
<1>18. CASE ExpireEnd
  BY <1>18 DEF ExpireEnd, StillBelow, Waiting
<1>19. ASSUME NEW f \in File, ExtendLocalFileExpireTime(f)
      PROVE  StillBelow'
  BY <1>19 DEF ExtendLocalFileExpireTime, StillBelow, Waiting
<1>20. CASE UNCHANGED vars
  BY <1>20 DEF vars, StillBelow, Waiting
<1>. QED
  BY <1>1, <1>2, <1>3, <1>4, <1>5, <1>6, <1>7, <1>8, <1>9, <1>10, <1>11,
      <1>12, <1>13, <1>14, <1>15, <1>16, <1>17, <1>18, <1>19, <1>20 DEF Next,
      RequestStep, FileStep

(* Only Serve lets in a request that waits.                                  *)
LEMMA ServeStep ==
    ASSUME TypeOK, StillBelow, [Next]_vars
    PROVE  Served
<1> USE DEF fileVars, serveVars, taskVars
<1>1. ASSUME NEW r \in Request, NEW f \in File, Check(r, f)
      PROVE  Served
  BY <1>1 DEF Check, Answer, Served, Waiting, Inside, Idle, TypeOK
<1>2. ASSUME NEW r \in Request, Open(r)
      PROVE  Served
  BY <1>2 DEF Open, Answer, Served, Waiting, Inside, Idle, TypeOK
<1>3. ASSUME NEW r \in Request, Serve(r)
      PROVE  Served
  <2>1. r \in Waiting /\ requests[r].file \in File /\ r \notin Inside
    BY <1>3, SetAssumption DEF Serve, Waiting, Inside, TypeOK, RequestType
  <2>2. activeDownloadsCounts' = activeDownloadsCounts + 1
    BY <1>3, <2>1, Increment DEF Serve
  <2>3. \A q \in Waiting \ {r} : requests'[q] = requests[q]
    BY <1>3 DEF Serve, IncrementFileDownloadCount, Answer, Waiting, TypeOK
  <2>. QED
    BY <2>1, <2>2, <2>3, NumberAssumption DEF Served, StillBelow, Waiting,
        TypeOK
<1>4. ASSUME NEW r \in Request, NEW f \in File, StaticNext(r, f)
      PROVE  Served
  BY <1>4 DEF StaticNext, IncrementFileDownloadCount, Answer, Served, Waiting,
      Inside, Idle, TypeOK
<1>5. ASSUME NEW r \in Request, StaticNotFound(r)
      PROVE  Served
  BY <1>5 DEF StaticNotFound, Served, Waiting, Inside, Idle, TypeOK
<1>6. ASSUME NEW r \in Request, Finish(r)
      PROVE  Served
  BY <1>6 DEF Finish, Served, Waiting, Inside, Idle, TypeOK
<1>7. ASSUME NEW f \in File, Begin(f)
      PROVE  Served
  BY <1>7 DEF Begin, Served, Waiting, Inside, Idle, TypeOK
<1>8. ASSUME NEW f \in File, Complete(f)
      PROVE  Served
  BY <1>8 DEF Complete, Served, Waiting, Inside, Idle, TypeOK
<1>9. CASE Hour
  BY <1>9 DEF Hour, Served, Waiting, Inside, Idle, TypeOK
<1>10. ASSUME NEW f \in File, RemoveDownload(f)
      PROVE  Served
  BY <1>10 DEF RemoveDownload, Served, Waiting, Inside, Idle, TypeOK
<1>11. ASSUME NEW f \in File, Access(f)
      PROVE  Served
  BY <1>11 DEF Access, Served, Waiting, Inside, Idle, TypeOK
<1>12. CASE ScanRead
  BY <1>12 DEF ScanRead, Served, Waiting, Inside, Idle, TypeOK
<1>13. CASE ScanAdd
  BY <1>13 DEF ScanAdd, Scanned, GetFileExpireTime, Served, Waiting, Inside,
      Idle, TypeOK
<1>14. CASE ScanDrop
  BY <1>14 DEF ScanDrop, Dropping, Served, Waiting, Inside, Idle, TypeOK
<1>15. CASE ExpireStart
  BY <1>15 DEF ExpireStart, Served, Waiting, Inside, Idle, TypeOK
<1>16. ASSUME NEW f \in File, ExpireLook(f)
      PROVE  Served
  BY <1>16 DEF ExpireLook, Served, Waiting, Inside, Idle, TypeOK
<1>17. CASE ExpireRemove
  BY <1>17 DEF ExpireRemove, Served, Waiting, Inside, Idle, TypeOK
<1>18. CASE ExpireEnd
  BY <1>18 DEF ExpireEnd, Served, Waiting, Inside, Idle, TypeOK
<1>19. ASSUME NEW f \in File, ExtendLocalFileExpireTime(f)
      PROVE  Served
  BY <1>19 DEF ExtendLocalFileExpireTime, Served, Waiting, Inside, Idle, TypeOK
<1>20. CASE UNCHANGED vars
  BY <1>20 DEF vars, Served, Waiting, Inside, Idle, TypeOK
<1>. QED
  BY <1>1, <1>2, <1>3, <1>4, <1>5, <1>6, <1>7, <1>8, <1>9, <1>10, <1>11,
      <1>12, <1>13, <1>14, <1>15, <1>16, <1>17, <1>18, <1>19, <1>20 DEF Next,
      RequestStep, FileStep

(* The limit is exceeded by ServeLocalFile only where another request was    *)
(* counted between its check and its increment.                              *)
THEOREM OvershootIsRace == Spec => OvershootNeedsRace
<1>1. Init => StillBelow
  BY DEF Init, StillBelow, Waiting, Idle
<1>2. TypeOK /\ StillBelow /\ [Next]_vars => [Served]_vars
  BY ServeStep
<1>. QED
  BY <1>1, <1>2, BelowStep, TypeCorrect, PTL DEF Spec, OvershootNeedsRace,
      Served

(* The expiration in the list is the file's, unless it was touched since.    *)
TimeInv ==
    \A f \in File : Listed(f) =>
        /\ disk[f] # "partial"
        /\ ReportsBirth /\ disk[f] = "whole" /\ f \notin stale
              => entry[f].expire = touched[f] + ExpireHours
InTime ==
    \A f \in doomed' \ doomed :
       ReportsBirth /\ disk[f] = "whole" /\ f \notin stale
         => now > touched[f] + ExpireHours

(* Who changes the times of a file marks it, until the scan has looked again.*)
LEMMA TimeStep ==
    ASSUME TypeOK, TimeInv, [Next]_vars
    PROVE  TimeInv'
<1> USE DEF fileVars, serveVars, taskVars
<1>1. ASSUME NEW r \in Request, NEW f \in File, Check(r, f)
      PROVE  TimeInv'
  BY <1>1 DEF Check, TimeInv, Listed, TypeOK
<1>2. ASSUME NEW r \in Request, Open(r)
      PROVE  TimeInv'
  BY <1>2 DEF Open, TimeInv, Listed, TypeOK
<1>3. ASSUME NEW r \in Request, Serve(r)
      PROVE  TimeInv'
  <2>1. /\ requests[r].file \in File
        /\ IncrementFileDownloadCount(r, requests[r].file, "serving")
    BY <1>3, SetAssumption DEF Serve, TypeOK, RequestType
  <2>2. CountFile(requests[r].file) \/ entry' = entry
    BY <2>1 DEF IncrementFileDownloadCount
  <2>3. /\ \A g \in File : entry'[g].listed = entry[g].listed
        /\ \A g \in File : entry'[g].expire = entry[g].expire
    BY <2>1, <2>2 DEF CountFile, TypeOK, EntryType
  <2>. QED
    BY <2>1, <2>3 DEF IncrementFileDownloadCount, TimeInv, Listed
<1>4. ASSUME NEW r \in Request, NEW f \in File, StaticNext(r, f)
      PROVE  TimeInv'
  <2>1. f \in File /\ IncrementFileDownloadCount(r, f, "static")
    BY <1>4, SetAssumption DEF StaticNext, TypeOK, RequestType
  <2>2. CountFile(f) \/ entry' = entry
    BY <2>1 DEF IncrementFileDownloadCount
  <2>3. /\ \A g \in File : entry'[g].listed = entry[g].listed
        /\ \A g \in File : entry'[g].expire = entry[g].expire
    BY <2>1, <2>2 DEF CountFile, TypeOK, EntryType
  <2>. QED
    BY <2>1, <2>3 DEF IncrementFileDownloadCount, TimeInv, Listed
<1>5. ASSUME NEW r \in Request, StaticNotFound(r)
      PROVE  TimeInv'
  BY <1>5 DEF StaticNotFound, TimeInv, Listed, TypeOK
<1>6. ASSUME NEW r \in Request, Finish(r)
      PROVE  TimeInv'
  <2>1. /\ \A g \in File : entry'[g].listed = entry[g].listed
        /\ \A g \in File : entry'[g].expire = entry[g].expire
    BY <1>6 DEF Finish, UncountFile, TypeOK, EntryType
  <2>. QED
    BY <1>6, <2>1 DEF Finish, TimeInv, Listed
<1>7. ASSUME NEW f \in File, Begin(f)
      PROVE  TimeInv'
  BY <1>7 DEF Begin, TimeInv, Listed, TypeOK
<1>8. ASSUME NEW f \in File, Complete(f)
      PROVE  TimeInv'
  BY <1>8 DEF Complete, TimeInv, Listed, TypeOK
<1>9. CASE Hour
  BY <1>9 DEF Hour, TimeInv, Listed, TypeOK
<1>10. ASSUME NEW f \in File, RemoveDownload(f)
      PROVE  TimeInv'
  BY <1>10 DEF RemoveDownload, TimeInv, Listed, TypeOK
<1>11. ASSUME NEW f \in File, Access(f)
      PROVE  TimeInv'
  BY <1>11 DEF Access, TimeInv, Listed, TypeOK
<1>12. CASE ScanRead
  BY <1>12 DEF ScanRead, TimeInv, Listed, TypeOK
<1>13. CASE ScanAdd
  <2>1. \A g \in work : disk[g] = "whole"
           => entry'[g].expire = GetFileExpireTime(g)
    BY <1>13 DEF ScanAdd, Scanned, TypeOK, EntryType
  <2>2. \A g \in File : g \notin work \/ disk[g] # "whole" => entry'[g] = entry[g]
    BY <1>13 DEF ScanAdd
  <2>. QED
    BY <1>13, <2>1, <2>2 DEF ScanAdd, TimeInv, Listed, GetFileExpireTime
<1>14. CASE ScanDrop
  BY <1>14 DEF ScanDrop, NoEntry, TimeInv, Listed, TypeOK
<1>15. CASE ExpireStart
  BY <1>15 DEF ExpireStart, TimeInv, Listed, TypeOK
<1>16. ASSUME NEW f \in File, ExpireLook(f)
      PROVE  TimeInv'
  BY <1>16 DEF ExpireLook, TimeInv, Listed, TypeOK
<1>17. CASE ExpireRemove
  BY <1>17 DEF ExpireRemove, TimeInv, Listed, TypeOK
<1>18. CASE ExpireEnd
  BY <1>18 DEF ExpireEnd, TimeInv, Listed, TypeOK
<1>19. ASSUME NEW f \in File, ExtendLocalFileExpireTime(f)
      PROVE  TimeInv'
  BY <1>19 DEF ExtendLocalFileExpireTime, TimeInv, Listed, TypeOK
<1>20. CASE UNCHANGED vars
  BY <1>20 DEF vars, TimeInv, Listed, TypeOK
<1>. QED
  BY <1>1, <1>2, <1>3, <1>4, <1>5, <1>6, <1>7, <1>8, <1>9, <1>10, <1>11,
      <1>12, <1>13, <1>14, <1>15, <1>16, <1>17, <1>18, <1>19, <1>20 DEF Next,
      RequestStep, FileStep

(* Only ExpireLook dooms a file, and it looks at the time.                   *)
LEMMA InTimeStep ==
    ASSUME TypeOK, TimeInv, [Next]_vars
    PROVE  InTime
<1> USE DEF fileVars, serveVars, taskVars
<1>1. ASSUME NEW r \in Request, NEW f \in File, Check(r, f)
      PROVE  InTime
  BY <1>1 DEF Check, InTime
<1>2. ASSUME NEW r \in Request, Open(r)
      PROVE  InTime
  BY <1>2 DEF Open, InTime
<1>3. ASSUME NEW r \in Request, Serve(r)
      PROVE  InTime
  BY <1>3 DEF Serve, IncrementFileDownloadCount, InTime
<1>4. ASSUME NEW r \in Request, NEW f \in File, StaticNext(r, f)
      PROVE  InTime
  BY <1>4 DEF StaticNext, IncrementFileDownloadCount, InTime
<1>5. ASSUME NEW r \in Request, StaticNotFound(r)
      PROVE  InTime
  BY <1>5 DEF StaticNotFound, InTime
<1>6. ASSUME NEW r \in Request, Finish(r)
      PROVE  InTime
  BY <1>6 DEF Finish, InTime
<1>7. ASSUME NEW f \in File, Begin(f)
      PROVE  InTime
  BY <1>7 DEF Begin, InTime
<1>8. ASSUME NEW f \in File, Complete(f)
      PROVE  InTime
  BY <1>8 DEF Complete, InTime
<1>9. CASE Hour
  BY <1>9 DEF Hour, InTime
<1>10. ASSUME NEW f \in File, RemoveDownload(f)
      PROVE  InTime
  BY <1>10 DEF RemoveDownload, InTime
<1>11. ASSUME NEW f \in File, Access(f)
      PROVE  InTime
  BY <1>11 DEF Access, InTime
<1>12. CASE ScanRead
  BY <1>12 DEF ScanRead, InTime
<1>13. CASE ScanAdd
  BY <1>13 DEF ScanAdd, InTime
<1>14. CASE ScanDrop
  BY <1>14 DEF ScanDrop, InTime
<1>15. CASE ExpireStart
  BY <1>15 DEF ExpireStart, InTime
<1>16. ASSUME NEW f \in File, ExpireLook(f)
      PROVE  InTime
  BY <1>16 DEF ExpireLook, Expired, TimeInv, InTime
<1>17. CASE ExpireRemove
  BY <1>17 DEF ExpireRemove, InTime
<1>18. CASE ExpireEnd
  BY <1>18 DEF ExpireEnd, InTime
<1>19. ASSUME NEW f \in File, ExtendLocalFileExpireTime(f)
      PROVE  InTime
  BY <1>19 DEF ExtendLocalFileExpireTime, InTime
<1>20. CASE UNCHANGED vars
  BY <1>20 DEF vars, InTime
<1>. QED
  BY <1>1, <1>2, <1>3, <1>4, <1>5, <1>6, <1>7, <1>8, <1>9, <1>10, <1>11,
      <1>12, <1>13, <1>14, <1>15, <1>16, <1>17, <1>18, <1>19, <1>20 DEF Next,
      RequestStep, FileStep

(* A file is given up only when its time is over, on disk and not only in    *)
(* the list, unless it was touched after the last scan.                      *)
THEOREM ExpiredOnTime == Spec => ExpireInTime
<1>1. Init => TimeInv
  BY DEF Init, TimeInv, Listed, NoEntry
<1>2. TypeOK /\ TimeInv /\ [Next]_vars => [InTime]_vars
  BY InTimeStep
<1>. QED
  BY <1>1, <1>2, TimeStep, TypeCorrect, PTL DEF Spec, ExpireInTime, InTime

=============================================================================
